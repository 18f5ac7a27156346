-------------------------- MODULE StabilityProofs --------------------------
(***************************************************************************)
(* Every chain of table transformations is stable, for any tables, user    *)
(* functions, hashes, thresholds and distances, and what is measured at    *)
(* its end loses no more than it claims.                                   *)
(*                                                                         *)
(* The argument.  TableProofs counts the distance of two tables as the     *)
(* number of their differences, and shows of each transformation from      *)
(* which differences of its input those of its output come.  Here all      *)
(* steps are put together (ChainStable).                                   *)
(*                                                                         *)
(* Through dictionaries the same holds (DictChainStable): the keys of all  *)
(* tables come from keys that differed, and a private join of truncated    *)
(* tables gives each row that differs a threshold of partners at most.     *)
(*                                                                         *)
(* A measurement adds up, over the groups it is made of, what noise has to *)
(* make up for (MeasuredLossWithinClaim): a number of a group changes by   *)
(* no more than the sensitivity for each row that is added or removed, the *)
(* rows are no further apart than the bound, and exact numbers are kept in *)
(* lowest terms, so that what adds up and divides out as fractions does so *)
(* as values.  The rank of a number among sorted ones, and the rows up to  *)
(* a bucket, change with the rows that are added or removed alike, so that *)
(* quantiles and bounds are numbers of this kind.                          *)
(*                                                                         *)
(* Rows that are selected lose delta too: a row that only one of the       *)
(* tables has shows with the chance that noise makes up for the rest of    *)
(* the threshold, and of the rows and copies that differ there are no more *)
(* than the distance, which is a whole number (WholeDistances).            *)
(***************************************************************************)
EXTENDS TableProofs, Measurements

-----------------------------------------------------------------------------
(* All transformations *)

(* A chain in which each PartitionByKeys keeps the groups whole, and each  *)
(* unique column has unique values.                                        *)
Careful ==
  /\ PartitionByKeys => WholeGroups
  /\ AddUniqueColumn => UniqueValues

LEMMA InitialStable ==
  ASSUME Init
  PROVE  Stable
<1>1. PICK in \in Inputs : /\ metric = in.metric
                           /\ bound = Distance(metric, left, right)
                           /\ bound \in 0 .. in.apart
  BY DEF Init
<1>2. bound # Infinite /\ bound \in Int
  BY <1>1 DEF Infinite
<1> QED BY <1>1, <1>2 DEF Stable, Within

LEMMA StepIsStable ==
  ASSUME UserFunctions, PublicRows, UnwrapsRows, TableInv, Stable, Next, Careful
  PROVE  Stable'
<1>0. GroupsStay
  BY StepIsLocal
<1>1. CASE DropInfs \/ DropNaNs \/ DropNulls
  BY <1>0, <1>1, DropRowsIsStable DEF DropInfs, DropNaNs, DropNulls
<1>2. CASE ReplaceInfs \/ ReplaceNaNs
  <2>1. PICK c \in DOMAIN schema : \E what : \E with :
          what # {Null} /\ ReplaceCells(what, c, with)
    BY <1>2 DEF ReplaceInfs, ReplaceNaNs, Infs, NaN, Null
  <2>2. schema[c].kind = "float"
    BY <2>1 DEF ReplaceCells, HasSpecial
  <2>3. IsIfGroupedBy(metric) => c \notin Columns(metric)
    BY <2>2, ColumnsOfGroups
  <2> QED BY <1>0, <2>1, <2>3, ReplaceCellsIsStable
<1>3. CASE ReplaceNulls
  <2>1. PICK c \in DOMAIN schema : /\ IsIfGroupedBy(metric) => c \notin Columns(metric)
                                   /\ \E with : ReplaceCells({Null}, c, with)
    BY <1>3 DEF ReplaceNulls
  <2> QED BY <1>0, <2>1, ReplaceCellsIsStable
<1>4. CASE PublicJoin
  BY <1>0, <1>4, PublicJoinIsStable DEF PublicJoin
<1>5. CASE Filter \/ Select \/ Map \/ FlatMap \/ FlatMapByKey
  BY <1>0, <1>5, FilterIsStable, SelectIsStable, MapIsStable, FlatMapIsStable,
     FlatMapByKeyIsStable
<1>6. CASE LimitRowsPerGroup \/ LimitKeys \/ LimitRowsPerKeyPerGroup
  BY <1>0, <1>6, LimitRowsPerGroupIsStable, LimitKeysIsStable,
     LimitRowsPerKeyPerGroupIsStable
<1>7. CASE Rename \/ GroupingFlatMap \/ Identity \/ UnwrapIfGroupedBy
             \/ HammingDistanceToSymmetricDifference
  BY <1>7, RenameIsStable, GroupingFlatMapIsStable, IdentityIsStable, UnwrapIsStable,
     HammingIsStable
<1>8. CASE AddUniqueColumn
  BY <1>8, AddUniqueColumnIsStable DEF Careful
<1>9. CASE PartitionByKeys
  BY <1>9, PartitionByKeysIsStable DEF Careful
<1>10. CASE GroupBy
  BY <1>10, GroupByIsStable
<1> QED
  BY <1>1, <1>2, <1>3, <1>4, <1>5, <1>6, <1>7, <1>8, <1>9, <1>10 DEF Next

(* The stability guarantee: neighbouring inputs end up no further apart    *)
(* than the chain's stability function says, in the chain's output metric, *)
(* for any tables, user functions, hashes and distances, whatever is       *)
(* chained with whatever (ChainTT.stability_function).                     *)
THEOREM ChainStable ==
  ASSUME UserFunctions, PublicRows, UnwrapsRows
  PROVE  Spec /\ [][Careful]_vars => []Stable
<1>1. Init => Stable
  BY InitialStable
<1>2. TableInv /\ Stable /\ [Next]_vars /\ [Careful]_vars => Stable'
  <2>1. CASE Next /\ Careful /\ TableInv /\ Stable
    BY <2>1, StepIsStable
  <2>2. CASE UNCHANGED vars /\ Stable
    BY <2>2 DEF vars, Stable
  <2> QED BY <2>1, <2>2
<1> QED BY <1>1, <1>2, TablesStay, PTL DEF Spec

-----------------------------------------------------------------------------
(* Keys of a dictionary that differ *)

Differing(d, K) == {v \in K : KeyDiffers(d, v)}
KeysFinite(d) == IsFiniteSet(LeftKeys(d)) /\ IsFiniteSet(RightKeys(d))

HasKey(T, c, v) == \E r \in DOMAIN T : r[c] = v

LEMMA KeysOfTables ==
  ASSUME NEW d, NEW v
  PROVE  /\ v \in LeftKeys(d) <=> \E k \in DOMAIN d : HasKey(d[k].left[<<>>], KeyColumn(d[k]), v)
         /\ v \in RightKeys(d) <=> \E k \in DOMAIN d : HasKey(d[k].right[<<>>], KeyColumn(d[k]), v)
BY DEF LeftKeys, RightKeys, HasKey, BagToSet

(* A key that a table has differs, unless the other side has it too.       *)
LEMMA SameKeys ==
  ASSUME NEW e, NEW v, SameRows(e, v)
  PROVE  HasKey(e.left[<<>>], KeyColumn(e), v) <=> HasKey(e.right[<<>>], KeyColumn(e), v)
<1>1. \A r, c : Restrict(r, {c}) = Only(c, v) <=> r[c] = v
  BY DEF Restrict, Only
<1> QED BY <1>1 DEF SameRows, AgreeAt, HasKey

(* AddRemoveKeys.distance counts what differs on either side.              *)
LEMMA KeysApartCounts ==
  ASSUME NEW d, KeysFinite(d)
  PROVE  /\ IsFiniteSet(Differing(d, LeftKeys(d))) /\ IsFiniteSet(Differing(d, RightKeys(d)))
         /\ KeysApart(d) = Cardinality(Differing(d, LeftKeys(d)))
                             + Cardinality(Differing(d, RightKeys(d)))
         /\ KeysApart(d) \in Nat
<1> DEFINE L == LeftKeys(d)
           R == RightKeys(d)
           both == {v \in L \cap R : KeyDiffers(d, v)}
           X == Differing(d, L)
           Y == Differing(d, R)
<1>1. IsFiniteSet(L) /\ IsFiniteSet(R)
  BY DEF KeysFinite
<1>2. ASSUME NEW v, ~ KeyDiffers(d, v) PROVE v \in L <=> v \in R
  <2>1. \A k \in DOMAIN d : SameRows(d[k], v)
    BY <1>2, DifferingKeys
  <2> QED BY <2>1, KeysOfTables, SameKeys
<1>3. KeysApart(d) = Cardinality((L \cup R) \ (L \cap R)) + 2 * Cardinality(both)
  BY DEF KeysApart
<1>4. /\ X = (L \ R) \cup both /\ (L \ R) \cap both = {}
      /\ Y = (R \ L) \cup both /\ (R \ L) \cap both = {}
      /\ (L \cup R) \ (L \cap R) = (L \ R) \cup (R \ L) /\ (L \ R) \cap (R \ L) = {}
      /\ both \subseteq L
  BY <1>2 DEF Differing
<1> HIDE DEF L, R, X, Y, both
<1>5. /\ IsFiniteSet(L \ R) /\ IsFiniteSet(R \ L) /\ IsFiniteSet(both)
  BY <1>1, <1>4, FS_Difference, FS_Subset
<1>6. \A S, T : IsFiniteSet(S) /\ IsFiniteSet(T) /\ S \cap T = {} =>
        /\ IsFiniteSet(S \cup T) /\ Cardinality(S) \in Nat /\ Cardinality(T) \in Nat
        /\ Cardinality(S \cup T) = Cardinality(S) + Cardinality(T)
  <2> SUFFICES ASSUME NEW S, NEW T, IsFiniteSet(S), IsFiniteSet(T), S \cap T = {}
               PROVE  /\ IsFiniteSet(S \cup T) /\ Cardinality(S) \in Nat /\ Cardinality(T) \in Nat
                      /\ Cardinality(S \cup T) = Cardinality(S) + Cardinality(T)
    OBVIOUS
  <2>1. Cardinality(S) \in Nat /\ Cardinality(T) \in Nat
    BY FS_CardinalityType
  <2>2. /\ IsFiniteSet(S \cup T)
        /\ Cardinality(S \cup T) = Cardinality(S) + Cardinality(T) - Cardinality(S \cap T)
    BY FS_Union
  <2>3. Cardinality(S \cap T) = 0
    BY FS_EmptySet
  <2> QED BY <2>1, <2>2, <2>3
<1>7. /\ Cardinality(X) = Cardinality(L \ R) + Cardinality(both) /\ IsFiniteSet(X)
      /\ Cardinality(Y) = Cardinality(R \ L) + Cardinality(both) /\ IsFiniteSet(Y)
      /\ Cardinality((L \cup R) \ (L \cap R)) = Cardinality(L \ R) + Cardinality(R \ L)
      /\ Cardinality(L \ R) \in Nat /\ Cardinality(R \ L) \in Nat /\ Cardinality(both) \in Nat
  BY <1>4, <1>5, <1>6
<1> QED BY <1>3, <1>7 DEF X, Y, L, R

(* Tables made of others, without keys that differ on a side they did not. *)
LEMMA FewerKeysApart ==
  ASSUME NEW d, KeysFinite(d), NEW e, KeysFinite(e),
         Differing(d, LeftKeys(d)) \subseteq Differing(e, LeftKeys(e)),
         Differing(d, RightKeys(d)) \subseteq Differing(e, RightKeys(e))
  PROVE  Square(KeysApart(d)) <= Square(KeysApart(e)) /\ Square(KeysApart(d)) \in Nat
<1>1. KeysApart(d) <= KeysApart(e) /\ KeysApart(d) \in Nat /\ KeysApart(e) \in Nat
  <2>1. /\ Cardinality(Differing(d, LeftKeys(d))) <= Cardinality(Differing(e, LeftKeys(e)))
        /\ Cardinality(Differing(d, RightKeys(d))) <= Cardinality(Differing(e, RightKeys(e)))
    BY KeysApartCounts, FS_Subset
  <2>2. /\ Cardinality(Differing(d, LeftKeys(d))) \in Nat
        /\ Cardinality(Differing(e, LeftKeys(e))) \in Nat
        /\ Cardinality(Differing(d, RightKeys(d))) \in Nat
        /\ Cardinality(Differing(e, RightKeys(e))) \in Nat
    BY KeysApartCounts, FS_CardinalityType
  <2> QED BY <2>1, <2>2, KeysApartCounts
<1>2. \A a, b \in Nat : a <= b => a * a <= b * b /\ a * a \in Nat
  <2> SUFFICES ASSUME NEW a \in Nat, NEW b \in Nat, a <= b
               PROVE  a * a <= b * b /\ a * a \in Nat
    OBVIOUS
  <2>1. a * a <= a * b /\ a * b <= b * b
    OBVIOUS
  <2> QED BY <2>1
<1>3. \A a \in Nat : Square(a) = a * a
  BY DEF Square, Infinite
<1> QED BY <1>1, <1>2, <1>3

(* The distance of a table by its key column.                              *)
LEMMA KeyApart ==
  ASSUME NEW e, Sound(e), IsKeyMetric(e.metric), e.metric.over = "table",
         NEW k, NEW d, DOMAIN d = {k}, d[k].metric.each = e.metric.each,
         d[k].left = e.left, d[k].right = e.right
  PROVE  Apart(e.metric, e.left[<<>>], e.right[<<>>]) = Square(KeysApart(d)) /\ KeysFinite(d)
<1> DEFINE c == KeyColumn(e)
           m == e.metric
           l == e.left[<<>>]
           r == e.right[<<>>]
           o == Restrict(<<>>, {})
           h == [v \in LeftKeys(d) \cup RightKeys(d) |-> <<o, Only(c, v)>>]
<1>1. m.by = {} /\ m.each = {c} /\ m.each # {} /\ m.base = "rows" /\ m.agg # "l2"
  BY KeyMetric DEF Sound, IsMetric, SymmetricDifference, Metric, IsKeyMetric
<1>2. IsTable(l) /\ IsTable(r)
  BY DEF Sound, Legal
<1>3. KeyColumn(d[k]) = c
  BY DEF KeyColumn
<1>4. /\ \A v : v \in LeftKeys(d) <=> HasKey(l, c, v)
      /\ \A v : v \in RightKeys(d) <=> HasKey(r, c, v)
  BY <1>3, KeysOfTables
<1>5. \A v : KeyDiffers(d, v) <=> ~ AgreeAt(l, r, {c}, Only(c, v))
  BY <1>3, DifferingKeys DEF SameRows
<1>6. ASSUME NEW T, IsTable(T)
      PROVE  /\ \A j : j \in Keys(T, {c}) <=> \E v : HasKey(T, c, v) /\ j = Only(c, v)
             /\ IsFiniteSet({x[c] : x \in DOMAIN T})
  <2>1. \A x : Restrict(x, {c}) = Only(c, x[c])
    BY DEF Restrict, Only
  <2>2. IsFiniteSet({x[c] : x \in DOMAIN T})
    <3>1. Range([x \in DOMAIN T |-> x[c]]) = {x[c] : x \in DOMAIN T}
      BY DEF Range
    <3>2. IsFiniteSet(DOMAIN T)
      BY <1>6 DEF IsTable, BagToSet
    <3> QED BY <3>1, <3>2, FiniteRange
  <2> QED BY <2>1, <2>2 DEF Keys, BagToSet, HasKey
<1>7. LeftKeys(d) = {x[c] : x \in DOMAIN l} /\ RightKeys(d) = {x[c] : x \in DOMAIN r}
  BY <1>4 DEF HasKey
<1>8. KeysFinite(d)
  BY <1>2, <1>6, <1>7 DEF KeysFinite
<1>9. \A v, w : Only(c, v) = Only(c, w) => v = w
  <2>1. \A v : Only(c, v)[c] = v
    BY DEF Only
  <2> QED BY <2>1
<1> HIDE DEF c, m, l, r, o
<1>10. ASSUME NEW T, NEW U, IsTable(T), IsTable(U), NEW K, IsFiniteSet(K),
              \A v : v \in K <=> HasKey(T, c, v)  /\ ~ AgreeAt(T, U, {c}, Only(c, v))
       PROVE  IsFiniteSet(Missing(m, T, U)) /\ Cardinality(Missing(m, T, U)) = Cardinality(K)
  <2> DEFINE X == Missing(m, T, U)
             f == [v \in K |-> <<o, Only(c, v)>>]
  <2>1. /\ \A x \in X : x = <<x[1], x[2]>>
        /\ \A i, j : <<i, j>> \in X <=>
             i = o /\ j \in Keys(T, m.each) /\ ~ AgreeAt(T, U, m.each, j)
    <3>1. /\ \A x \in Missing(m, T, U) : x = <<x[1], x[2]>>
          /\ \A i, j : <<i, j>> \in Missing(m, T, U) <=>
              /\ i = Restrict(<<>>, {})
              /\ j \in Keys(T, m.each)
              /\ ~ AgreeAt(T, U, m.each, j)
      BY ONLY <1>1, <1>10, MissingAlone
    <3> QED BY <3>1 DEF o
  <2> HIDE DEF X
  <2>6. \A j : j \in Keys(T, {c}) <=> \E v : HasKey(T, c, v) /\ j = Only(c, v)
    BY <1>6, <1>10
  <2>7. m.each = {c}
    BY <1>1
  <2>2. \A i, j : <<i, j>> \in X <=> i = o /\ \E v \in K : j = Only(c, v)
    <3>1. \A j : j \in Keys(T, {c}) /\ ~ AgreeAt(T, U, {c}, j) <=> \E v \in K : j = Only(c, v)
      BY <1>10, <2>6, Zenon
    <3>2. \A i, j : <<i, j>> \in X <=> i = o /\ j \in Keys(T, {c}) /\ ~ AgreeAt(T, U, {c}, j)
      BY <2>1, <2>7, Zenon
    <3> QED BY <3>1, <3>2, Zenon
  <2>3. f \in [K -> X] /\ (\A x, y \in K : f[x] = f[y] => x = y) /\ \A x \in X : \E v \in K : f[v] = x
    BY <1>9, <2>1, <2>2
  <2>4. f \in Bijection(K, X)
    BY <2>3 DEF Bijection, Injection, IsInjective, Surjection
  <2> HIDE DEF f
  <2>5. IsFiniteSet(X) /\ Cardinality(X) = Cardinality(K)
    <3>1. IsFiniteSet(X)
      BY <1>10, <2>4, FS_Bijection DEF ExistsBijection
    <3>2. Cardinality(X) = Cardinality(K)
      BY <1>10, <2>4, FS_Bijection DEF ExistsBijection
    <3> QED BY <3>1, <3>2
  <2> QED BY <2>5 DEF X
<1>11. /\ \A v : v \in Differing(d, LeftKeys(d)) <=> HasKey(l, c, v) /\ ~ AgreeAt(l, r, {c}, Only(c, v))
       /\ \A v : v \in Differing(d, RightKeys(d)) <=> HasKey(r, c, v) /\ ~ AgreeAt(r, l, {c}, Only(c, v))
  <2>1. \A v : AgreeAt(l, r, {c}, Only(c, v)) <=> AgreeAt(r, l, {c}, Only(c, v))
    BY DEF AgreeAt
  <2> QED BY <1>4, <1>5, <2>1 DEF Differing
<1>12. /\ IsFiniteSet(Missing(m, l, r)) /\ IsFiniteSet(Missing(m, r, l))
       /\ Cardinality(Missing(m, l, r)) = Cardinality(Differing(d, LeftKeys(d)))
       /\ Cardinality(Missing(m, r, l)) = Cardinality(Differing(d, RightKeys(d)))
  <2>1. IsFiniteSet(Differing(d, LeftKeys(d))) /\ IsFiniteSet(Differing(d, RightKeys(d)))
    BY <1>8, KeysApartCounts
  <2> QED BY <1>2, <1>10, <1>11, <2>1
<1> DEFINE D == Differences(m, l, r)
<1>13. D = Sides(Missing(m, l, r), Missing(m, r, l))
  BY <1>1 DEF Differences
<1>14. IsFiniteSet(D) /\ Cardinality(D) = KeysApart(d)
  <2>1. IsFiniteSet(D) /\ Cardinality(D) = Cardinality(Missing(m, l, r)) + Cardinality(Missing(m, r, l))
    BY ONLY <1>12, <1>13, SidesCount
  <2>2. KeysApart(d) = Cardinality(Differing(d, LeftKeys(d)))
                             + Cardinality(Differing(d, RightKeys(d)))
    BY <1>8, KeysApartCounts
  <2> QED BY <1>12, <2>1, <2>2
<1> HIDE DEF D
<1>15. Apart(m, l, r) = Square(KeysApart(d))
  <2>1. Apart(m, l, r) = Cardinality(Pairs(FALSE, D))
    BY <1>1 DEF Apart, D
  <2> QED BY <1>14, <2>1, SquareCounts
<1> QED BY <1>8, <1>15 DEF m, l, r

-----------------------------------------------------------------------------
(* Steps make no new keys *)

(* What T has in the columns C, U has too.                                 *)
MadeOf(T, U, C) == \A x \in DOMAIN T : \E y \in DOMAIN U : \A c \in C : x[c] = y[c]

KeysStay ==
  IsIfGroupedBy(metric) /\ metric' = metric =>
    /\ MadeOf(left'[<<>>], left[<<>>], Columns(metric))
    /\ MadeOf(right'[<<>>], right[<<>>], Columns(metric))

LEMMA ChainedKeys ==
  ASSUME TableInv, NEW l, NEW r, NEW s, NEW m, NEW d, Chained(l, r, s, m, d),
         ASSUME IsIfGroupedBy(metric), metric' = metric,
                IsTable(left[<<>>]), IsTable(right[<<>>]),
                Legal(left[<<>>], schema), Legal(right[<<>>], schema)
         PROVE  MadeOf(l, left[<<>>], Columns(metric)) /\ MadeOf(r, right[<<>>], Columns(metric))
  PROVE  KeysStay
<1>1. left'[<<>>] = l /\ right'[<<>>] = r /\ metric.over = "table"
  BY DEF Chained, Announce, One
<1>2. Legal(left[<<>>], schema) /\ Legal(right[<<>>], schema)
  BY <1>1, InHandIsLegal
<1> QED BY <1>1, <1>2 DEF KeysStay, Legal

LEMMA FewerRowsKeys ==
  ASSUME NEW T, NEW U, DOMAIN T \subseteq DOMAIN U, NEW C
  PROVE  MadeOf(T, U, C)
BY DEF MadeOf

LEMMA MappedKeys ==
  ASSUME NEW T, IsTable(T), NEW f, DOMAIN f = Copies(T), NEW C,
         \A y \in Copies(T) : \A c \in C : f[y][c] = y[1][c]
  PROVE  MadeOf(Tally(f), T, C)
<1>1. IsFiniteSet(DOMAIN f) /\ \A y \in Copies(T) : y[1] \in DOMAIN T
  BY CopiesOfTable
<1>2. DOMAIN Tally(f) = Range(f)
  BY <1>1, TallyIsTable
<1>3. \A x \in Range(f) : \E y \in Copies(T) : x = f[y]
  BY DEF Range
<1> QED BY <1>1, <1>2, <1>3 DEF MadeOf

LEMMA FlattenedKeys ==
  ASSUME NEW T, IsTable(T), NEW B, \A r \in DOMAIN T : IsTable(B[r]), NEW C,
         \A r \in DOMAIN T : \A x \in DOMAIN B[r] : \A c \in C : x[c] = r[c]
  PROVE  MadeOf(Flattened(T, B), T, C)
<1> DEFINE f == [x \in Flat(T, B) |-> x[2][1]]
<1>1. /\ Flattened(T, B) = Tally(f) /\ IsFiniteSet(Flat(T, B))
      /\ \A x \in Flat(T, B) : /\ x[1][1] \in DOMAIN T
                               /\ x[2][1] \in DOMAIN B[x[1][1]]
  BY FlatCopies
<1>2. DOMAIN f = Flat(T, B) /\ \A x \in DOMAIN f : f[x] = x[2][1]
  OBVIOUS
<1> HIDE DEF f
<1>3. DOMAIN Tally(f) = Range(f)
  BY <1>1, <1>2, TallyIsTable
<1>4. \A x \in Range(f) : \E y \in Flat(T, B) : x = y[2][1]
  BY <1>2 DEF Range
<1> QED BY <1>1, <1>3, <1>4 DEF MadeOf

LEMMA RestrictedStepKeys ==
  ASSUME TableInv, Filter \/ \E what : DropRows(what)
  PROVE  KeysStay
<1>1. \E P, Q, s, m, d :
        /\ P \subseteq DOMAIN left[<<>>] /\ Q \subseteq DOMAIN right[<<>>]
        /\ Chained(Restrict(left[<<>>], P), Restrict(right[<<>>], Q), s, m, d)
  <2>1. CASE Filter
    <3>1. PICK c \in DOMAIN schema, v \in Cells :
            Chained(Restrict(left[<<>>], {r \in DOMAIN left[<<>>] : r[c] = v}),
                    Restrict(right[<<>>], {r \in DOMAIN right[<<>>] : r[c] = v}),
                    schema, metric, bound)
      BY <2>1 DEF Filter, Chain, ChainParts, Where, RestrictDomain, Chained
    <3>2. /\ {r \in DOMAIN left[<<>>] : r[c] = v} \subseteq DOMAIN left[<<>>]
          /\ {r \in DOMAIN right[<<>>] : r[c] = v} \subseteq DOMAIN right[<<>>]
      OBVIOUS
    <3> QED BY <3>1, <3>2
  <2>2. ASSUME NEW what, DropRows(what)
        PROVE  \E P, Q, s, m, d :
                 /\ P \subseteq DOMAIN left[<<>>] /\ Q \subseteq DOMAIN right[<<>>]
                 /\ Chained(Restrict(left[<<>>], P), Restrict(right[<<>>], Q), s, m, d)
    <3>1. PICK C \in SUBSET DOMAIN schema :
            Chained(Restrict(left[<<>>], {r \in DOMAIN left[<<>>] : \A c \in C : r[c] \notin what}),
                    Restrict(right[<<>>], {r \in DOMAIN right[<<>>] : \A c \in C : r[c] \notin what}),
                    Without(what, C), metric, bound)
      BY <2>2 DEF DropRows, Chain, ChainParts, Where, RestrictDomain, Chained
    <3>2. /\ {r \in DOMAIN left[<<>>] : \A c \in C : r[c] \notin what} \subseteq DOMAIN left[<<>>]
          /\ {r \in DOMAIN right[<<>>] : \A c \in C : r[c] \notin what} \subseteq DOMAIN right[<<>>]
      OBVIOUS
    <3> QED BY <3>1, <3>2
  <2> QED BY <2>1, <2>2
<1>2. PICK P, Q, s, m, d :
        /\ P \subseteq DOMAIN left[<<>>] /\ Q \subseteq DOMAIN right[<<>>]
        /\ Chained(Restrict(left[<<>>], P), Restrict(right[<<>>], Q), s, m, d)
  BY <1>1
<1>3. /\ DOMAIN Restrict(left[<<>>], P) \subseteq DOMAIN left[<<>>]
      /\ DOMAIN Restrict(right[<<>>], Q) \subseteq DOMAIN right[<<>>]
  BY <1>2 DEF Restrict
<1> QED BY <1>2, <1>3, FewerRowsKeys, ChainedKeys

LEMMA SelectKeys ==
  ASSUME TableInv, Select
  PROVE  KeysStay
<1>1. PICK C \in SUBSET DOMAIN schema :
        /\ IsIfGroupedBy(metric) => Columns(metric) \subseteq C
        /\ Chained(Tally([x \in Copies(left[<<>>]) |-> Restrict(x[1], C)]),
                   Tally([x \in Copies(right[<<>>]) |-> Restrict(x[1], C)]),
                   Restrict(schema, C), metric, bound)
  BY DEF Select, Chain, ChainParts, Mapped, Chained
<1>2. ASSUME NEW T, IsTable(T), NEW D \in SUBSET C
      PROVE  MadeOf(Tally([x \in Copies(T) |-> Restrict(x[1], C)]), T, D)
  <2> DEFINE f == [x \in Copies(T) |-> Restrict(x[1], C)]
  <2>1. DOMAIN f = Copies(T) /\ \A y \in Copies(T) : \A c \in D : f[y][c] = y[1][c]
    BY DEF Restrict
  <2> HIDE DEF f
  <2>2. MadeOf(Tally(f), T, D)
    BY <1>2, <2>1, MappedKeys
  <2> QED BY <2>2 DEF f
<1>3. IsIfGroupedBy(metric) => Columns(metric) \in SUBSET C
  BY <1>1
<1> QED BY <1>1, <1>2, <1>3, ChainedKeys

LEMMA MapKeys ==
  ASSUME UserFunctions, TableInv, Map
  PROVE  KeysStay
<1>1. PICK t \in RowTransformers :
        /\ t.single
        /\ IsIfGroupedBy(metric) => t.augment
        /\ Chained(Tally([x \in Copies(left[<<>>]) |-> OutputRows(t, x[1], 1)[1]]),
                   Tally([x \in Copies(right[<<>>]) |-> OutputRows(t, x[1], 1)[1]]),
                   OutputSchema(t), metric, bound)
  BY DEF Map, Chain, ChainParts, Mapped, Chained
<1>2. ASSUME t.augment, NEW C \in SUBSET DOMAIN schema, NEW T, Legal(T, schema)
      PROVE  MadeOf(Tally([x \in Copies(T) |-> OutputRows(t, x[1], 1)[1]]), T, C)
  <2> DEFINE f == [x \in Copies(T) |-> OutputRows(t, x[1], 1)[1]]
  <2>1. ASSUME NEW r, ValidRow(r, schema), NEW c \in C
        PROVE  OutputRows(t, r, 1)[1][c] = r[c]
    <3>1. 1 \in DOMAIN OutputRows(t, r, 1)
      BY <1>1, <2>1, OutputIsValid
    <3>2. OutputRows(t, r, 1)[1] = OutputRow(t, r, RowsOf(t, r)[1])
      BY <3>1 DEF OutputRows
    <3>3. OutputRow(t, r, RowsOf(t, r)[1]) = Extended(r, RowsOf(t, r)[1])
      BY <1>2 DEF OutputRow
    <3>4. c \in DOMAIN r
      BY <2>1 DEF ValidRow
    <3> QED BY <3>2, <3>3, <3>4 DEF Extended
  <2>2. DOMAIN f = Copies(T) /\ \A y \in Copies(T) : f[y] = OutputRows(t, y[1], 1)[1]
    OBVIOUS
  <2>3. IsTable(T) /\ \A y \in Copies(T) : ValidRow(y[1], schema)
    BY <1>2, CopyIsValid DEF Legal
  <2> HIDE DEF f
  <2>4. MadeOf(Tally(f), T, C)
    BY <2>1, <2>2, <2>3, MappedKeys
  <2> QED BY <2>4 DEF f
<1> QED BY <1>1, <1>2, ColumnsOfGroups, ChainedKeys

LEMMA FlatMapKeys ==
  ASSUME UserFunctions, TableInv, FlatMap
  PROVE  KeysStay
<1> DEFINE B(T, t, max) == [r \in DOMAIN T |-> Tally(OutputRows(t, r, max))]
<1>1. PICK t \in RowTransformers, max \in Thresholds \cup {Infinite} :
        /\ metric = SymmetricDifference \/ t.augment
        /\ Chained(Flattened(left[<<>>], B(left[<<>>], t, max)),
                   Flattened(right[<<>>], B(right[<<>>], t, max)),
                   OutputSchema(t), metric, FlatMapBound(max))
  BY DEF FlatMap, Chain, ChainParts, FlatMapped, BagToSet, Chained
<1>2. IsIfGroupedBy(metric) => t.augment
  BY <1>1 DEF IsIfGroupedBy, SymmetricDifference, Metric
<1>3. max \in Nat \cup {Infinite}
  BY BoundsAssumption
<1>4. ASSUME t.augment, NEW C \in SUBSET DOMAIN schema, NEW T, Legal(T, schema)
      PROVE  MadeOf(Flattened(T, B(T, t, max)), T, C)
  <2>1. ASSUME NEW r, ValidRow(r, schema)
        PROVE  /\ IsTable(Tally(OutputRows(t, r, max)))
               /\ \A x \in DOMAIN Tally(OutputRows(t, r, max)) : \A c \in C : x[c] = r[c]
    <3>1. IsFiniteSet(DOMAIN OutputRows(t, r, max))
      BY <1>3, <2>1, OutputIsValid
    <3>2. \A i \in DOMAIN OutputRows(t, r, max) :
            OutputRows(t, r, max)[i] = Extended(r, RowsOf(t, r)[i])
      BY <1>4 DEF OutputRows, OutputRow
    <3>3. \A q : \A c \in C : Extended(r, q)[c] = r[c]
      BY <2>1 DEF ValidRow, Extended
    <3>4. \A x \in Range(OutputRows(t, r, max)) : \A c \in C : x[c] = r[c]
      BY <3>2, <3>3 DEF Range
    <3> QED BY <3>1, <3>4, TallyIsTable
  <2> DEFINE F == B(T, t, max)
  <2>2. \A r \in DOMAIN T : F[r] = Tally(OutputRows(t, r, max))
    OBVIOUS
  <2>3. IsTable(T) /\ \A r \in DOMAIN T : ValidRow(r, schema)
    BY <1>4, LegalRow DEF Legal
  <2> HIDE DEF B, F
  <2>4. \A r \in DOMAIN T : IsTable(F[r]) /\ \A x \in DOMAIN F[r] : \A c \in C : x[c] = r[c]
    BY <2>1, <2>2, <2>3
  <2>5. MadeOf(Flattened(T, F), T, C)
    BY <2>3, <2>4, FlattenedKeys
  <2> QED BY <2>5 DEF F
<1> HIDE DEF B
<1> QED BY <1>1, <1>2, <1>4, ColumnsOfGroups, ChainedKeys

LEMMA FlatMapByKeyKeys ==
  ASSUME UserFunctions, TableInv, FlatMapByKey
  PROVE  KeysStay
<1>1. PICK key \in DOMAIN schema, t \in GroupTransformers :
        /\ metric = IfGroupedBy({key})
        /\ Chained(Flattened(SetToBag(Keys(left[<<>>], {key})), MadeOfKeys(left[<<>>], t, key)),
                   Flattened(SetToBag(Keys(right[<<>>], {key})), MadeOfKeys(right[<<>>], t, key)),
                   Extended(Restrict(schema, {key}), t.columns), metric, bound)
  BY DEF FlatMapByKey, Chain, ChainParts, FlatMapped, BagToSet, Mapped, Chained, Group,
         Where, RestrictDomain, MadeOfKeys, MadeOfKey, OfKey
<1>2. Columns(metric) = {key}
  BY <1>1 DEF Columns, IfGroupedBy, Metric
<1>3. ASSUME NEW T, IsTable(T)
      PROVE  MadeOf(Flattened(SetToBag(Keys(T, {key})), MadeOfKeys(T, t, key)), T, {key})
  <2> DEFINE K == SetToBag(Keys(T, {key}))
             F == MadeOfKeys(T, t, key)
  <2>1. TableOfEach(T, t, key)
    BY <1>3, MadeOfKeysIsTable
  <2>2. /\ IsTable(K) /\ DOMAIN K = Keys(T, {key})
        /\ \A k \in DOMAIN K : /\ IsTable(F[k]) /\ Restrict(k, {key}) = k
                               /\ \A x \in DOMAIN F[k] : Restrict(x, {key}) = k
    BY <2>1, Zenon DEF TableOfEach
  <2> HIDE DEF K, F
  <2>3. \A x, y : Restrict(x, {key}) = Restrict(y, {key}) => x[key] = y[key]
    <3>1. \A x : Restrict(x, {key})[key] = x[key]
      BY DEF Restrict
    <3> QED BY <3>1
  <2>4. \A k \in DOMAIN K : \A x \in DOMAIN F[k] : \A c \in {key} : x[c] = k[c]
    BY <2>2, <2>3
  <2>5. MadeOf(Flattened(K, F), K, {key})
    BY <2>2, <2>4, FlattenedKeys
  <2>6. ASSUME NEW k \in DOMAIN K PROVE \E y \in DOMAIN T : \A c \in {key} : k[c] = y[c]
    <3>1. PICK y \in DOMAIN T : k = Restrict(y, {key})
      BY <2>2 DEF Keys, BagToSet
    <3>2. k[key] = y[key]
      BY <2>2, <2>3, <3>1
    <3> QED BY <3>2
  <2>7. MadeOf(Flattened(K, F), T, {key})
    BY <2>5, <2>6 DEF MadeOf
  <2> QED BY <2>7 DEF K, F
<1> QED BY <1>1, <1>2, <1>3, ChainedKeys

LEMMA ReplaceCellsKeys ==
  ASSUME TableInv, NEW what, NEW c \in DOMAIN schema, NEW with, ReplaceCells(what, c, with),
         IsIfGroupedBy(metric) => c \notin Columns(metric)
  PROVE  KeysStay
<1>1. Chained(Tally([x \in Copies(left[<<>>]) |-> Replaced(x[1], what, c, with)]),
              Tally([x \in Copies(right[<<>>]) |-> Replaced(x[1], what, c, with)]),
              Without(what, {c}), metric, bound)
  BY DEF ReplaceCells, Chain, ChainParts, Mapped, Chained, Replaced
<1>2. ASSUME NEW C \in SUBSET DOMAIN schema, c \notin C, NEW T, Legal(T, schema)
      PROVE  MadeOf(Tally([x \in Copies(T) |-> Replaced(x[1], what, c, with)]), T, C)
  <2> DEFINE f == [x \in Copies(T) |-> Replaced(x[1], what, c, with)]
  <2>1. ASSUME NEW r, ValidRow(r, schema)
        PROVE  \A e \in C : Replaced(r, what, c, with)[e] = r[e]
    <3>1. C \in SUBSET DOMAIN r
      BY <2>1 DEF ValidRow
    <3> QED BY <1>2, <3>1 DEF Replaced
  <2>2. DOMAIN f = Copies(T) /\ \A y \in Copies(T) : f[y] = Replaced(y[1], what, c, with)
    OBVIOUS
  <2>3. IsTable(T) /\ \A y \in Copies(T) : ValidRow(y[1], schema)
    BY <1>2, CopyIsValid DEF Legal
  <2> HIDE DEF f
  <2>4. MadeOf(Tally(f), T, C)
    BY <2>1, <2>2, <2>3, MappedKeys
  <2> QED BY <2>4 DEF f
<1> QED BY <1>1, <1>2, ColumnsOfGroups, ChainedKeys

LEMMA TruncatingKeys ==
  ASSUME TableInv, LimitRowsPerGroup \/ LimitRowsPerKeyPerGroup \/ LimitKeys
  PROVE  KeysStay
<1>1. CASE LimitRowsPerGroup \/ LimitRowsPerKeyPerGroup
  <2>1. \E C, n, rank, m, d :
          Chained(TruncateLargeGroups(left[<<>>], C, n, rank),
                  TruncateLargeGroups(right[<<>>], C, n, rank), schema, m, d)
    <3>1. CASE LimitRowsPerGroup
      BY <3>1, Zenon DEF LimitRowsPerGroup, Chain, ChainParts, Chained
    <3>2. CASE LimitRowsPerKeyPerGroup
      BY <3>2, Zenon DEF LimitRowsPerKeyPerGroup, Chain, ChainParts, Chained
    <3> QED BY <1>1, <3>1, <3>2
  <2>2. PICK C, n, rank, m, d :
          Chained(TruncateLargeGroups(left[<<>>], C, n, rank),
                  TruncateLargeGroups(right[<<>>], C, n, rank), schema, m, d)
    BY <2>1
  <2> QED BY <2>2, TruncatedRows, FewerRowsKeys, ChainedKeys
<1>2. CASE LimitKeys
  <2>1. \E C, K, n, rank, m, d :
          Chained(LimitKeysPerGroup(left[<<>>], C, K, n, rank),
                  LimitKeysPerGroup(right[<<>>], C, K, n, rank), schema, m, d)
    BY <1>2, Zenon DEF LimitKeys, Chain, ChainParts, Chained
  <2>2. PICK C, K, n, rank, m, d :
          Chained(LimitKeysPerGroup(left[<<>>], C, K, n, rank),
                  LimitKeysPerGroup(right[<<>>], C, K, n, rank), schema, m, d)
    BY <2>1
  <2> QED BY <2>2, LimitedRows, FewerRowsKeys, ChainedKeys
<1> QED BY <1>1, <1>2

LEMMA JoinedKeys ==
  ASSUME NEW ls, NEW rs, NEW on, Joinable(ls, rs, on), NEW how, NEW nulls \in BOOLEAN,
         NEW L, Legal(L, ls), NEW R, Legal(R, rs),
         NEW C \in SUBSET DOMAIN ls, \A c \in C : c \in on \/ c \notin DOMAIN rs
  PROVE  MadeOf(Join(L, R, DOMAIN ls, DOMAIN rs, on, how, nulls), L, C)
<1> DEFINE B == [a \in DOMAIN L |-> JoinedRows(R, a, DOMAIN ls, DOMAIN rs, on, how, nulls)]
<1>1. Join(L, R, DOMAIN ls, DOMAIN rs, on, how, nulls) = Flattened(L, B)
  BY JoinIsFlattened
<1>2. \A a \in DOMAIN L : B[a] = JoinedRows(R, a, DOMAIN ls, DOMAIN rs, on, how, nulls)
  OBVIOUS
<1>3. ASSUME NEW a \in DOMAIN L
      PROVE  /\ IsTable(JoinedRows(R, a, DOMAIN ls, DOMAIN rs, on, how, nulls))
             /\ \A x \in DOMAIN JoinedRows(R, a, DOMAIN ls, DOMAIN rs, on, how, nulls) :
                  \A c \in C : x[c] = a[c]
  <2>1. ValidRow(a, ls)
    BY LegalRow
  <2>2. IsTable(JoinedRows(R, a, DOMAIN ls, DOMAIN rs, on, how, nulls))
    BY <2>1, JoinedRowsAreLegal DEF Legal
  <2> QED BY <2>2, JoinedRowsKeep
<1>4. IsTable(L)
  BY DEF Legal
<1> HIDE DEF B
<1> QED BY <1>1, <1>2, <1>3, <1>4, FlattenedKeys

LEMMA PublicJoinKeys ==
  ASSUME TableInv, NEW how, PublicJoinAs(how)
  PROVE  KeysStay
<1> DEFINE J(T, p, on, nulls) ==
             Join(T, p.rows, DOMAIN schema, DOMAIN p.schema, on, how, nulls)
<1>1. PICK p \in PublicTables, nulls \in BOOLEAN :
        \E on \in SUBSET (DOMAIN schema \cap DOMAIN p.schema) :
          /\ ValidateJoin(schema, p.schema, on)
          /\ CanJoin(DOMAIN schema, DOMAIN p.schema, on)
          /\ IsIfGroupedBy(metric) => Columns(metric) \cap (DOMAIN p.schema \ on) = {}
          /\ \E s, m, d : Chained(J(left[<<>>], p, on, nulls), J(right[<<>>], p, on, nulls), s, m, d)
  BY DEF PublicJoinAs, Chain, ChainParts, Chained
<1>2. PICK on \in SUBSET (DOMAIN schema \cap DOMAIN p.schema) :
        /\ ValidateJoin(schema, p.schema, on)
        /\ CanJoin(DOMAIN schema, DOMAIN p.schema, on)
        /\ IsIfGroupedBy(metric) => Columns(metric) \cap (DOMAIN p.schema \ on) = {}
        /\ \E s, m, d : Chained(J(left[<<>>], p, on, nulls), J(right[<<>>], p, on, nulls), s, m, d)
  BY <1>1
<1>3. Joinable(schema, p.schema, on) /\ Legal(p.rows, p.schema)
  BY <1>2, PublicTablesAssumption DEF Joinable, Legal, TableInv
<1>4. ASSUME NEW C \in SUBSET DOMAIN schema, C \cap (DOMAIN p.schema \ on) = {},
             NEW T, Legal(T, schema)
      PROVE  MadeOf(J(T, p, on, nulls), T, C)
  <2>1. \A c \in C : c \in on \/ c \notin DOMAIN p.schema
    BY <1>4
  <2> QED BY <1>3, <1>4, <2>1, JoinedKeys
<1> HIDE DEF J
<1> QED BY <1>2, <1>4, ColumnsOfGroups, ChainedKeys

LEMMA RenamedKeys ==
  ASSUME TableInv, Rename, IsKeyMetric(metric), metric.over = "table", NEW v
  PROVE  /\ HasKey(left'[<<>>], KeyColumn(InHand'), v) => HasKey(left[<<>>], KeyColumn(InHand), v)
         /\ HasKey(right'[<<>>], KeyColumn(InHand'), v) => HasKey(right[<<>>], KeyColumn(InHand), v)
<1>1. PICK old \in DOMAIN schema, new \in NewColumns \ DOMAIN schema :
        LET name == [c \in DOMAIN schema |-> IF c = old THEN new ELSE c]
        IN Chained(Tally([x \in Copies(left[<<>>]) |-> Renaming(x[1], name)]),
                   Tally([x \in Copies(right[<<>>]) |-> Renaming(x[1], name)]),
                   Renaming(schema, name), RenamedMetric(metric, name), bound)
  BY DEF Rename, Chain, ChainParts, Mapped, Chained
<1> DEFINE name == [c \in DOMAIN schema |-> IF c = old THEN new ELSE c]
           of(T) == Tally([x \in Copies(T) |-> Renaming(x[1], name)])
           c == KeyColumn(InHand)
<1>2. Chained(of(left[<<>>]), of(right[<<>>]), Renaming(schema, name),
              RenamedMetric(metric, name), bound)
  BY <1>1
<1>3. InHand.metric = metric /\ InHand'.metric = metric'
  BY EntryFields DEF InHand
<1>4. metric.by = {} /\ metric.each = {c}
  <2> HIDE DEF c
  <2> QED BY <1>3, InHandIsSound, KeyMetric DEF c
<1>5. metric'.each = {name[c]}
  <2>1. metric' = RenamedMetric(metric, name)
    BY <1>2 DEF Chained, Announce
  <2>2. {"by", "each", "over"} \subseteq DOMAIN metric
    BY DEF TableInv, IsMetric, SymmetricDifference, Metric
  <2> HIDE DEF name, c
  <2>3. RenamedMetric(metric, name).each = {name[x] : x \in metric.each}
    BY <2>2 DEF RenamedMetric
  <2> QED BY <1>4, <2>1, <2>3
<1>6. KeyColumn(InHand') = name[c]
  BY <1>3, <1>5 DEF KeyColumn
<1>7. c \in DOMAIN schema
  <2> HIDE DEF c
  <2> QED BY <1>4 DEF TableInv, TypeOK, SupportsDomain
<1>8. \A x, y \in DOMAIN schema : name[x] = name[y] => x = y
  OBVIOUS
<1>9. ASSUME NEW T, Legal(T, schema), HasKey(of(T), name[c], v)
      PROVE  HasKey(T, c, v)
  <2> DEFINE f == [x \in Copies(T) |-> Renaming(x[1], name)]
  <2>1. DOMAIN f = Copies(T) /\ \A y \in Copies(T) : f[y] = Renaming(y[1], name)
    OBVIOUS
  <2>2. IsTable(T) /\ \A y \in Copies(T) : ValidRow(y[1], schema)
    BY <1>9, CopyIsValid DEF Legal
  <2>3. IsFiniteSet(Copies(T)) /\ \A y \in Copies(T) : y[1] \in DOMAIN T
    BY <2>2, CopiesOfTable
  <2>4. HasKey(Tally(f), name[c], v)
    BY <1>9
  <2> HIDE DEF f, name, c
  <2>5. DOMAIN Tally(f) = Range(f)
    BY <2>1, <2>3, TallyIsTable
  <2>6. PICK y \in Copies(T) : Renaming(y[1], name)[name[c]] = v
    BY <2>1, <2>4, <2>5 DEF HasKey, Range
  <2>7. ValidRow(y[1], schema) /\ DOMAIN y[1] = DOMAIN schema
    BY <2>2 DEF ValidRow
  <2> DEFINE e == CHOOSE x \in DOMAIN y[1] : name[x] = name[c]
  <2>8. e \in DOMAIN schema /\ name[e] = name[c]
    BY <1>7, <2>7
  <2>9. Renaming(y[1], name)[name[c]] = y[1][e]
    BY <1>7, <2>7 DEF Renaming
  <2> HIDE DEF e
  <2>10. e = c
    BY <1>7, <1>8, <2>8
  <2> QED BY <2>3, <2>6, <2>9, <2>10 DEF HasKey
<1>10. Legal(left[<<>>], schema) /\ Legal(right[<<>>], schema)
  BY InHandIsLegal
<1>11. left'[<<>>] = of(left[<<>>]) /\ right'[<<>>] = of(right[<<>>])
  BY <1>2 DEF Chained, One
<1> HIDE DEF name, of, c
<1>12. /\ HasKey(left'[<<>>], name[c], v) => HasKey(left[<<>>], c, v)
       /\ HasKey(right'[<<>>], name[c], v) => HasKey(right[<<>>], c, v)
  BY <1>9, <1>10, <1>11
<1> QED BY <1>6, <1>12 DEF c

LEMMA ValueStepKeys ==
  ASSUME UserFunctions, TableInv, ValueStep, ~ RenameValue
  PROVE  KeysStay
<1>1. CASE DropInfsValue \/ DropNaNsValue \/ DropNullsValue \/ FilterValue
  BY <1>1, RestrictedStepKeys
  DEF DropInfsValue, DropNaNsValue, DropNullsValue, FilterValue, DropInfs, DropNaNs, DropNulls
<1>2. CASE ReplaceInfsValue \/ ReplaceNaNsValue
  <2>0. ReplaceInfs \/ ReplaceNaNs
    BY <1>2 DEF ReplaceInfsValue, ReplaceNaNsValue
  <2>1. PICK c \in DOMAIN schema : \E what : \E with :
          what # {Null} /\ ReplaceCells(what, c, with)
    BY <2>0 DEF ReplaceInfs, ReplaceNaNs, Infs, NaN, Null
  <2>2. schema[c].kind = "float"
    BY <2>1 DEF ReplaceCells, HasSpecial
  <2>3. IsIfGroupedBy(metric) => c \notin Columns(metric)
    BY <2>2, ColumnsOfGroups
  <2> QED BY <2>1, <2>3, ReplaceCellsKeys
<1>3. CASE ReplaceNullsValue
  <2>1. PICK c \in DOMAIN schema : /\ IsIfGroupedBy(metric) => c \notin Columns(metric)
                                   /\ \E with : ReplaceCells({Null}, c, with)
    BY <1>3 DEF ReplaceNullsValue, ReplaceNulls
  <2> QED BY <2>1, ReplaceCellsKeys
<1>4. CASE SelectValue \/ MapValue \/ FlatMapValue \/ FlatMapByKeyValue
  BY <1>4, SelectKeys, MapKeys, FlatMapKeys, FlatMapByKeyKeys
  DEF SelectValue, MapValue, FlatMapValue, FlatMapByKeyValue
<1>5. CASE LimitRowsPerGroupValue \/ LimitKeysPerGroupValue \/ LimitRowsPerKeyPerGroupValue
  BY <1>5, TruncatingKeys
  DEF LimitRowsPerGroupValue, LimitKeysPerGroupValue, LimitRowsPerKeyPerGroupValue
<1>6. CASE PublicJoinValue
  BY <1>6, PublicJoinKeys DEF PublicJoinValue
<1>7. CASE PersistValue
  <2>1. Chained(left[<<>>], right[<<>>], schema, metric, bound)
    BY <1>7 DEF PersistValue, Identity, Chain, ChainParts, Same, Chained
  <2> QED BY <2>1, FewerRowsKeys, ChainedKeys
<1> QED BY <1>1, <1>2, <1>3, <1>4, <1>5, <1>6, <1>7 DEF ValueStep

(* A transformation of one value makes no new keys.                        *)
LEMMA NoNewKeys ==
  ASSUME UserFunctions, TableInv, ValueStep, metric.over = "table", NEW v
  PROVE  /\ HasKey(left'[<<>>], KeyColumn(InHand'), v) => HasKey(left[<<>>], KeyColumn(InHand), v)
         /\ HasKey(right'[<<>>], KeyColumn(InHand'), v) => HasKey(right[<<>>], KeyColumn(InHand), v)
<1>1. CASE RenameValue
  BY <1>1, ValueStepIsStep, RenamedKeys DEF RenameValue
<1>2. CASE ~ RenameValue
  <2>1. metric' = metric
    BY <1>2, ValueStepMetric
  <2>2. InHand.metric = metric /\ InHand'.metric = metric'
    BY EntryFields DEF InHand
  <2>3. metric.by = {} /\ metric.each = {KeyColumn(InHand)}
    BY <2>2, ValueStepIsStep, InHandIsSound, KeyMetric
  <2>4. IsIfGroupedBy(metric) /\ Columns(metric) = {KeyColumn(InHand)}
    BY <2>3 DEF IsIfGroupedBy, Columns
  <2>5. KeyColumn(InHand') = KeyColumn(InHand)
    BY <2>1, <2>2 DEF KeyColumn
  <2>6. KeysStay
    BY <1>2, ValueStepKeys
  <2> HIDE DEF InHand
  <2>7. /\ MadeOf(left'[<<>>], left[<<>>], {KeyColumn(InHand)})
        /\ MadeOf(right'[<<>>], right[<<>>], {KeyColumn(InHand)})
    BY <2>1, <2>4, <2>6 DEF KeysStay
  <2> QED BY <2>5, <2>7 DEF HasKey, MadeOf
<1> QED BY <1>1, <1>2

-----------------------------------------------------------------------------
(* How far truncated tables are apart *)

LEMMA UnlikeThrough ==
  ASSUME NEW A, IsFiniteSet(A), NEW B, IsFiniteSet(B), NEW C, IsFiniteSet(C)
  PROVE  Cardinality(Unlike(A, C)) <= Cardinality(Unlike(A, B)) + Cardinality(Unlike(B, C))
<1> DEFINE X == Unlike(A, B)
           Y == Unlike(B, C)
           Z == Unlike(A, C)
<1>1. Z \subseteq X \cup Y
  BY DEF Unlike
<1>2. /\ IsFiniteSet(X) /\ IsFiniteSet(Y) /\ IsFiniteSet(Z)
      /\ Cardinality(X) \in Nat /\ Cardinality(Y) \in Nat /\ Cardinality(Z) \in Nat
  BY UnlikeCounts
<1> HIDE DEF X, Y, Z
<1>3. /\ IsFiniteSet(X \cup Y)
      /\ Cardinality(X \cup Y) = Cardinality(X) + Cardinality(Y) - Cardinality(X \cap Y)
  BY <1>2, FS_Union
<1>4. Cardinality(X \cap Y) \in Nat
  BY <1>2, FS_Intersection, FS_CardinalityType
<1>5. Cardinality(Z) <= Cardinality(X \cup Y)
  BY <1>1, <1>3, FS_Subset
<1> QED BY <1>2, <1>3, <1>4, <1>5 DEF X, Y, Z

(* Any number of copies more change at most two each.                      *)
LEMMA KeptOfMore ==
  ASSUME NEW W, IsFiniteSet(W), NEW D, IsFiniteSet(D), W \cap D = {}, NEW group, NEW n \in Nat,
         NEW rank, \A x \in W \cup D : rank[x] \in Int,
         \A x, y \in W \cup D : rank[x] = rank[y] => x = y
  PROVE  Cardinality(Unlike(Kept(W, group, n, rank), Kept(W \cup D, group, n, rank)))
           <= 2 * Cardinality(D)
<1> DEFINE K(X) == Kept(W \cup X, group, n, rank)
           P == {X \in SUBSET D : Cardinality(Unlike(K({}), K(X))) <= 2 * Cardinality(X)}
<1>1. \A X \in SUBSET D : /\ IsFiniteSet(X) /\ Cardinality(X) \in Nat /\ IsFiniteSet(K(X))
  <2> TAKE X \in SUBSET D
  <2>1. IsFiniteSet(X) /\ Cardinality(X) \in Nat
    BY FS_Subset, FS_CardinalityType
  <2>2. IsFiniteSet(W \cup X)
    BY <2>1, FS_Union
  <2>3. K(X) \in SUBSET (W \cup X)
    BY DEF Kept
  <2> QED BY <2>1, <2>2, <2>3, FS_Subset
<1>2. {} \in P
  <2> HIDE DEF K
  <2>1. Unlike(K({}), K({})) = {}
    BY DEF Unlike
  <2>2. Cardinality(Unlike(K({}), K({}))) = 0 /\ Cardinality({}) = 0
    BY <2>1, FS_EmptySet
  <2> QED BY <2>2
<1>3. ASSUME NEW s \in SUBSET D, s # {}, s \ {FoldedFirst(s)} \in P
      PROVE  s \in P
  <2> DEFINE e == FoldedFirst(s)
             r == s \ {e}
             S == W \cup r
  <2>1. e \in s
    BY <1>3 DEF FoldedFirst
  <2>2. r \in SUBSET D /\ Cardinality(Unlike(K({}), K(r))) <= 2 * Cardinality(r)
    BY <1>3
  <2> HIDE DEF e
  <2>3. /\ IsFiniteSet(S) /\ e \notin S /\ S \cup {e} = W \cup s /\ S \cup {e} \subseteq W \cup D
    <3>1. IsFiniteSet(r)
      BY <1>1, <2>2
    <3>2. IsFiniteSet(S)
      BY <3>1, FS_Union
    <3> QED BY <2>1, <3>2
  <2>4. s = r \cup {e} /\ e \notin r
    BY <2>1
  <2> HIDE DEF S, r
  <2> DEFINE before == Kept(S, group, n, rank)
             after == Kept(S \cup {e}, group, n, rank)
  <2>5. /\ after \ before \subseteq {e}
        /\ \A x, y \in before \ after : x = y
    BY <2>3, TruncationIsStable
  <2>6. before = K(r) /\ after = K(s)
    BY <2>3 DEF S
  <2> HIDE DEF before, after, K
  <2>7. Cardinality(Unlike(before, after)) <= 2
    <3>1. IsFiniteSet(before) /\ IsFiniteSet(after)
      BY <1>1, <2>2, <2>6
    <3>2. \A X : (\A x, y \in X : x = y) => Cardinality(X) <= 1
      <4> SUFFICES ASSUME NEW X, \A x, y \in X : x = y PROVE Cardinality(X) <= 1
        OBVIOUS
      <4>1. CASE X = {}
        BY <4>1, FS_EmptySet
      <4>2. CASE X # {}
        <5>0. PICK x \in X : TRUE
          BY <4>2
        <5>1. X = {x}
          BY <5>0
        <5> QED BY <5>1, FS_Singleton
      <4> QED BY <4>1, <4>2
    <3>3. Cardinality(before \ after) <= 1
      BY <2>5, <3>2
    <3>4. Cardinality(after \ before) <= 1
      <4>1. \A x, y \in after \ before : x = y
        BY <2>5
      <4> QED BY <3>2, <4>1
    <3>5. /\ Cardinality(before \ after) \in Nat /\ Cardinality(after \ before) \in Nat
          /\ Cardinality(Unlike(before, after))
               = Cardinality(before \ after) + Cardinality(after \ before)
      BY <3>1, UnlikeCounts
    <3> QED BY <3>3, <3>4, <3>5
  <2>8. Cardinality(Unlike(K({}), K(s))) <= Cardinality(Unlike(K({}), K(r))) + Cardinality(Unlike(K(r), K(s)))
    BY <1>1, <2>2, UnlikeThrough
  <2>9. Cardinality(s) = Cardinality(r) + 1 /\ Cardinality(r) \in Nat
    BY <1>1, <2>2, <2>4, FS_AddElement
  <2>10. /\ Cardinality(Unlike(K({}), K(s))) \in Nat /\ Cardinality(Unlike(K({}), K(r))) \in Nat
         /\ Cardinality(Unlike(K(r), K(s))) \in Nat
    BY <1>1, <2>2, UnlikeCounts
  <2> QED BY <2>2, <2>6, <2>7, <2>8, <2>9, <2>10
<1>4. SUBSET D \subseteq P
  <2> HIDE DEF P
  <2> QED BY <1>2, <1>3, FoldInduction
<1>5. W = W \cup {} /\ D \in P
  BY <1>4
<1> QED BY <1>5

(* Truncation changes two copies for each that differs.                    *)
LEMMA KeptApart ==
  ASSUME NEW S, IsFiniteSet(S), NEW T, IsFiniteSet(T), NEW group, NEW n \in Nat,
         NEW rank, \A x \in S \cup T : rank[x] \in Int,
         \A x, y \in S \cup T : rank[x] = rank[y] => x = y
  PROVE  Cardinality(Unlike(Kept(S, group, n, rank), Kept(T, group, n, rank)))
           <= 2 * Cardinality(Unlike(S, T))
<1> DEFINE W == S \cap T
           A == S \ T
           B == T \ S
           K(X) == Kept(X, group, n, rank)
<1>1. /\ IsFiniteSet(W) /\ IsFiniteSet(A) /\ IsFiniteSet(B)
      /\ S = W \cup A /\ T = W \cup B /\ W \cap A = {} /\ W \cap B = {}
  BY FS_Intersection, FS_Difference
<1>2. /\ Cardinality(A) \in Nat /\ Cardinality(B) \in Nat
      /\ Cardinality(Unlike(S, T)) = Cardinality(A) + Cardinality(B)
  BY UnlikeCounts
<1>3. IsFiniteSet(K(S)) /\ IsFiniteSet(K(T)) /\ IsFiniteSet(K(W))
  <2>1. K(S) \in SUBSET S /\ K(T) \in SUBSET T /\ K(W) \in SUBSET W
    BY DEF Kept
  <2> HIDE DEF K
  <2> QED BY <1>1, <2>1, FS_Subset
<1> HIDE DEF W, A, B
<1>4. Cardinality(Unlike(K(W), K(S))) <= 2 * Cardinality(A)
  BY <1>1, KeptOfMore
<1>5. Cardinality(Unlike(K(W), K(T))) <= 2 * Cardinality(B)
  BY <1>1, KeptOfMore
<1> HIDE DEF K
<1>6. Unlike(K(S), K(W)) = Unlike(K(W), K(S))
  BY DEF Unlike
<1>7. Cardinality(Unlike(K(S), K(T))) <= Cardinality(Unlike(K(S), K(W))) + Cardinality(Unlike(K(W), K(T)))
  BY <1>3, UnlikeThrough
<1>8. /\ Cardinality(Unlike(K(S), K(T))) \in Nat /\ Cardinality(Unlike(K(W), K(S))) \in Nat
      /\ Cardinality(Unlike(K(W), K(T))) \in Nat
  BY <1>3, UnlikeCounts
<1> QED BY <1>2, <1>4, <1>5, <1>6, <1>7, <1>8 DEF K

(* Copies of rows that two tables were collected from.                     *)
LEMMA CollectedApart ==
  ASSUME NEW A, IsFiniteSet(A), NEW B, IsFiniteSet(B)
  PROVE  RowsApart(Collected(A), Collected(B)) <= Cardinality(Unlike(A, B))
<1> DEFINE f(X) == [x \in X |-> x[1]]
           E(X, Y) == ExceptAll(Collected(X), Collected(Y))
<1>1. ASSUME NEW X, IsFiniteSet(X), NEW Y, IsFiniteSet(Y)
      PROVE  Cardinality(E(X, Y)) <= Cardinality(X \ Y) /\ Cardinality(E(X, Y)) \in Nat
  <2>1. Collected(X) = Tally(f(X)) /\ Collected(Y) = Tally(f(Y))
    BY DEF Collected
  <2>2. DOMAIN f(X) = X /\ DOMAIN f(Y) = Y /\ \A x : (x \in X => f(X)[x] = x[1]) /\ (x \in Y => f(Y)[x] = x[1])
    OBVIOUS
  <2> HIDE DEF f
  <2>3. PICK inj : /\ \A x \in ExceptAll(Tally(f(X)), Tally(f(Y))) :
                       /\ inj[x] \in DOMAIN f(X)
                       /\ f(X)[inj[x]] = x[1]
                       /\ ~ (inj[x] \in DOMAIN f(Y) /\ f(Y)[inj[x]] = f(X)[inj[x]])
                  /\ \A x, y \in ExceptAll(Tally(f(X)), Tally(f(Y))) : inj[x] = inj[y] => x = y
    BY <1>1, <2>2, TallyApart
  <2> DEFINE g == [x \in E(X, Y) |-> inj[x]]
  <2>4. g \in [E(X, Y) -> X \ Y] /\ \A x, y \in E(X, Y) : g[x] = g[y] => x = y
    BY <2>1, <2>2, <2>3
  <2> HIDE DEF g, E
  <2>5. g \in Injection(E(X, Y), X \ Y)
    BY <2>4 DEF Injection, IsInjective
  <2>6. IsFiniteSet(X \ Y)
    BY <1>1, FS_Difference
  <2>7. IsFiniteSet(E(X, Y)) /\ Cardinality(E(X, Y)) <= Cardinality(X \ Y)
    BY <2>5, <2>6, FS_Injection
  <2> QED BY <2>7, FS_CardinalityType
<1>2. RowsApart(Collected(A), Collected(B)) = Cardinality(E(A, B)) + Cardinality(E(B, A))
  BY DEF RowsApart
<1> HIDE DEF E
<1>3. /\ Cardinality(E(A, B)) <= Cardinality(A \ B) /\ Cardinality(E(A, B)) \in Nat
      /\ Cardinality(E(B, A)) <= Cardinality(B \ A) /\ Cardinality(E(B, A)) \in Nat
  BY <1>1
<1>4. /\ Cardinality(A \ B) \in Nat /\ Cardinality(B \ A) \in Nat
      /\ Cardinality(Unlike(A, B)) = Cardinality(A \ B) + Cardinality(B \ A)
  BY UnlikeCounts
<1> QED BY <1>2, <1>3, <1>4

LEMMA OrdersAreStrict ==
  ASSUME NEW S, IsFiniteSet(S), NEW rank \in Orders(S)
  PROVE  \A x, y \in S : rank[x] = rank[y] => x = y
<1> DEFINE n == Cardinality(S)
           s == Listed(S)
<1>1. n \in Nat
  BY FS_CardinalityType
<1>2. \A x \in S : \E i \in 1 .. n : s[i] = x
  BY ListsAll
<1>3. \A x \in S : \E i \in 1 .. n : s[n + 1 - i] = x
  <2> SUFFICES ASSUME NEW x \in S PROVE \E i \in 1 .. n : s[n + 1 - i] = x
    OBVIOUS
  <2>1. PICK i \in 1 .. n : s[i] = x
    BY <1>2
  <2> DEFINE j == n + 1 - i
  <2>2. j \in 1 .. n /\ n + 1 - j = i
    BY <1>1
  <2> HIDE DEF j
  <2>3. s[n + 1 - j] = x
    BY <2>1, <2>2
  <2> QED BY <2>2, <2>3
<1>4. rank \in Bijection(S, 1 .. n)
      \/ rank = [x \in S |-> CHOOSE i \in 1 .. n : s[i] = x]
      \/ rank = [x \in S |-> CHOOSE i \in 1 .. n : s[n + 1 - i] = x]
  BY DEF Orders
<1> HIDE DEF n, s
<1>5. CASE rank \in Bijection(S, 1 .. n)
  BY <1>5 DEF Bijection, Injection, IsInjective
<1>6. CASE rank = [x \in S |-> CHOOSE i \in 1 .. n : s[i] = x]
  <2>1. \A x \in S : s[rank[x]] = x
    BY <1>2, <1>6
  <2> QED BY <2>1
<1>7. CASE rank = [x \in S |-> CHOOSE i \in 1 .. n : s[n + 1 - i] = x]
  <2>1. \A x \in S : s[n + 1 - rank[x]] = x
    BY <1>3, <1>7
  <2> QED BY <2>1
<1> QED BY <1>4, <1>5, <1>6, <1>7

LEMMA CopiesUnlike ==
  ASSUME NEW T, IsTable(T), NEW U, IsTable(U)
  PROVE  /\ RowsApart(T, U) = Cardinality(Unlike(Copies(T), Copies(U)))
         /\ RowsApart(T, U) \in Nat /\ IsFiniteSet(Unlike(Copies(T), Copies(U)))
BY CopiesOfTable, UnlikeCounts DEF RowsApart, ExceptAll

LEMMA TruncatedApart ==
  ASSUME NEW T, IsTable(T), NEW U, IsTable(U), NEW C, NEW n \in Nat,
         NEW rank \in Orders(Copies(T) \cup Copies(U))
  PROVE  RowsApart(TruncateLargeGroups(T, C, n, rank), TruncateLargeGroups(U, C, n, rank))
           <= 2 * RowsApart(T, U)
<1> DEFINE S == Copies(T)
           V == Copies(U)
           group == [x \in DOMAIN rank |-> Restrict(x[1], C)]
           A == Kept(S, group, n, rank)
           B == Kept(V, group, n, rank)
<1>1. IsFiniteSet(S) /\ IsFiniteSet(V) /\ IsFiniteSet(S \cup V)
  <2>1. IsFiniteSet(S) /\ IsFiniteSet(V)
    BY CopiesOfTable
  <2> HIDE DEF S, V
  <2> QED BY <2>1, FS_Union
<1>2. /\ TruncateLargeGroups(T, C, n, rank) = Collected(A)
      /\ TruncateLargeGroups(U, C, n, rank) = Collected(B)
  BY DEF TruncateLargeGroups
<1>3. /\ \A x \in S \cup V : rank[x] \in Int
      /\ \A x, y \in S \cup V : rank[x] = rank[y] => x = y
  <2> HIDE DEF S, V
  <2>1. rank \in Orders(S \cup V)
    BY DEF S, V
  <2> QED BY <1>1, <2>1, OrdersRankInts, OrdersAreStrict
<1>4. RowsApart(T, U) = Cardinality(Unlike(S, V)) /\ RowsApart(T, U) \in Nat
  BY CopiesUnlike
<1> HIDE DEF S, V, group
<1>5. Cardinality(Unlike(A, B)) <= 2 * Cardinality(Unlike(S, V))
  BY <1>1, <1>3, KeptApart
<1>6. IsFiniteSet(A) /\ IsFiniteSet(B)
  <2>1. A \in SUBSET S /\ B \in SUBSET V
    BY DEF Kept
  <2> QED BY <1>1, <2>1, FS_Subset
<1> HIDE DEF A, B
<1>7. RowsApart(Collected(A), Collected(B)) <= Cardinality(Unlike(A, B))
  BY <1>6, CollectedApart
<1>8. Cardinality(Unlike(A, B)) \in Nat /\ RowsApart(Collected(A), Collected(B)) \in Nat
  <2>1. IsTable(Collected(A)) /\ IsTable(Collected(B))
    <3>1. \A X : DOMAIN [x \in X |-> x[1]] = X
      OBVIOUS
    <3> QED BY <1>6, <3>1, TallyIsTable DEF Collected
  <2> QED BY <1>6, <2>1, UnlikeCounts, CopiesUnlike
<1> QED BY <1>2, <1>4, <1>5, <1>7, <1>8

(* Copies group by group.                                                  *)
OfGroup(X, C, g) == {x \in X : Restrict(x[1], C) = g}

LEMMA GroupwiseBound ==
  ASSUME NEW X, IsFiniteSet(X), NEW D, IsFiniteSet(D), NEW n \in Nat, NEW C,
         \A g : Cardinality(OfGroup(X, C, g)) <= n * Cardinality(OfGroup(D, C, g))
  PROVE  Cardinality(X) <= n * Cardinality(D)
<1> DEFINE x_(g) == OfGroup(X, C, g)
           d_(g) == OfGroup(D, C, g) \X (1 .. n)
           into(g) == CHOOSE h \in Injection(x_(g), d_(g)) : TRUE
           of(x) == Restrict(x[1], C)
           h == [x \in X |-> into(of(x))[x]]
<1>1. IsFiniteSet(1 .. n) /\ Cardinality(1 .. n) = n
  BY FS_Interval
<1>2. ASSUME NEW g PROVE into(g) \in Injection(x_(g), d_(g))
  <2>1. OfGroup(X, C, g) \in SUBSET X /\ OfGroup(D, C, g) \in SUBSET D
    BY DEF OfGroup
  <2>2. IsFiniteSet(x_(g)) /\ IsFiniteSet(OfGroup(D, C, g)) /\ Cardinality(OfGroup(D, C, g)) \in Nat
    BY <2>1, FS_Subset, FS_CardinalityType
  <2>3. IsFiniteSet(d_(g)) /\ Cardinality(d_(g)) = Cardinality(OfGroup(D, C, g)) * n
    BY <1>1, <2>2, FS_Product
  <2>4. Cardinality(x_(g)) <= Cardinality(d_(g))
    BY <2>2, <2>3
  <2> HIDE DEF x_, d_
  <2>5. \E j \in Injection(x_(g), d_(g)) : TRUE
    BY <2>2, <2>3, <2>4, SmallerInjects
  <2> QED BY <2>5
<1>3. ASSUME NEW x \in X
      PROVE  x \in x_(of(x)) /\ h[x] \in d_(of(x)) /\ h[x] = into(of(x))[x]
  <2>1. x \in x_(of(x)) /\ h[x] = into(of(x))[x]
    BY DEF OfGroup
  <2> HIDE DEF into, h
  <2>2. into(of(x)) \in [x_(of(x)) -> d_(of(x))]
    BY <1>2 DEF Injection
  <2> HIDE DEF x_, d_, of
  <2> QED BY <2>1, <2>2
<1> DEFINE Y == D \X (1 .. n)
<1>4. \A g : \A y \in d_(g) : y \in Y /\ of(y[1]) = g
  BY DEF OfGroup
<1> HIDE DEF into, h, x_, d_, of
<1>5. \A x \in X : h[x] \in Y
  BY <1>3, <1>4
<1>6. ASSUME NEW x \in X, NEW y \in X, h[x] = h[y] PROVE x = y
  <2>1. of(x) = of(y)
    BY <1>3, <1>4, <1>6
  <2>2. into(of(x)) \in Injection(x_(of(x)), d_(of(x)))
    BY <1>2
  <2> QED BY <1>3, <1>6, <2>1, <2>2 DEF Injection, IsInjective
<1>7. DOMAIN h = X /\ h = [x \in X |-> h[x]]
  BY DEF h
<1>8. h \in Injection(X, Y)
  BY <1>5, <1>6, <1>7 DEF Injection, IsInjective
<1>9. IsFiniteSet(Y) /\ Cardinality(Y) = Cardinality(D) * n
  BY <1>1, FS_Product
<1> HIDE DEF Y
<1>10. Cardinality(X) <= Cardinality(Y)
  BY <1>8, <1>9, FS_Injection
<1>11. Cardinality(D) \in Nat
  BY FS_CardinalityType
<1> QED BY <1>9, <1>10, <1>11

LEMMA GroupCopies ==
  ASSUME NEW T, IsTable(T), NEW C, NEW g
  PROVE  /\ Copies(Group(T, C, g)) = CopiesOfGroup(T, C, g)
         /\ IsFiniteSet(CopiesOfGroup(T, C, g))
         /\ NumRows(Group(T, C, g)) = Cardinality(CopiesOfGroup(T, C, g))
         /\ Cardinality(CopiesOfGroup(T, C, g)) \in Nat
<1> DEFINE G == Group(T, C, g)
<1>1. /\ IsTable(G)
      /\ \A x : x \in DOMAIN G <=> x \in DOMAIN T /\ Restrict(x, C) = g
      /\ \A x \in DOMAIN G : G[x] = T[x]
  BY GroupIsTable
<1> HIDE DEF G
<1>2. /\ \A x : x \in Copies(T) <=> \E r \in DOMAIN T : \E i \in 1 .. T[r] : x = <<r, i>>
      /\ \A x : x \in Copies(G) <=> \E r \in DOMAIN G : \E i \in 1 .. G[r] : x = <<r, i>>
      /\ IsFiniteSet(Copies(G))
  BY <1>1, CopiesOfTable
<1>3. \A x : x \in Copies(G) <=> x \in Copies(T) /\ Restrict(x[1], C) = g
  BY <1>1, <1>2
<1>4. Copies(G) = CopiesOfGroup(T, C, g)
  BY <1>3 DEF CopiesOfGroup
<1> QED BY <1>2, <1>4, FS_CardinalityType DEF NumRows, G

(* Dropping large groups keeps a group or drops it.                        *)
LEMMA DroppedCopies ==
  ASSUME NEW T, IsTable(T), NEW C, NEW n \in Nat, NEW g
  PROVE  CopiesOfGroup(DropLargeGroups(T, C, n), C, g)
           = IF Cardinality(CopiesOfGroup(T, C, g)) <= n THEN CopiesOfGroup(T, C, g) ELSE {}
<1> DEFINE R == {r \in DOMAIN T : NumRows(Group(T, C, Restrict(r, C))) <= n}
           A == DropLargeGroups(T, C, n)
<1>1. A = Restrict(T, R)
  BY DEF DropLargeGroups, Where, RestrictDomain
<1>2. R \in SUBSET DOMAIN T /\ \A r : r \in R <=> r \in DOMAIN T /\ NumRows(Group(T, C, Restrict(r, C))) <= n
  OBVIOUS
<1> HIDE DEF R
<1>3. IsTable(A) /\ DOMAIN A = R /\ \A r \in R : A[r] = T[r]
  BY <1>1, <1>2, RestrictIsTable DEF Restrict
<1> HIDE DEF A
<1>4. /\ \A x : x \in Copies(T) <=> \E r \in DOMAIN T : \E i \in 1 .. T[r] : x = <<r, i>>
      /\ \A x : x \in Copies(A) <=> \E r \in DOMAIN A : \E i \in 1 .. A[r] : x = <<r, i>>
  BY <1>3, CopiesOfTable
<1>5. \A x : x \in Copies(A) <=> x \in Copies(T) /\ x[1] \in R
  BY <1>2, <1>3, <1>4
<1>6. \A x \in Copies(T) : x[1] \in DOMAIN T
  BY <1>4
<1>7. NumRows(Group(T, C, g)) = Cardinality(CopiesOfGroup(T, C, g))
  BY GroupCopies
<1>8. \A x : x \in CopiesOfGroup(A, C, g)
               <=> x \in CopiesOfGroup(T, C, g) /\ Cardinality(CopiesOfGroup(T, C, g)) <= n
  <2>1. \A x : x \in CopiesOfGroup(A, C, g) <=> x \in Copies(A) /\ Restrict(x[1], C) = g
    BY DEF CopiesOfGroup
  <2>2. \A x : x \in CopiesOfGroup(T, C, g) <=> x \in Copies(T) /\ Restrict(x[1], C) = g
    BY DEF CopiesOfGroup
  <2> QED BY <1>2, <1>5, <1>6, <1>7, <2>1, <2>2
<1> QED BY <1>8 DEF A

(* A group that differs is dropped or kept on either side: at most n rows  *)
(* are there to differ.                                                    *)
LEMMA DroppedApart ==
  ASSUME NEW T, IsTable(T), NEW U, IsTable(U), NEW C, NEW n \in Nat
  PROVE  RowsApart(DropLargeGroups(T, C, n), DropLargeGroups(U, C, n)) <= n * RowsApart(T, U)
<1> DEFINE A == DropLargeGroups(T, C, n)
           B == DropLargeGroups(U, C, n)
           X == Unlike(Copies(A), Copies(B))
           D == Unlike(Copies(T), Copies(U))
<1>1. IsTable(A) /\ IsTable(B)
  <2>1. ASSUME NEW V, IsTable(V) PROVE IsTable(DropLargeGroups(V, C, n))
    <3>1. DropLargeGroups(V, C, n)
            = Restrict(V, {r \in DOMAIN V : NumRows(Group(V, C, Restrict(r, C))) <= n})
      BY DEF DropLargeGroups, Where, RestrictDomain
    <3> QED BY <2>1, <3>1, RestrictIsTable
  <2> QED BY <2>1
<1>2. ASSUME NEW g
      PROVE  Cardinality(OfGroup(X, C, g)) <= n * Cardinality(OfGroup(D, C, g))
  <2> DEFINE a == CopiesOfGroup(A, C, g)
             b == CopiesOfGroup(B, C, g)
             t == CopiesOfGroup(T, C, g)
             u == CopiesOfGroup(U, C, g)
  <2>1. OfGroup(X, C, g) = Unlike(a, b) /\ OfGroup(D, C, g) = Unlike(t, u)
    <3>1. \A V, W : OfGroup(Unlike(Copies(V), Copies(W)), C, g)
                      = Unlike(CopiesOfGroup(V, C, g), CopiesOfGroup(W, C, g))
      BY DEF OfGroup, Unlike, CopiesOfGroup
    <3> QED BY <3>1
  <2>2. /\ a = IF Cardinality(t) <= n THEN t ELSE {}
        /\ b = IF Cardinality(u) <= n THEN u ELSE {}
    BY DroppedCopies
  <2>3. /\ IsFiniteSet(t) /\ IsFiniteSet(u)
        /\ Cardinality(t) \in Nat /\ Cardinality(u) \in Nat
    BY GroupCopies
  <2> HIDE DEF a, b, t, u, X, D
  <2>4. Cardinality(Unlike(t, u)) \in Nat
    BY <2>3, UnlikeCounts
  <2>5. Cardinality({}) = 0
    BY FS_EmptySet
  <2>6. CASE Unlike(t, u) = {}
    <3>1. t = u
      BY <2>6 DEF Unlike
    <3>2. Unlike(a, b) = {}
      BY <2>2, <3>1 DEF Unlike
    <3> QED BY <2>1, <2>5, <2>6, <3>2
  <2>7. CASE Unlike(t, u) # {}
    <3>1. Cardinality(Unlike(t, u)) >= 1
      <4>1. IsFiniteSet(Unlike(t, u))
        BY <2>3, UnlikeCounts
      <4>2. Cardinality(Unlike(t, u)) # 0
        BY <2>7, <4>1, FS_EmptySet
      <4> QED BY <2>4, <4>2
    <3>2. \A d \in Nat : d >= 1 => n <= n * d /\ (n >= 1 => d <= n * d)
      <4> SUFFICES ASSUME NEW d \in Nat, d >= 1 PROVE n <= n * d /\ (n >= 1 => d <= n * d)
        OBVIOUS
      <4>1. n * 1 <= n * d
        OBVIOUS
      <4>2. n >= 1 => 1 * d <= n * d
        OBVIOUS
      <4> QED BY <4>1, <4>2
    <3>3. CASE a = t /\ b = u /\ Cardinality(t) <= n /\ Cardinality(u) <= n
      <4>1. n >= 1
        <5>1. t # {} \/ u # {}
          BY <2>7 DEF Unlike
        <5>2. Cardinality(t) # 0 \/ Cardinality(u) # 0
          BY <2>3, <5>1, FS_EmptySet
        <5> QED BY <2>3, <3>3, <5>2
      <4> QED BY <2>1, <2>4, <3>1, <3>2, <3>3, <4>1
    <3>4. CASE a = {} \/ b = {}
      <4>1. Cardinality(Unlike(a, b)) <= n
        <5>1. Unlike(a, b) = a \/ Unlike(a, b) = b
          BY <3>4 DEF Unlike
        <5>2. Cardinality(a) <= n /\ Cardinality(b) <= n
          BY <2>2, <2>5
        <5> QED BY <5>1, <5>2
      <4>2. Cardinality(Unlike(a, b)) \in Nat
        <5>1. IsFiniteSet(a) /\ IsFiniteSet(b)
          BY <2>2, <2>3, FS_EmptySet
        <5> QED BY <5>1, UnlikeCounts
      <4>3. n <= n * Cardinality(Unlike(t, u)) /\ n * Cardinality(Unlike(t, u)) \in Nat
        BY <2>4, <3>1, <3>2
      <4> QED BY <2>1, <4>1, <4>2, <4>3
    <3> QED BY <2>2, <3>3, <3>4
  <2> QED BY <2>6, <2>7
<1>3. /\ RowsApart(A, B) = Cardinality(X) /\ IsFiniteSet(X)
      /\ RowsApart(T, U) = Cardinality(D) /\ IsFiniteSet(D)
  BY <1>1, CopiesUnlike
<1> HIDE DEF A, B, X, D
<1>4. Cardinality(X) <= n * Cardinality(D)
  BY <1>2, <1>3, GroupwiseBound
<1> QED BY <1>3, <1>4 DEF A, B

(* PrivateJoin.truncation_strategy_stability, and the size of the groups   *)
(* that are left.                                                          *)
Truncates(s) == s.name \in {"truncate", "drop"} /\ s.threshold \in Nat

LEMMA TruncationBounds ==
  ASSUME NEW s, Truncates(s), NEW T, IsTable(T), NEW U, IsTable(U), NEW C,
         NEW rank \in Orders(Copies(T) \cup Copies(U))
  PROVE  /\ TruncationStrategyStability(s) \in Nat
         /\ RowsApart(Truncated(T, C, s, rank), Truncated(U, C, s, rank))
              <= TruncationStrategyStability(s) * RowsApart(T, U)
<1>1. CASE s.name = "truncate"
  <2>1. /\ TruncationStrategyStability(s) = 2
        /\ \A V : Truncated(V, C, s, rank) = TruncateLargeGroups(V, C, s.threshold, rank)
    BY <1>1 DEF TruncationStrategyStability, Truncated
  <2> QED BY <2>1, TruncatedApart DEF Truncates
<1>2. CASE s.name = "drop"
  <2>1. /\ TruncationStrategyStability(s) = s.threshold
        /\ \A V : Truncated(V, C, s, rank) = DropLargeGroups(V, C, s.threshold)
    BY <1>2 DEF TruncationStrategyStability, Truncated
  <2> QED BY <2>1, DroppedApart DEF Truncates
<1> QED BY <1>1, <1>2 DEF Truncates

LEMMA TruncatedGroups ==
  ASSUME NEW s, Truncates(s), NEW T, IsTable(T), NEW C, NEW g,
         NEW rank, Copies(T) \subseteq DOMAIN rank, \A x \in Copies(T) : rank[x] \in Int
  PROVE  /\ IsTable(Truncated(T, C, s, rank))
         /\ IsFiniteSet(CopiesOfGroup(Truncated(T, C, s, rank), C, g))
         /\ Cardinality(CopiesOfGroup(Truncated(T, C, s, rank), C, g)) <= s.threshold
<1> DEFINE n == s.threshold
<1>1. n \in Nat
  BY DEF Truncates
<1>2. CASE s.name = "truncate"
  <2> DEFINE group == [x \in DOMAIN rank |-> Restrict(x[1], C)]
             K == Kept(Copies(T), group, n, rank)
             f == [x \in K |-> x[1]]
  <2>1. Truncated(T, C, s, rank) = Tally(f)
    BY <1>2, Zenon DEF Truncated, TruncateLargeGroups, Collected
  <2>2. IsFiniteSet(Copies(T))
    BY CopiesOfTable
  <2>3. K \in SUBSET Copies(T) /\ IsFiniteSet(K)
    <3>1. K \in SUBSET Copies(T)
      BY DEF Kept
    <3> HIDE DEF K
    <3> QED BY <2>2, <3>1, FS_Subset
  <2>4. \A x \in K : group[x] = Restrict(x[1], C)
    BY <2>3
  <2>5. /\ IsFiniteSet(KeptOf(Copies(T), group, n, rank, g))
        /\ Cardinality(KeptOf(Copies(T), group, n, rank, g)) <= n
    <3> HIDE DEF group, n
    <3> QED BY <1>1, <2>2, KeptAtMost
  <2>6. DrawnFrom(f, C, g) = KeptOf(Copies(T), group, n, rank, g)
    <3>1. \A x : x \in KeptOf(Copies(T), group, n, rank, g) <=> x \in K /\ group[x] = g
      BY DEF KeptOf
    <3>2. DOMAIN f = K /\ \A x \in K : f[x] = x[1]
      OBVIOUS
    <3> HIDE DEF f, K, group
    <3>3. \A x : x \in DrawnFrom(f, C, g) <=> x \in K /\ Restrict(x[1], C) = g
      BY <3>2 DEF DrawnFrom
    <3> QED BY <2>4, <3>1, <3>3
  <2>7. DOMAIN f = K
    OBVIOUS
  <2> HIDE DEF f, K
  <2>8. IsTable(Tally(f))
    BY <2>3, <2>7, TallyIsTable
  <2>9. /\ IsFiniteSet(CopiesOfGroup(Tally(f), C, g))
        /\ Cardinality(CopiesOfGroup(Tally(f), C, g)) = Cardinality(DrawnFrom(f, C, g))
    BY <2>3, <2>7, TallyOfGroup
  <2> QED BY <2>1, <2>5, <2>6, <2>8, <2>9
<1>3. CASE s.name = "drop"
  <2>1. Truncated(T, C, s, rank) = DropLargeGroups(T, C, n)
    BY <1>3 DEF Truncated
  <2>2. IsTable(DropLargeGroups(T, C, n))
    <3>1. DropLargeGroups(T, C, n) = Restrict(T, {r \in DOMAIN T : NumRows(Group(T, C, Restrict(r, C))) <= n})
      BY DEF DropLargeGroups, Where, RestrictDomain
    <3> QED BY <3>1, RestrictIsTable
  <2>3. CopiesOfGroup(DropLargeGroups(T, C, n), C, g)
           = IF Cardinality(CopiesOfGroup(T, C, g)) <= n THEN CopiesOfGroup(T, C, g) ELSE {}
    BY <1>1, DroppedCopies
  <2>4. IsFiniteSet(CopiesOfGroup(T, C, g)) /\ IsFiniteSet({}) /\ Cardinality({}) = 0
    BY GroupCopies, FS_EmptySet
  <2> QED BY <1>1, <2>1, <2>2, <2>3, <2>4
<1> QED BY <1>2, <1>3 DEF Truncates

-----------------------------------------------------------------------------
(* Joins of truncated tables *)

(* The rows that an inner join makes of one row, one for each copy of a    *)
(* partner.                                                                *)
RowsWith(V, a, ls, rs, on, nulls) ==
  [x \in Copies(Partners(V, a, on, nulls)) |-> JoinedRow(a, x[1], ls, rs, on)]

LEMMA PartnersOfTable ==
  ASSUME NEW V, IsTable(V), NEW a, NEW ls, NEW rs, NEW on, NEW nulls
  PROVE  LET P == Partners(V, a, on, nulls)
         IN /\ IsTable(P) /\ IsFiniteSet(Copies(P))
            /\ \A x : x \in Copies(P) <=> x \in Copies(V) /\ Matches(a, x[1], on, nulls)
            /\ Copies(P) \subseteq CopiesOfGroup(V, on, Restrict(a, on))
            /\ JoinedRows(V, a, ls, rs, on, "inner", nulls) = Tally(RowsWith(V, a, ls, rs, on, nulls))
<1> DEFINE P == Partners(V, a, on, nulls)
           S == {b \in DOMAIN V : Matches(a, b, on, nulls)}
           f == RowsWith(V, a, ls, rs, on, nulls)
<1>1. P = Restrict(V, S) /\ S \in SUBSET DOMAIN V
  BY DEF Partners
<1>2. /\ IsTable(P) /\ DOMAIN P = S /\ \A b \in S : P[b] = V[b]
  BY <1>1, RestrictIsTable DEF Restrict
<1>3. /\ \A x : x \in Copies(V) <=> \E r \in DOMAIN V : \E i \in 1 .. V[r] : x = <<r, i>>
      /\ \A x : x \in Copies(P) <=> \E r \in DOMAIN P : \E i \in 1 .. P[r] : x = <<r, i>>
      /\ IsFiniteSet(Copies(P))
  BY <1>2, CopiesOfTable
<1>4. \A x : x \in Copies(P) <=> x \in Copies(V) /\ Matches(a, x[1], on, nulls)
  BY <1>2, <1>3
<1>5. \A b : Matches(a, b, on, nulls) => Restrict(b, on) = Restrict(a, on)
  BY DEF Matches, Restrict
<1>6. Copies(P) \subseteq CopiesOfGroup(V, on, Restrict(a, on))
  BY <1>4, <1>5 DEF CopiesOfGroup
<1>7. JoinedRows(V, a, ls, rs, on, "inner", nulls) = Tally(f)
  <2>1. CASE P = EmptyBag
    <3>1. JoinedRows(V, a, ls, rs, on, "inner", nulls) = EmptyBag
      BY <2>1 DEF JoinedRows
    <3>2. EmptyBag = [x \in {} |-> 1] /\ DOMAIN EmptyBag = {}
      BY DEF EmptyBag, SetToBag
    <3>3. Copies(P) = {}
      BY <1>3, <2>1, <3>2
    <3>4. DOMAIN f = {} /\ Range(f) = {}
      BY <3>3 DEF RowsWith, Range
    <3>5. Tally(f) = [x \in {} |-> 1]
      BY <3>4 DEF Tally
    <3> QED BY <3>1, <3>2, <3>5
  <2>2. CASE P # EmptyBag
    BY <2>2 DEF JoinedRows, RowsWith
  <2> QED BY <2>1, <2>2
<1> QED BY <1>2, <1>3, <1>4, <1>6, <1>7

(* What a row is joined to changes with the other table, once for each     *)
(* copy that differs.                                                      *)
LEMMA JoinedRowsApart ==
  ASSUME NEW V, IsTable(V), NEW W, IsTable(W), NEW a, NEW ls, NEW rs, NEW on, NEW nulls
  PROVE  LET E == ExceptAll(JoinedRows(V, a, ls, rs, on, "inner", nulls),
                            JoinedRows(W, a, ls, rs, on, "inner", nulls))
         IN \E h : /\ \A z \in E : /\ h[z] \in ExceptAll(V, W)
                                   /\ Restrict(h[z][1], on) = Restrict(a, on)
                   /\ \A y, z \in E : h[y] = h[z] => y = z
<1> DEFINE f == RowsWith(V, a, ls, rs, on, nulls)
           g == RowsWith(W, a, ls, rs, on, nulls)
           P == Partners(V, a, on, nulls)
           Q == Partners(W, a, on, nulls)
<1>1. /\ DOMAIN f = Copies(P) /\ DOMAIN g = Copies(Q)
      /\ \A x \in DOMAIN f : f[x] = JoinedRow(a, x[1], ls, rs, on)
      /\ \A x \in DOMAIN g : g[x] = JoinedRow(a, x[1], ls, rs, on)
  BY DEF RowsWith
<1>2. /\ IsFiniteSet(Copies(P)) /\ IsFiniteSet(Copies(Q))
      /\ \A x : x \in Copies(P) <=> x \in Copies(V) /\ Matches(a, x[1], on, nulls)
      /\ \A x : x \in Copies(Q) <=> x \in Copies(W) /\ Matches(a, x[1], on, nulls)
      /\ JoinedRows(V, a, ls, rs, on, "inner", nulls) = Tally(f)
      /\ JoinedRows(W, a, ls, rs, on, "inner", nulls) = Tally(g)
  BY PartnersOfTable
<1>3. \A b : Matches(a, b, on, nulls) => Restrict(b, on) = Restrict(a, on)
  BY DEF Matches, Restrict
<1> HIDE DEF f, g, P, Q
<1>4. PICK h : /\ \A x \in ExceptAll(Tally(f), Tally(g)) :
                       /\ h[x] \in DOMAIN f
                       /\ f[h[x]] = x[1]
                       /\ ~ (h[x] \in DOMAIN g /\ g[h[x]] = f[h[x]])
               /\ \A x, y \in ExceptAll(Tally(f), Tally(g)) : h[x] = h[y] => x = y
  BY <1>1, <1>2, TallyApart
<1>5. \A x \in ExceptAll(Tally(f), Tally(g)) :
        /\ h[x] \in ExceptAll(V, W) /\ Restrict(h[x][1], on) = Restrict(a, on)
  BY <1>1, <1>2, <1>3, <1>4 DEF ExceptAll
<1> QED BY <1>2, <1>4, <1>5

LEMMA JoinedExcept ==
  ASSUME NEW A, IsTable(A), NEW B, IsTable(B), NEW C, IsTable(C), NEW D, IsTable(D),
         NEW ls, NEW rs, NEW on, NEW nulls, NEW m \in Nat, NEW n \in Nat,
         \A k : /\ IsFiniteSet(CopiesOfGroup(A, on, k))
                /\ Cardinality(CopiesOfGroup(A, on, k)) <= m,
         \A k : /\ IsFiniteSet(CopiesOfGroup(C, on, k))
                /\ Cardinality(CopiesOfGroup(C, on, k)) <= n
  PROVE  /\ Cardinality(ExceptAll(Join(A, C, ls, rs, on, "inner", nulls),
                                  Join(B, D, ls, rs, on, "inner", nulls)))
              <= n * Cardinality(ExceptAll(A, B)) + m * Cardinality(ExceptAll(C, D))
         /\ Cardinality(ExceptAll(Join(A, C, ls, rs, on, "inner", nulls),
                                  Join(B, D, ls, rs, on, "inner", nulls))) \in Nat
<1> DEFINE rows(V, a) == JoinedRows(V, a, ls, rs, on, "inner", nulls)
           p == [a \in DOMAIN A |-> rows(C, a)]
           q == [a \in DOMAIN B |-> rows(D, a)]
           f == [x \in Flat(A, p) |-> x[2][1]]
           g == [x \in Flat(B, q) |-> x[2][1]]
           J == Join(A, C, ls, rs, on, "inner", nulls)
           K == Join(B, D, ls, rs, on, "inner", nulls)
           E == ExceptAll(J, K)
<1>0. DOMAIN f = Flat(A, p) /\ DOMAIN g = Flat(B, q)
      /\ (\A x \in Flat(A, p) : f[x] = x[2][1]) /\ (\A x \in Flat(B, q) : g[x] = x[2][1])
      /\ (\A a \in DOMAIN A : p[a] = rows(C, a)) /\ (\A a \in DOMAIN B : q[a] = rows(D, a))
  OBVIOUS
<1>1. J = Flattened(A, p) /\ K = Flattened(B, q)
  BY JoinIsFlattened
<1>2. ASSUME NEW V, IsTable(V), NEW a
      PROVE  /\ IsTable(rows(V, a)) /\ IsFiniteSet(Copies(rows(V, a)))
             /\ Cardinality(Copies(rows(V, a))) = Cardinality(Copies(Partners(V, a, on, nulls)))
  <2> DEFINE t == RowsWith(V, a, ls, rs, on, nulls)
  <2>1. DOMAIN t = Copies(Partners(V, a, on, nulls))
    BY DEF RowsWith
  <2>2. IsFiniteSet(DOMAIN t) /\ rows(V, a) = Tally(t)
    BY <1>2, <2>1, PartnersOfTable
  <2> HIDE DEF t
  <2>3. IsTable(Tally(t)) /\ NumRows(Tally(t)) = Cardinality(DOMAIN t)
    BY <2>2, TallyIsTable, TallyRows
  <2>4. IsFiniteSet(Copies(Tally(t)))
    BY <2>3, CopiesOfTable
  <2> QED BY <2>1, <2>2, <2>3, <2>4 DEF NumRows
<1> HIDE DEF rows, p, q, f, g, J, K
<1>3. /\ IsFiniteSet(Flat(A, p)) /\ J = Tally(f)
      /\ \A x : x \in Flat(A, p) <=> \E y \in Copies(A) : \E z \in Copies(p[y[1]]) : x = <<y, z>>
      /\ IsFiniteSet(Flat(B, q)) /\ K = Tally(g)
      /\ \A x : x \in Flat(B, q) <=> \E y \in Copies(B) : \E z \in Copies(q[y[1]]) : x = <<y, z>>
  <2>1. \A a \in DOMAIN A : IsTable(p[a])
    BY <1>0, <1>2
  <2>2. \A a \in DOMAIN B : IsTable(q[a])
    BY <1>0, <1>2
  <2>3. Flattened(A, p) = Tally([x \in Flat(A, p) |-> x[2][1]])
    BY <2>1, FlatCopies
  <2>4. Flattened(B, q) = Tally([x \in Flat(B, q) |-> x[2][1]])
    BY <2>2, FlatCopies
  <2>5. /\ IsFiniteSet(Flat(A, p))
        /\ \A x : x \in Flat(A, p) <=> \E y \in Copies(A) : \E z \in Copies(p[y[1]]) : x = <<y, z>>
    <3>1. IsFiniteSet(Flat(A, p))
      BY <2>1, FlatCopies
    <3>2. \A x : x \in Flat(A, p) <=> \E y \in Copies(A) : \E z \in Copies(p[y[1]]) : x = <<y, z>>
      BY DEF Flat
    <3> QED BY <3>1, <3>2
  <2>6. /\ IsFiniteSet(Flat(B, q))
        /\ \A x : x \in Flat(B, q) <=> \E y \in Copies(B) : \E z \in Copies(q[y[1]]) : x = <<y, z>>
    <3>1. IsFiniteSet(Flat(B, q))
      BY <2>2, FlatCopies
    <3>2. \A x : x \in Flat(B, q) <=> \E y \in Copies(B) : \E z \in Copies(q[y[1]]) : x = <<y, z>>
      BY DEF Flat
    <3> QED BY <3>1, <3>2
  <2>7. J = Tally(f) /\ K = Tally(g)
    BY <1>1, <2>3, <2>4 DEF f, g
  <2> QED BY <2>5, <2>6, <2>7
<1>4. (\A y \in Copies(A) : y[1] \in DOMAIN A) /\ (\A y \in Copies(B) : y[1] \in DOMAIN B)
  BY CopiesOfTable
<1> DEFINE F == Flat(A, p) \ Flat(B, q)
           X == {x \in Flat(A, p) : x[1] \in ExceptAll(A, B)}
           Y == {x \in Flat(A, p) : x[2] \in ExceptAll(rows(C, x[1][1]), rows(D, x[1][1]))}
<1>5. IsFiniteSet(E) /\ Cardinality(E) <= Cardinality(F) /\ IsFiniteSet(F)
  <2>1. PICK h : /\ \A x \in ExceptAll(Tally(f), Tally(g)) :
                       /\ h[x] \in DOMAIN f
                       /\ f[h[x]] = x[1]
                       /\ ~ (h[x] \in DOMAIN g /\ g[h[x]] = f[h[x]])
                 /\ \A x, y \in ExceptAll(Tally(f), Tally(g)) : h[x] = h[y] => x = y
    BY <1>0, <1>3, TallyApart
  <2>2. \A x \in E : h[x] \in F
    BY <1>0, <1>3, <2>1
  <2> DEFINE j == [x \in E |-> h[x]]
  <2>3. j \in [E -> F] /\ \A x, y \in E : j[x] = j[y] => x = y
    BY <1>3, <2>1, <2>2
  <2>4. IsFiniteSet(F)
    BY <1>3, FS_Difference
  <2> HIDE DEF j, E, F
  <2>5. j \in Injection(E, F)
    BY <2>3 DEF Injection, IsInjective
  <2> QED BY <2>4, <2>5, FS_Injection
<1>6. F \subseteq X \cup Y
  <2> SUFFICES ASSUME NEW x \in Flat(A, p), x \notin Flat(B, q), x[1] \notin ExceptAll(A, B)
               PROVE  x[2] \in ExceptAll(rows(C, x[1][1]), rows(D, x[1][1]))
    OBVIOUS
  <2>0. PICK y \in Copies(A) : \E z \in Copies(p[y[1]]) : x = <<y, z>>
    BY <1>3
  <2>1. PICK z \in Copies(p[y[1]]) : x = <<y, z>>
    BY <2>0
  <2>2. x[1] = y /\ x[2] = z
    BY <2>1
  <2>3. y \in Copies(B)
    BY <2>2 DEF ExceptAll
  <2>4. z \notin Copies(q[y[1]])
    BY <1>3, <2>1, <2>3
  <2> QED BY <1>0, <1>4, <2>1, <2>2, <2>3, <2>4 DEF ExceptAll
<1>7. IsFiniteSet(X) /\ Cardinality(X) \in Nat /\ Cardinality(X) <= n * Cardinality(ExceptAll(A, B))
  <2> DEFINE h == [x \in X |-> x[1]]
  <2>1. h \in [X -> ExceptAll(A, B)]
    OBVIOUS
  <2>2. ASSUME NEW y \in ExceptAll(A, B)
        PROVE  /\ IsFiniteSet({x \in X : h[x] = y}) /\ Cardinality({x \in X : h[x] = y}) <= n
    <3> DEFINE Z == {x \in X : h[x] = y}
               S == Copies(rows(C, y[1]))
    <3>1. Z \in SUBSET ({y} \X S)
      <4>1. ASSUME NEW x \in Z PROVE x \in {y} \X S
        <5>1. x \in Flat(A, p) /\ x[1] = y
          OBVIOUS
        <5>2. PICK y1 \in Copies(A) : \E z \in Copies(p[y1[1]]) : x = <<y1, z>>
          BY <1>3, <5>1
        <5> QED BY <1>0, <1>4, <5>1, <5>2
      <4> QED BY <4>1
    <3>2. IsFiniteSet(S) /\ Cardinality(S) <= n /\ Cardinality(S) \in Nat
      <4>1. /\ IsFiniteSet(S) /\ Cardinality(S) = Cardinality(Copies(Partners(C, y[1], on, nulls)))
        BY <1>2
      <4>2. Copies(Partners(C, y[1], on, nulls)) \subseteq CopiesOfGroup(C, on, Restrict(y[1], on))
        BY PartnersOfTable
      <4>3. /\ Cardinality(Copies(Partners(C, y[1], on, nulls)))
                 <= Cardinality(CopiesOfGroup(C, on, Restrict(y[1], on)))
        BY <4>2, FS_Subset
      <4>4. /\ Cardinality(S) \in Nat /\ Cardinality(CopiesOfGroup(C, on, Restrict(y[1], on))) \in Nat
        BY <4>1, FS_CardinalityType
      <4>5. Cardinality(CopiesOfGroup(C, on, Restrict(y[1], on))) <= n
        OBVIOUS
      <4> HIDE DEF S
      <4> QED BY <4>1, <4>3, <4>4, <4>5
    <3> HIDE DEF Z, S
    <3>3. IsFiniteSet({y}) /\ Cardinality({y}) = 1
      BY FS_Singleton
    <3>4. IsFiniteSet({y} \X S) /\ Cardinality({y} \X S) = 1 * Cardinality(S)
      BY <3>2, <3>3, FS_Product
    <3>5. IsFiniteSet(Z) /\ Cardinality(Z) <= Cardinality({y} \X S)
      BY <3>1, <3>4, FS_Subset
    <3>6. Cardinality(Z) \in Nat
      BY <3>5, FS_CardinalityType
    <3> QED BY <3>2, <3>4, <3>5, <3>6 DEF Z
  <2>3. IsFiniteSet(ExceptAll(A, B))
    BY RowsApartCount
  <2> HIDE DEF h, X
  <2>4. Fans(h, n, X, ExceptAll(A, B))
    BY <2>1, <2>2 DEF Fans
  <2> QED BY <2>3, <2>4, FannedFinite
<1>8. IsFiniteSet(Y) /\ Cardinality(Y) \in Nat /\ Cardinality(Y) <= m * Cardinality(ExceptAll(C, D))
  <2> DEFINE W(a) == ExceptAll(rows(C, a), rows(D, a))
             Good(h, a) == /\ \A z \in W(a) : /\ h[z] \in ExceptAll(C, D)
                                              /\ Restrict(h[z][1], on) = Restrict(a, on)
                           /\ \A y, z \in W(a) : h[y] = h[z] => y = z
             into(a) == CHOOSE h : Good(h, a)
             h == [x \in Y |-> into(x[1][1])[x[2]]]
  <2>1. ASSUME NEW a PROVE Good(into(a), a)
    <3>1. \E j : Good(j, a)
      BY JoinedRowsApart DEF rows
    <3> HIDE DEF Good
    <3> QED BY <3>1
  <2>2. \A x \in Y : h[x] = into(x[1][1])[x[2]] /\ x[2] \in W(x[1][1]) /\ x \in Flat(A, p)
    OBVIOUS
  <2>3. DOMAIN h = Y /\ h = [x \in Y |-> h[x]]
    OBVIOUS
  <2> HIDE DEF h, into, W, Y
  <2>4. \A x \in Y : h[x] \in ExceptAll(C, D) /\ Restrict(h[x][1], on) = Restrict(x[1][1], on)
    BY <2>1, <2>2
  <2>5. \A x \in Y : x[1] \in Copies(A) /\ x = <<x[1], x[2]>>
    BY <1>3, <2>2
  <2>6. \A x, y \in Y : h[x] = h[y] /\ x[1] = y[1] => x = y
    <3> SUFFICES ASSUME NEW x \in Y, NEW y \in Y, h[x] = h[y], x[1] = y[1] PROVE x = y
      OBVIOUS
    <3>1. x[2] = y[2]
      BY <2>1, <2>2
    <3> QED BY <2>5, <3>1
  <2> HIDE DEF Good
  <2>7. ASSUME NEW w \in ExceptAll(C, D)
        PROVE  /\ IsFiniteSet({x \in Y : h[x] = w}) /\ Cardinality({x \in Y : h[x] = w}) <= m
    <3> DEFINE Z == {x \in Y : h[x] = w}
               G == CopiesOfGroup(A, on, Restrict(w[1], on))
               j == [x \in Z |-> x[1]]
    <3>1. j \in [Z -> G] /\ \A x, y \in Z : j[x] = j[y] => x = y
      BY <2>4, <2>5, <2>6 DEF CopiesOfGroup
    <3>2. IsFiniteSet(G) /\ Cardinality(G) <= m
      OBVIOUS
    <3> HIDE DEF Z, G, j
    <3>3. j \in Injection(Z, G)
      BY <3>1 DEF Injection, IsInjective
    <3>4. IsFiniteSet(Z) /\ Cardinality(Z) <= Cardinality(G)
      BY <3>2, <3>3, FS_Injection
    <3>5. Cardinality(Z) \in Nat /\ Cardinality(G) \in Nat
      BY <3>2, <3>4, FS_CardinalityType
    <3> QED BY <3>2, <3>4, <3>5 DEF Z
  <2>8. h \in [Y -> ExceptAll(C, D)]
    BY <2>3, <2>4
  <2>9. Fans(h, m, Y, ExceptAll(C, D))
    BY <2>7, <2>8 DEF Fans
  <2>10. IsFiniteSet(ExceptAll(C, D))
    BY RowsApartCount
  <2> QED BY <2>9, <2>10, FannedFinite
<1> HIDE DEF X, Y, F
<1>9. Cardinality(F) <= Cardinality(X) + Cardinality(Y)
  <2>1. /\ IsFiniteSet(X \cup Y)
        /\ Cardinality(X \cup Y) = Cardinality(X) + Cardinality(Y) - Cardinality(X \cap Y)
    BY <1>7, <1>8, FS_Union
  <2>2. Cardinality(X \cap Y) \in Nat
    BY <1>7, FS_Intersection, FS_CardinalityType
  <2>3. Cardinality(F) <= Cardinality(X \cup Y)
    BY <1>6, <2>1, FS_Subset
  <2>4. Cardinality(F) \in Nat
    BY <1>5, FS_CardinalityType
  <2> QED BY <1>7, <1>8, <2>1, <2>2, <2>3, <2>4
<1>10. Cardinality(E) \in Nat /\ Cardinality(F) \in Nat
  BY <1>5, FS_CardinalityType
<1>11. Cardinality(ExceptAll(A, B)) \in Nat /\ Cardinality(ExceptAll(C, D)) \in Nat
  BY RowsApartCount
<1> HIDE DEF E
<1>12. /\ Cardinality(E) <= n * Cardinality(ExceptAll(A, B)) + m * Cardinality(ExceptAll(C, D))
  <2>1. n * Cardinality(ExceptAll(A, B)) \in Nat /\ m * Cardinality(ExceptAll(C, D)) \in Nat
    BY <1>11
  <2> QED BY <1>5, <1>7, <1>8, <1>9, <1>10, <2>1
<1> QED BY <1>10, <1>12 DEF E, J, K

(* Joined tables change with either table: each copy that differs meets no *)
(* more copies than a group of the other table has.                        *)
LEMMA JoinedApart ==
  ASSUME NEW A, IsTable(A), NEW B, IsTable(B), NEW C, IsTable(C), NEW D, IsTable(D),
         NEW ls, NEW rs, NEW on, NEW nulls, NEW m \in Nat, NEW n \in Nat,
         \A T \in {A, B} : \A k : /\ IsFiniteSet(CopiesOfGroup(T, on, k))
                                  /\ Cardinality(CopiesOfGroup(T, on, k)) <= m,
         \A T \in {C, D} : \A k : /\ IsFiniteSet(CopiesOfGroup(T, on, k))
                                  /\ Cardinality(CopiesOfGroup(T, on, k)) <= n
  PROVE  RowsApart(Join(A, C, ls, rs, on, "inner", nulls), Join(B, D, ls, rs, on, "inner", nulls))
           <= n * RowsApart(A, B) + m * RowsApart(C, D)
<1> DEFINE J == Join(A, C, ls, rs, on, "inner", nulls)
           K == Join(B, D, ls, rs, on, "inner", nulls)
<1>1. /\ Cardinality(ExceptAll(J, K))
           <= n * Cardinality(ExceptAll(A, B)) + m * Cardinality(ExceptAll(C, D))
      /\ Cardinality(ExceptAll(J, K)) \in Nat
  BY JoinedExcept
<1>2. /\ Cardinality(ExceptAll(K, J))
           <= n * Cardinality(ExceptAll(B, A)) + m * Cardinality(ExceptAll(D, C))
      /\ Cardinality(ExceptAll(K, J)) \in Nat
  BY JoinedExcept
<1> HIDE DEF J, K
<1>3. /\ RowsApart(J, K) = Cardinality(ExceptAll(J, K)) + Cardinality(ExceptAll(K, J))
      /\ RowsApart(A, B) = Cardinality(ExceptAll(A, B)) + Cardinality(ExceptAll(B, A))
      /\ RowsApart(C, D) = Cardinality(ExceptAll(C, D)) + Cardinality(ExceptAll(D, C))
  BY DEF RowsApart
<1>4. /\ Cardinality(ExceptAll(A, B)) \in Nat /\ Cardinality(ExceptAll(B, A)) \in Nat
      /\ Cardinality(ExceptAll(C, D)) \in Nat /\ Cardinality(ExceptAll(D, C)) \in Nat
  BY RowsApartCount
<1>5. \A p, q \in Nat : \A c \in Nat : c * (p + q) = c * p + c * q /\ c * p \in Nat
  OBVIOUS
<1>6. /\ n * RowsApart(A, B) = n * Cardinality(ExceptAll(A, B)) + n * Cardinality(ExceptAll(B, A))
      /\ m * RowsApart(C, D) = m * Cardinality(ExceptAll(C, D)) + m * Cardinality(ExceptAll(D, C))
      /\ n * Cardinality(ExceptAll(A, B)) \in Nat /\ n * Cardinality(ExceptAll(B, A)) \in Nat
      /\ m * Cardinality(ExceptAll(C, D)) \in Nat /\ m * Cardinality(ExceptAll(D, C)) \in Nat
  BY <1>3, <1>4, <1>5
<1>7. RowsApart(J, K) <= n * RowsApart(A, B) + m * RowsApart(C, D)
  BY <1>1, <1>2, <1>3, <1>6
<1> QED BY <1>7 DEF J, K

(* The distance of tables by their rows.                                   *)
LEMMA RowsDistance ==
  ASSUME NEW L, IsTable(L), NEW R, IsTable(R)
  PROVE  /\ Apart(SymmetricDifference, L, R) = RowsApart(L, R) * RowsApart(L, R)
         /\ RowsApart(L, R) \in Nat /\ Comparable(SymmetricDifference, L, R)
<1> DEFINE m == SymmetricDifference
<1>1. m.base = "rows" /\ m.by = {} /\ m.each = {} /\ m.agg = "none"
  BY DEF SymmetricDifference, Metric
<1> HIDE DEF m
<1>2. /\ IsFiniteSet(Missing(m, L, R)) /\ Cardinality(Missing(m, L, R)) = Cardinality(ExceptAll(L, R))
      /\ IsFiniteSet(Missing(m, R, L)) /\ Cardinality(Missing(m, R, L)) = Cardinality(ExceptAll(R, L))
  BY <1>1, RowsMissing
<1>3. Differences(m, L, R) = Sides(Missing(m, L, R), Missing(m, R, L))
  BY <1>1 DEF Differences
<1>4. /\ IsFiniteSet(Differences(m, L, R))
      /\ Cardinality(Differences(m, L, R)) = RowsApart(L, R)
  BY <1>2, <1>3, SidesCount DEF RowsApart
<1>5. Apart(m, L, R) = Cardinality(Pairs(FALSE, Differences(m, L, R)))
  BY <1>1 DEF Apart
<1>6. Apart(m, L, R) = Square(RowsApart(L, R))
  BY <1>4, <1>5, SquareCounts
<1>7. RowsApart(L, R) \in Nat
  BY CopiesUnlike
<1>8. Square(RowsApart(L, R)) = RowsApart(L, R) * RowsApart(L, R)
  BY <1>7 DEF Square, Infinite
<1> QED BY <1>1, <1>6, <1>7, <1>8 DEF m, Comparable

LEMMA RootBounds ==
  ASSUME NEW b \in Nat, NEW n \in Nat, n * n <= b
  PROVE  n <= Root(b)
<1> DEFINE S == {i \in 0 .. b : i * i <= b}
<1>1. n <= n * n
  <2>1. CASE n = 0
    BY <2>1
  <2>2. CASE n >= 1
    <3>1. 1 * n <= n * n
      BY <2>2
    <3> QED BY <3>1
  <2> QED BY <2>1, <2>2
<1>2. n \in S
  BY <1>1
<1>3. S \in SUBSET Int /\ S # {} /\ b \in Int /\ \A x \in S : x <= b
  BY <1>2
<1>4. Root(b) = Max(S)
  BY DEF Root, Infinite
<1> HIDE DEF S
<1>5. \E i \in S : \A x \in S : x <= i
  BY <1>3, LargestExists
<1>6. \A x \in S : Max(S) >= x
  <2>1. \E i \in S : \A x \in S : i >= x
    BY <1>3, <1>5
  <2> QED BY <2>1 DEF Max
<1>7. Max(S) \in Int
  <2>1. \E i \in S : \A x \in S : i >= x
    BY <1>3, <1>5
  <2> QED BY <1>3, <2>1 DEF Max
<1> QED BY <1>2, <1>4, <1>6, <1>7

(* The rows of a table of a dictionary are apart by the root of its bound. *)
LEMMA RowsWithinRoot ==
  ASSUME NEW e, Sound(e), e.metric = SymmetricDifference, e.bound # Infinite,
         Within(Distance(e.metric, e.left, e.right), e.bound)
  PROVE  /\ RowsApart(e.left[<<>>], e.right[<<>>]) \in Nat
         /\ RowsApart(e.left[<<>>], e.right[<<>>]) <= Root(e.bound)
         /\ Root(e.bound) \in Nat
<1>1. IsMetric(SymmetricDifference) /\ SymmetricDifference.over = "table"
  BY DEF IsMetric, SymmetricDifference, Metric
<1>2. /\ DOMAIN e.left = {<<>>} /\ IsTable(e.left[<<>>]) /\ IsTable(e.right[<<>>])
      /\ e.bound \in Nat
  BY <1>1 DEF Sound, Legal
<1>3. Apart(SymmetricDifference, e.left[<<>>], e.right[<<>>]) <= e.bound
  BY <1>1, <1>2, WithinCounts
<1> DEFINE n == RowsApart(e.left[<<>>], e.right[<<>>])
<1>4. n \in Nat /\ n * n <= e.bound
  BY <1>2, <1>3, RowsDistance
<1> HIDE DEF n
<1>5. n <= Root(e.bound)
  BY <1>2, <1>4, RootBounds
<1>6. Root(e.bound) \in Nat
  <2>1. Root(e.bound) \in Nat \cup {Infinite}
    BY <1>2, RootType
  <2> QED BY <1>4, <1>5, <2>1 DEF Infinite
<1> QED BY <1>4, <1>5, <1>6 DEF n

LEMMA FiniteJoinBound ==
  ASSUME NEW s \in Strategies, NEW t \in Strategies, NEW d \in Nat \cup {Infinite},
         NEW e \in Nat \cup {Infinite}, JoinBound(s, t, d, e) # Infinite
  PROVE  /\ Truncates(s) /\ Truncates(t) /\ d \in Nat /\ e \in Nat
         /\ TruncationStrategyStability(s) \in Nat /\ TruncationStrategyStability(t) \in Nat
         /\ LET n == s.threshold * TruncationStrategyStability(t) * e
                       + t.threshold * TruncationStrategyStability(s) * d
            IN JoinBound(s, t, d, e) = n * n /\ n \in Nat
<1>1. s.threshold \in Nat \cup {Infinite} /\ t.threshold \in Nat \cup {Infinite}
  BY StrategiesAssumption
<1> DEFINE x == ChangesThrough(s, t, e)
           y == ChangesThrough(t, s, d)
           ss == TruncationStrategyStability(s)
           st == TruncationStrategyStability(t)
<1>2. Infinite \notin {x, y} /\ JoinBound(s, t, d, e) = Square(x + y)
  BY DEF JoinBound
<1>3. /\ Infinite \notin {s.threshold, st, e} /\ x = s.threshold * st * e
      /\ Infinite \notin {t.threshold, ss, d} /\ y = t.threshold * ss * d
  BY <1>2 DEF ChangesThrough, Product
<1>4. Truncates(s) /\ Truncates(t) /\ ss \in Nat /\ st \in Nat
  BY <1>1, <1>3 DEF Truncates, TruncationStrategyStability
<1>5. /\ s.threshold \in Nat /\ t.threshold \in Nat /\ d \in Nat /\ e \in Nat
  BY <1>1, <1>3
<1> HIDE DEF x, y, ss, st
<1>6. \A p, q, r \in Nat : p * q * r \in Nat
  <2> SUFFICES ASSUME NEW p \in Nat, NEW q \in Nat, NEW r \in Nat PROVE p * q * r \in Nat
    OBVIOUS
  <2>1. p * q \in Nat
    OBVIOUS
  <2> DEFINE pq == p * q
  <2> HIDE DEF pq
  <2>2. \A i, j \in Nat : i * j \in Nat
    OBVIOUS
  <2> QED BY <2>1, <2>2
<1>7. x \in Nat /\ y \in Nat
  BY <1>3, <1>4, <1>5, <1>6
<1>8. x + y \in Nat
  BY <1>7
<1>9. Square(x + y) = (x + y) * (x + y)
  BY <1>8 DEF Square, Infinite
<1> QED BY <1>2, <1>3, <1>4, <1>5, <1>8, <1>9 DEF ss, st

(* Of two tables, ranked together, what truncation leaves: groups within   *)
(* the threshold, and distances within the stability.                      *)
LEMMA BothTruncated ==
  ASSUME NEW s, Truncates(s), NEW T, IsTable(T), NEW U, IsTable(U), NEW on,
         NEW f \in Orders(Copies(T) \cup Copies(U)), NEW d \in Nat, RowsApart(T, U) <= d
  PROVE  /\ IsTable(Truncated(T, on, s, f)) /\ IsTable(Truncated(U, on, s, f))
         /\ \A V \in {Truncated(T, on, s, f), Truncated(U, on, s, f)} : \A k :
              /\ IsFiniteSet(CopiesOfGroup(V, on, k))
              /\ Cardinality(CopiesOfGroup(V, on, k)) <= s.threshold
         /\ RowsApart(Truncated(T, on, s, f), Truncated(U, on, s, f))
              <= TruncationStrategyStability(s) * d
<1>1. IsFiniteSet(Copies(T) \cup Copies(U))
  BY CopiesOfTable, FS_Union
<1> DEFINE S == Copies(T) \cup Copies(U)
<1>2. DOMAIN f = S /\ \A x \in S : f[x] \in Int
  BY <1>1, OrdersRankAll, OrdersRankInts
<1>3. /\ Copies(T) \subseteq DOMAIN f /\ \A x \in Copies(T) : f[x] \in Int
      /\ Copies(U) \subseteq DOMAIN f /\ \A x \in Copies(U) : f[x] \in Int
  BY <1>2
<1>4. /\ IsTable(Truncated(T, on, s, f)) /\ IsTable(Truncated(U, on, s, f))
      /\ \A k : /\ IsFiniteSet(CopiesOfGroup(Truncated(T, on, s, f), on, k))
                /\ Cardinality(CopiesOfGroup(Truncated(T, on, s, f), on, k)) <= s.threshold
                /\ IsFiniteSet(CopiesOfGroup(Truncated(U, on, s, f), on, k))
                /\ Cardinality(CopiesOfGroup(Truncated(U, on, s, f), on, k)) <= s.threshold
  BY <1>3, TruncatedGroups
<1>5. /\ TruncationStrategyStability(s) \in Nat
      /\ RowsApart(Truncated(T, on, s, f), Truncated(U, on, s, f))
           <= TruncationStrategyStability(s) * RowsApart(T, U)
  BY TruncationBounds
<1>6. /\ RowsApart(T, U) \in Nat
      /\ RowsApart(Truncated(T, on, s, f), Truncated(U, on, s, f)) \in Nat
  BY <1>4, CopiesUnlike
<1>8. /\ TruncationStrategyStability(s) * RowsApart(T, U) <= TruncationStrategyStability(s) * d
      /\ TruncationStrategyStability(s) * RowsApart(T, U) \in Nat
      /\ TruncationStrategyStability(s) * d \in Nat
  BY <1>5, <1>6, MultiplesGrow
<1>9. RowsApart(Truncated(T, on, s, f), Truncated(U, on, s, f))
        <= TruncationStrategyStability(s) * d
  BY <1>5, <1>6, <1>8
<1> QED BY <1>4, <1>9

(* PrivateJoin.stability_function: each table that has changed meets as    *)
(* many rows as the other's truncation lets through.                       *)
LEMMA TruncatedJoinBounds ==
  ASSUME NEW s \in Strategies, NEW t \in Strategies,
         NEW d \in Nat \cup {Infinite}, NEW e \in Nat \cup {Infinite},
         JoinBound(s, t, d, e) # Infinite,
         NEW A, IsTable(A), NEW B, IsTable(B), RowsApart(A, B) <= d,
         NEW C, IsTable(C), NEW D, IsTable(D), RowsApart(C, D) <= e,
         NEW on, NEW ls, NEW rs, NEW nulls,
         NEW f \in Orders(Copies(A) \cup Copies(B)),
         NEW g \in Orders(Copies(C) \cup Copies(D)),
         NEW J, IsTable(J), NEW K, IsTable(K),
         J = Join(Truncated(A, on, s, f), Truncated(C, on, t, g), ls, rs, on, "inner", nulls),
         K = Join(Truncated(B, on, s, f), Truncated(D, on, t, g), ls, rs, on, "inner", nulls)
  PROVE  Within(Distance(SymmetricDifference, One(J), One(K)), JoinBound(s, t, d, e))
<1> DEFINE ss == TruncationStrategyStability(s)
           st == TruncationStrategyStability(t)
           a == Truncated(A, on, s, f)
           b == Truncated(B, on, s, f)
           c == Truncated(C, on, t, g)
           h == Truncated(D, on, t, g)
           n == s.threshold * st * e + t.threshold * ss * d
<1>1. /\ Truncates(s) /\ Truncates(t) /\ d \in Nat /\ e \in Nat /\ ss \in Nat /\ st \in Nat
      /\ JoinBound(s, t, d, e) = n * n /\ n \in Nat
  BY FiniteJoinBound
<1>2. /\ IsTable(a) /\ IsTable(b) /\ RowsApart(a, b) <= ss * d
      /\ \A V \in {a, b} : \A k : /\ IsFiniteSet(CopiesOfGroup(V, on, k))
                                  /\ Cardinality(CopiesOfGroup(V, on, k)) <= s.threshold
  BY <1>1, BothTruncated
<1>3. /\ IsTable(c) /\ IsTable(h) /\ RowsApart(c, h) <= st * e
      /\ \A V \in {c, h} : \A k : /\ IsFiniteSet(CopiesOfGroup(V, on, k))
                                  /\ Cardinality(CopiesOfGroup(V, on, k)) <= t.threshold
  BY <1>1, BothTruncated
<1>4. s.threshold \in Nat /\ t.threshold \in Nat
  BY <1>1 DEF Truncates
<1>5. J = Join(a, c, ls, rs, on, "inner", nulls) /\ K = Join(b, h, ls, rs, on, "inner", nulls)
  OBVIOUS
<1> HIDE DEF a, b, c, h, ss, st
<1>6. RowsApart(J, K) <= t.threshold * RowsApart(a, b) + s.threshold * RowsApart(c, h)
  BY <1>2, <1>3, <1>4, <1>5, JoinedApart
<1>7. RowsApart(a, b) \in Nat /\ RowsApart(c, h) \in Nat /\ RowsApart(J, K) \in Nat
  BY <1>2, <1>3, CopiesUnlike
<1>9. ss * d \in Nat /\ st * e \in Nat
  BY <1>1
<1>10. /\ t.threshold * RowsApart(a, b) <= t.threshold * (ss * d)
       /\ t.threshold * RowsApart(a, b) \in Nat /\ t.threshold * (ss * d) \in Nat
       /\ s.threshold * RowsApart(c, h) <= s.threshold * (st * e)
       /\ s.threshold * RowsApart(c, h) \in Nat /\ s.threshold * (st * e) \in Nat
  BY <1>2, <1>3, <1>4, <1>7, <1>9, MultiplesGrow
<1>11. \A p, q, r \in Nat : p * (q * r) = p * q * r
  OBVIOUS
<1>12. /\ t.threshold * (ss * d) = t.threshold * ss * d
       /\ s.threshold * (st * e) = s.threshold * st * e
  BY <1>1, <1>4, <1>11
<1>13. RowsApart(J, K) <= n
  BY <1>6, <1>7, <1>10, <1>12
<1> HIDE DEF n
<1>14. RowsApart(J, K) * RowsApart(J, K) <= n * n
  BY <1>1, <1>7, <1>13, ProductOfBounds
<1>15. n * n \in Nat
  BY <1>1
<1>16. /\ DOMAIN One(J) = {<<>>} /\ One(J)[<<>>] = J /\ One(K)[<<>>] = K
  BY DEF One
<1>17. IsMetric(SymmetricDifference) /\ SymmetricDifference.over = "table"
  BY DEF IsMetric, SymmetricDifference, Metric
<1>18. /\ Apart(SymmetricDifference, J, K) <= n * n
       /\ Comparable(SymmetricDifference, J, K)
  BY <1>14, RowsDistance
<1>19. Within(Distance(SymmetricDifference, One(J), One(K)), n * n)
  BY <1>15, <1>16, <1>17, <1>18, WithinCounts
<1> QED BY <1>1, <1>19

-----------------------------------------------------------------------------
(* Chains through dictionaries *)

LEMMA KeysAreFinite ==
  ASSUME NEW d, IsFiniteSet(DOMAIN d),
         \A k \in DOMAIN d : IsTable(d[k].left[<<>>]) /\ IsTable(d[k].right[<<>>])
  PROVE  KeysFinite(d)
<1> DEFINE keys(T, c) == {r[c] : r \in DOMAIN T}
           f == [k \in DOMAIN d |-> keys(d[k].left[<<>>], KeyColumn(d[k]))]
           g == [k \in DOMAIN d |-> keys(d[k].right[<<>>], KeyColumn(d[k]))]
<1>1. ASSUME NEW T, NEW c, IsTable(T) PROVE IsFiniteSet(keys(T, c))
  <2>1. Range([r \in DOMAIN T |-> r[c]]) = keys(T, c)
    BY DEF Range
  <2>2. IsFiniteSet(DOMAIN T)
    BY <1>1 DEF IsTable, BagToSet
  <2> QED BY <2>1, <2>2, FiniteRange
<1>2. LeftKeys(d) = UNION Range(f) /\ RightKeys(d) = UNION Range(g)
  BY DEF LeftKeys, RightKeys, Range, BagToSet
<1> HIDE DEF keys
<1>3. DOMAIN f = DOMAIN d /\ DOMAIN g = DOMAIN d /\ \A k \in DOMAIN d : IsFiniteSet(f[k]) /\ IsFiniteSet(g[k])
  BY <1>1
<1> HIDE DEF f, g
<1>4. ASSUME NEW h, DOMAIN h = DOMAIN d, \A k \in DOMAIN d : IsFiniteSet(h[k])
      PROVE  IsFiniteSet(UNION Range(h))
  <2>1. IsFiniteSet(Range(h)) /\ \A T \in Range(h) : IsFiniteSet(T)
    BY <1>4, FiniteRange DEF Range
  <2> QED BY <2>1, FS_UNION
<1> QED BY <1>2, <1>3, <1>4 DEF KeysFinite

(* Tables with keys of others that stay the same where the others do.      *)
LEMMA KeysFollow ==
  ASSUME NEW d, KeysFinite(d), NEW e, KeysFinite(e),
         \A v : (\A k \in DOMAIN e : SameRows(e[k], v)) => \A k \in DOMAIN d : SameRows(d[k], v),
         \A v : v \in LeftKeys(d) => v \in LeftKeys(e),
         \A v : v \in RightKeys(d) => v \in RightKeys(e)
  PROVE  Square(KeysApart(d)) <= Square(KeysApart(e)) /\ Square(KeysApart(d)) \in Nat
<1>1. \A v : KeyDiffers(d, v) => KeyDiffers(e, v)
  BY DifferingKeys
<1>2. /\ Differing(d, LeftKeys(d)) \subseteq Differing(e, LeftKeys(e))
      /\ Differing(d, RightKeys(d)) \subseteq Differing(e, RightKeys(e))
  BY <1>1 DEF Differing
<1> QED BY <1>2, FewerKeysApart

(* What holds a dictionary, and with what the table in hand was made of.   *)
KeysFrom ==
  over = "keys" /\ from # NoKey /\ IsKeyMetric(metric) =>
    \A v : /\ HasKey(left[<<>>], KeyColumn(InHand), v)
                => HasKey(dict[from].left[<<>>], KeyColumn(dict[from]), v)
           /\ HasKey(right[<<>>], KeyColumn(InHand), v)
                => HasKey(dict[from].right[<<>>], KeyColumn(dict[from]), v)
DictDistances ==
  /\ IsFiniteSet(DOMAIN dict)
  /\ KeysFrom
  /\ DictStable

LEMMA NothingIsStable ==
  Within(Distance(SymmetricDifference, One(EmptyBag), One(EmptyBag)), 0)
<1> DEFINE m == SymmetricDifference
           l == EmptyBag
<1>1. IsTable(l)
  <2>1. l = SetToBag({})
    BY DEF EmptyBag
  <2> QED BY <2>1, FS_EmptySet, SetToBagIsTable
<1>2. /\ IsMetric(m) /\ m.over = "table" /\ m.base = "rows" /\ m.by = {} /\ m.each = {}
      /\ m.agg = "none"
  BY DEF IsMetric, SymmetricDifference, Metric
<1>3. DOMAIN One(l) = {<<>>} /\ One(l)[<<>>] = l
  BY DEF One
<1> HIDE DEF m, l
<1>4. Comparable(m, l, l)
  BY DEF Comparable
<1>5. ExceptAll(l, l) = {}
  BY DEF ExceptAll
<1>6. IsFiniteSet(Missing(m, l, l)) /\ Cardinality(Missing(m, l, l)) = 0
  BY <1>1, <1>2, <1>5, RowsMissing, FS_EmptySet
<1>7. IsFiniteSet(Differences(m, l, l)) /\ Cardinality(Differences(m, l, l)) = 0
  <2>1. Differences(m, l, l) = Sides(Missing(m, l, l), Missing(m, l, l))
    BY <1>2 DEF Differences
  <2> QED BY <1>6, <2>1, SidesCount
<1>8. Apart(m, l, l) = 0
  <2>1. Apart(m, l, l) = Cardinality(Pairs(FALSE, Differences(m, l, l)))
    BY <1>2 DEF Apart
  <2>2. Cardinality(Pairs(FALSE, Differences(m, l, l))) = Square(Cardinality(Differences(m, l, l)))
    BY <1>7, SquareCounts
  <2>3. Square(0) = 0
    BY DEF Square, Infinite
  <2> QED BY <1>7, <2>1, <2>2, <2>3
<1>9. Within(Distance(m, One(l), One(l)), 0)
  BY <1>1, <1>2, <1>3, <1>4, <1>8, WithinCounts
<1> QED BY <1>9 DEF m, l

LEMMA EndAtIsStable ==
  ASSUME NEW d, NEW o, EndAt(d, o), IsFiniteSet(DOMAIN d),
         o = "values" => \A k \in DOMAIN d : Within(Distance(d[k].metric, d[k].left, d[k].right), d[k].bound),
         o = "keys" => \A k \in DOMAIN d : Within(Square(KeysApart(d)), d[k].bound)
  PROVE  DictDistances'
<1>1. /\ dict' = d /\ over' = o /\ from' = NoKey /\ Hold(NothingInHand)
  BY DEF EndAt
<1>2. /\ metric' = SymmetricDifference /\ left' = One(EmptyBag) /\ right' = One(EmptyBag)
      /\ bound' = 0
  BY <1>1, EntryFields DEF NothingInHand, Hold
<1>3. Stable'
  BY <1>2, NothingIsStable DEF Stable
<1> QED BY <1>1, <1>3 DEF DictDistances, DictStable, KeysFrom

LEMMA LeaveForIsStable ==
  ASSUME NEW e, LeaveFor(e), Within(Distance(e.metric, e.left, e.right), e.bound)
  PROVE  DictDistances'
<1>1. /\ dict' = <<>> /\ over' = "values" /\ Hold(e)
  BY DEF LeaveFor
<1>2. DOMAIN dict' = {}
  BY <1>1
<1>3. Stable'
  BY <1>1 DEF Hold, Stable
<1> QED BY <1>1, <1>2, <1>3, FS_EmptySet DEF DictDistances, DictStable, KeysFrom

(* DictMetric: the values of a dictionary, one of them the chain in hand.  *)
LEMMA ValuesAreStable ==
  ASSUME DictInv, DictDistances, over = "values", NEW d, EndAt(d, over), IsFiniteSet(DOMAIN d),
         \A k \in DOMAIN d : d[k] = InHand \/ \E j \in DOMAIN dict : d[k] = dict[j]
  PROVE  DictDistances'
<1>1. Within(Distance(InHand.metric, InHand.left, InHand.right), InHand.bound)
  BY EntryFields DEF InHand, DictDistances, DictStable, Stable
<1>2. \A j \in DOMAIN dict :
        Within(Distance(dict[j].metric, dict[j].left, dict[j].right), dict[j].bound)
  BY DEF DictDistances, DictStable
<1> HIDE DEF InHand
<1>3. \A k \in DOMAIN d : Within(Distance(d[k].metric, d[k].left, d[k].right), d[k].bound)
  BY <1>1, <1>2
<1> QED BY <1>3, EndAtIsStable

LEMMA AugmentIsStable ==
  ASSUME DictInv, DictDistances, CopyAndTransformValue \/ TransformInPlace \/ RenameKey
  PROVE  DictDistances'
<1>1. over = "values" /\ IsFiniteSet(DOMAIN dict)
  BY DEF CopyAndTransformValue, TransformInPlace, RenameKey, DictDistances
<1>0. \A x : IsFiniteSet(DOMAIN dict \cup {x})
  BY <1>1, FS_AddElement
<1>2. CASE CopyAndTransformValue
  <2>1. PICK new \in DictKeys \ DOMAIN dict : EndAt(Extended(dict, Only(new, InHand)), over)
    BY <1>2 DEF CopyAndTransformValue, Augmented
  <2> HIDE DEF InHand
  <2>2. /\ DOMAIN Extended(dict, Only(new, InHand)) = DOMAIN dict \cup {new}
        /\ \A k \in DOMAIN dict : Extended(dict, Only(new, InHand))[k] = dict[k]
        /\ Extended(dict, Only(new, InHand))[new] = InHand
    BY DEF Extended, Only
  <2> DEFINE d == Extended(dict, Only(new, InHand))
  <2>3. /\ EndAt(d, over) /\ IsFiniteSet(DOMAIN d)
        /\ \A k \in DOMAIN d : d[k] = InHand \/ \E j \in DOMAIN dict : d[k] = dict[j]
    BY <1>0, <2>1, <2>2
  <2> HIDE DEF d
  <2> QED BY <1>1, <2>3, ValuesAreStable
<1>3. CASE TransformInPlace
  <2> DEFINE d == [dict EXCEPT ![from] = InHand]
  <2>1. EndAt(d, over) /\ from \in DOMAIN dict
    BY <1>3 DEF TransformInPlace, DictInv
  <2>2. DOMAIN d = DOMAIN dict /\ \A k \in DOMAIN d : d[k] = dict[k] \/ d[k] = InHand
    BY <2>1
  <2> HIDE DEF d, InHand
  <2>3. IsFiniteSet(DOMAIN d) /\ \A k \in DOMAIN d : d[k] = InHand \/ \E j \in DOMAIN dict : d[k] = dict[j]
    BY <1>1, <2>2
  <2> QED BY <1>1, <2>1, <2>3, ValuesAreStable
<1>4. CASE RenameKey
  <2> DEFINE d(key, new) == Extended(Restrict(dict, DOMAIN dict \ {key}), Only(new, dict[key]))
  <2>1. PICK key \in DOMAIN dict, new \in DictKeys \ DOMAIN dict : EndAt(d(key, new), over)
    BY <1>4 DEF RenameKey
  <2>2. /\ DOMAIN d(key, new) \subseteq DOMAIN dict \cup {new}
        /\ \A k \in DOMAIN d(key, new) : \E j \in DOMAIN dict : d(key, new)[k] = dict[j]
    BY DEF Extended, Restrict, Only, DictInv
  <2> HIDE DEF d, InHand
  <2>3. IsFiniteSet(DOMAIN d(key, new))
    BY <1>0, <2>2, FS_Subset
  <2> QED BY <1>1, <2>1, <2>2, <2>3, ValuesAreStable
<1> QED BY <1>2, <1>3, <1>4

LEMMA ApartKeys ==
  ASSUME DictInv, over = "keys", NEW k \in DOMAIN dict
  PROVE  /\ Sound(dict[k]) /\ IsKeyMetric(dict[k].metric) /\ dict[k].metric.over = "table"
         /\ DOMAIN dict[k].left = {<<>>} /\ DOMAIN dict[k].right = {<<>>}
         /\ IsTable(dict[k].left[<<>>]) /\ IsTable(dict[k].right[<<>>])
<1>1. Sound(dict[k]) /\ IsKeyMetric(dict[k].metric) /\ dict[k].metric.over = "table"
  BY DEF DictInv, KeysInv, SupportsKeys
<1> QED BY <1>1 DEF Sound, Legal

LEMMA KeysOfDict ==
  ASSUME DictInv, over = "keys", IsFiniteSet(DOMAIN dict)
  PROVE  KeysFinite(dict)
BY ApartKeys, KeysAreFinite

(* The bound of a dictionary bounds what is made of it.                    *)
LEMMA KeysAreStable ==
  ASSUME DictInv, DictDistances, over = "keys", NEW d, EndAt(d, over), IsFiniteSet(DOMAIN d),
         \A k \in DOMAIN d : /\ IsTable(d[k].left[<<>>]) /\ IsTable(d[k].right[<<>>])
                             /\ \E j \in DOMAIN dict : d[k].bound = dict[j].bound,
         \A v : (\A k \in DOMAIN dict : SameRows(dict[k], v)) =>
                  \A k \in DOMAIN d : SameRows(d[k], v),
         \A k \in DOMAIN d : \A v :
           /\ HasKey(d[k].left[<<>>], KeyColumn(d[k]), v) => v \in LeftKeys(dict)
           /\ HasKey(d[k].right[<<>>], KeyColumn(d[k]), v) => v \in RightKeys(dict)
  PROVE  DictDistances'
<1>1. KeysFinite(dict) /\ KeysFinite(d)
  BY KeysOfDict, KeysAreFinite DEF DictDistances
<1>2. \A v : (v \in LeftKeys(d) => v \in LeftKeys(dict)) /\ (v \in RightKeys(d) => v \in RightKeys(dict))
  BY KeysOfTables
<1>3. Square(KeysApart(d)) <= Square(KeysApart(dict)) /\ Square(KeysApart(d)) \in Nat
  BY <1>1, <1>2, KeysFollow
<1>4. Square(KeysApart(dict)) \in Nat
  BY <1>1, KeysFollow
<1>5. ASSUME NEW k \in DOMAIN d PROVE Within(Square(KeysApart(d)), d[k].bound)
  <2>1. PICK j \in DOMAIN dict : d[k].bound = dict[j].bound
    OBVIOUS
  <2>2. Within(Square(KeysApart(dict)), dict[j].bound)
    BY DEF DictDistances, DictStable
  <2>3. dict[j].bound \in Nat \cup {Infinite}
    BY ApartKeys DEF Sound
  <2> QED BY <1>3, <1>4, <2>1, <2>2, <2>3 DEF Within, Infinite
<1> QED BY <1>5, EndAtIsStable

LEMMA SubsetIsStable ==
  ASSUME DictInv, DictDistances, Subset
  PROVE  DictDistances'
<1>1. PICK keys \in (SUBSET DOMAIN dict) \ {{}} : EndAt(Restrict(dict, keys), over)
  BY DEF Subset
<1> DEFINE d == Restrict(dict, keys)
<1>2. DOMAIN d = keys /\ \A k \in keys : d[k] = dict[k]
  BY DEF Restrict
<1>3. EndAt(d, over) /\ IsFiniteSet(DOMAIN d)
  BY <1>1, <1>2, FS_Subset DEF DictDistances
<1> HIDE DEF d, InHand
<1>4. CASE over = "values"
  BY <1>2, <1>3, <1>4, ValuesAreStable
<1>5. CASE over = "keys"
  <2>1. \A k \in DOMAIN d : k \in DOMAIN dict /\ d[k] = dict[k]
    BY <1>2
  <2>2. \A k \in DOMAIN d : /\ IsTable(d[k].left[<<>>]) /\ IsTable(d[k].right[<<>>])
                            /\ \E j \in DOMAIN dict : d[k].bound = dict[j].bound
    BY <1>5, <2>1, ApartKeys
  <2>3. \A v : (\A k \in DOMAIN dict : SameRows(dict[k], v)) =>
                  \A k \in DOMAIN d : SameRows(d[k], v)
    BY <2>1
  <2>4. \A k \in DOMAIN d : \A v :
           /\ HasKey(d[k].left[<<>>], KeyColumn(d[k]), v) => v \in LeftKeys(dict)
           /\ HasKey(d[k].right[<<>>], KeyColumn(d[k]), v) => v \in RightKeys(dict)
    BY <2>1, KeysOfTables
  <2> QED BY ONLY DictInv, DictDistances, <1>3, <1>5, <2>2, <2>3, <2>4, KeysAreStable
<1> QED BY <1>4, <1>5 DEF DictInv

LEMMA TransformValueIsStable ==
  ASSUME DictInv, DictDistances, TransformValue
  PROVE  DictDistances'
<1> DEFINE e == [InHand EXCEPT !.bound = dict[from].bound]
<1>1. /\ from \in DOMAIN dict /\ over = "keys" /\ from # NoKey /\ IsKeyMetric(metric)
      /\ KeysInv /\ metric.over = "table"
  BY DEF TransformValue, DictInv, KeysInv
<1>2. /\ e.metric = InHand.metric /\ e.left = InHand.left /\ e.right = InHand.right
      /\ e.bound = dict[from].bound
  BY EntryFields DEF InHand
<1>3. InHand.left = left /\ InHand.right = right
  BY EntryFields DEF InHand
<1>4. PICK new \in DictKeys \ DOMAIN dict : EndAt(Extended(dict, Only(new, e)), over)
  BY DEF TransformValue, Augmented
<1> HIDE DEF e, InHand
<1> DEFINE d == Extended(dict, Only(new, e))
<1>5. /\ DOMAIN d = DOMAIN dict \cup {new}
      /\ \A k \in DOMAIN d : d[k] = e \/ (k \in DOMAIN dict /\ d[k] = dict[k])
  BY DEF Extended, Only
<1>6. EndAt(d, over) /\ IsFiniteSet(DOMAIN d)
  BY <1>4, <1>5, FS_AddElement DEF DictDistances
<1>7. KeyColumn(e) = KeyColumn(InHand)
  BY <1>2 DEF KeyColumn
<1> HIDE DEF d
<1>8. IsTable(e.left[<<>>]) /\ IsTable(e.right[<<>>])
  BY <1>1, <1>2, <1>3, TablesInHand DEF DictInv
<1>9. \A v : (\A k \in DOMAIN dict : SameRows(dict[k], v)) => SameRows(e, v)
  <2>1. \A v : SameRows(dict[from], v) => SameRows(InHand, v)
    BY <1>1 DEF KeysInv
  <2> QED BY <1>1, <1>2, <1>7, <2>1 DEF SameRows
<1>10. \A v : /\ HasKey(e.left[<<>>], KeyColumn(e), v) => v \in LeftKeys(dict)
              /\ HasKey(e.right[<<>>], KeyColumn(e), v) => v \in RightKeys(dict)
  BY <1>1, <1>2, <1>3, <1>7, KeysOfTables DEF DictDistances, KeysFrom
<1>11. \A k \in DOMAIN d : /\ IsTable(d[k].left[<<>>]) /\ IsTable(d[k].right[<<>>])
                           /\ \E j \in DOMAIN dict : d[k].bound = dict[j].bound
  BY <1>1, <1>2, <1>5, <1>8, ApartKeys
<1>12. \A v : (\A k \in DOMAIN dict : SameRows(dict[k], v)) => \A k \in DOMAIN d : SameRows(d[k], v)
  BY <1>5, <1>9
<1>13. \A k \in DOMAIN d : \A v :
           /\ HasKey(d[k].left[<<>>], KeyColumn(d[k]), v) => v \in LeftKeys(dict)
           /\ HasKey(d[k].right[<<>>], KeyColumn(d[k]), v) => v \in RightKeys(dict)
  BY <1>5, <1>10, KeysOfTables
<1> QED BY ONLY DictInv, DictDistances, <1>1, <1>6, <1>11, <1>12, <1>13, KeysAreStable

LEMMA PrivateJoinOnKeyIsStable ==
  ASSUME DictInv, DictDistances, PrivateJoinOnKey
  PROVE  DictDistances'
<1> DEFINE E(k, l, on, nulls) ==
             Entry(JoinedSchema(k, l, on, nulls), dict[k].metric,
                   JoinedTable(dict[k].left[<<>>], dict[l].left[<<>>], k, l, on, nulls),
                   JoinedTable(dict[k].right[<<>>], dict[l].right[<<>>], k, l, on, nulls),
                   dict[k].bound)
<1>1. PICK k \in DOMAIN dict : \E l \in DOMAIN dict \ {k} :
        \E on \in SUBSET (DOMAIN dict[k].schema \cap DOMAIN dict[l].schema),
           new \in DictKeys, nulls \in BOOLEAN :
          /\ CanJoinKeys(k, l, on) /\ JoinsKeys(k, l, on)
          /\ EndAt(Extended(Only(new, E(k, l, on, nulls)), dict), over)
  BY DEF PrivateJoinOnKey
<1>2. PICK l \in DOMAIN dict \ {k} :
        \E on \in SUBSET (DOMAIN dict[k].schema \cap DOMAIN dict[l].schema),
           new \in DictKeys, nulls \in BOOLEAN :
          /\ CanJoinKeys(k, l, on) /\ JoinsKeys(k, l, on)
          /\ EndAt(Extended(Only(new, E(k, l, on, nulls)), dict), over)
  BY <1>1
<1>3. PICK on \in SUBSET (DOMAIN dict[k].schema \cap DOMAIN dict[l].schema),
           new \in DictKeys, nulls \in BOOLEAN :
        /\ CanJoinKeys(k, l, on) /\ JoinsKeys(k, l, on)
        /\ EndAt(Extended(Only(new, E(k, l, on, nulls)), dict), over)
  BY <1>2
<1>4. over = "keys" /\ KeysInv
  BY DEF PrivateJoinOnKey, DictInv
<1>5. \A j \in DOMAIN dict : /\ Sound(dict[j])
                             /\ Legal(dict[j].left[<<>>], dict[j].schema)
                             /\ Legal(dict[j].right[<<>>], dict[j].schema)
  <2>1. \A j \in DOMAIN dict : dict[j].metric.over = "table" /\ Sound(dict[j])
    BY <1>4 DEF KeysInv, DictInv
  <2> QED BY <2>1 DEF Sound
<1> DEFINE e == E(k, l, on, nulls)
           d == Extended(Only(new, e), dict)
           J(T, U) == Join(T, U, DOMAIN dict[k].schema, DOMAIN dict[l].schema, on, "inner", nulls)
<1>6. \A v : (\A j \in DOMAIN dict : SameRows(dict[j], v)) => SameRows(e, v)
  <2>1. ASSUME NEW v, \A j \in DOMAIN dict : SameRows(dict[j], v) PROVE SameRows(e, v)
    <3>1. l \in DOMAIN dict /\ CanJoinKeys(k, l, on) /\ JoinsKeys(k, l, on)
      BY <1>3
    <3> QED BY ONLY DictInv, <1>4, <2>1, <3>1, k \in DOMAIN dict, nulls \in BOOLEAN, JoinedKeyRowsStay
  <2> QED BY <2>1
<1>7. /\ JoinedTable(dict[k].left[<<>>], dict[l].left[<<>>], k, l, on, nulls)
           = One(J(dict[k].left[<<>>], dict[l].left[<<>>]))
      /\ JoinedTable(dict[k].right[<<>>], dict[l].right[<<>>], k, l, on, nulls)
           = One(J(dict[k].right[<<>>], dict[l].right[<<>>]))
  BY DEF JoinedTable
<1> HIDE DEF J
<1>8. /\ e.left[<<>>] = J(dict[k].left[<<>>], dict[l].left[<<>>])
      /\ e.right[<<>>] = J(dict[k].right[<<>>], dict[l].right[<<>>])
      /\ e.metric = dict[k].metric /\ e.bound = dict[k].bound
  BY <1>7, EntryFields DEF One
<1>9. EndAt(d, over)
  BY <1>3
<1> HIDE DEF e
<1>10. /\ DOMAIN d = DOMAIN dict \cup {new}
       /\ \A j \in DOMAIN d : d[j] = e \/ (j \in DOMAIN dict /\ d[j] = dict[j])
  BY DEF Extended, Only
<1> HIDE DEF d
<1>11. IsFiniteSet(DOMAIN d)
  BY <1>10, FS_AddElement DEF DictDistances
<1>12. KeyColumn(e) = KeyColumn(dict[k])
  BY <1>8 DEF KeyColumn
<1> DEFINE c == KeyColumn(dict[k])
<1>13. Joinable(dict[k].schema, dict[l].schema, on)
  BY <1>3, <1>5 DEF Joinable, CanJoinKeys, Sound
<1>14. c \in on /\ {c} \in SUBSET DOMAIN dict[k].schema
  BY <1>3, <1>4 DEF JoinsKeys, KeysInv, SupportsKeys
<1> HIDE DEF c
<1>15. ASSUME NEW T, NEW U, Legal(T, dict[k].schema), Legal(U, dict[l].schema)
       PROVE  IsTable(J(T, U)) /\ MadeOf(J(T, U), T, {c})
  <2>1. \A x \in {c} : x \in on \/ x \notin DOMAIN dict[l].schema
    BY <1>14
  <2>2. MadeOf(J(T, U), T, {c})
    BY <1>13, <1>14, <1>15, <2>1, JoinedKeys DEF J
  <2>3. IsTable(J(T, U))
    BY <1>13, <1>15, JoinIsLegal DEF J, Legal
  <2> QED BY <2>2, <2>3
<1>16. /\ IsTable(e.left[<<>>]) /\ MadeOf(e.left[<<>>], dict[k].left[<<>>], {c})
       /\ IsTable(e.right[<<>>]) /\ MadeOf(e.right[<<>>], dict[k].right[<<>>], {c})
  BY <1>5, <1>8, <1>15
<1>17. \A v : /\ HasKey(e.left[<<>>], KeyColumn(e), v) => v \in LeftKeys(dict)
              /\ HasKey(e.right[<<>>], KeyColumn(e), v) => v \in RightKeys(dict)
  BY <1>12, <1>16, KeysOfTables DEF HasKey, MadeOf, c
<1>18. \A j \in DOMAIN d : /\ IsTable(d[j].left[<<>>]) /\ IsTable(d[j].right[<<>>])
                           /\ \E i \in DOMAIN dict : d[j].bound = dict[i].bound
  BY <1>4, <1>8, <1>10, <1>16, ApartKeys
<1>19. \A v : (\A j \in DOMAIN dict : SameRows(dict[j], v)) => \A j \in DOMAIN d : SameRows(d[j], v)
  BY <1>6, <1>10
<1>20. \A j \in DOMAIN d : \A v :
           /\ HasKey(d[j].left[<<>>], KeyColumn(d[j]), v) => v \in LeftKeys(dict)
           /\ HasKey(d[j].right[<<>>], KeyColumn(d[j]), v) => v \in RightKeys(dict)
  BY <1>10, <1>17, KeysOfTables
<1> QED BY ONLY DictInv, DictDistances, <1>4, <1>9, <1>11, <1>18, <1>19, <1>20, KeysAreStable

(* A table of its own has the distance of its keys.                        *)
LEMMA OnlyKeyApart ==
  ASSUME NEW e, Sound(e), IsKeyMetric(e.metric), e.metric.over = "table",
         NEW k, NEW d, DOMAIN d = {k}, d[k] = e
  PROVE  /\ Within(Distance(e.metric, e.left, e.right), e.bound)
              <=> Within(Square(KeysApart(d)), e.bound)
         /\ KeysFinite(d) /\ Square(KeysApart(d)) \in Nat
<1>1. /\ DOMAIN e.left = {<<>>} /\ IsTable(e.left[<<>>]) /\ IsTable(e.right[<<>>])
      /\ IsMetric(e.metric) /\ e.bound \in Nat \cup {Infinite}
  BY DEF Sound, Legal
<1>2. Apart(e.metric, e.left[<<>>], e.right[<<>>]) = Square(KeysApart(d)) /\ KeysFinite(d)
  BY KeyApart
<1>3. Square(KeysApart(d)) \in Nat
  BY <1>1, <1>2, ApartType
<1>4. Comparable(e.metric, e.left[<<>>], e.right[<<>>])
  BY DEF Comparable, IsKeyMetric
<1>5. Within(Distance(e.metric, e.left, e.right), e.bound)
        <=> e.bound = Infinite \/ Square(KeysApart(d)) <= e.bound
  BY <1>1, <1>2, <1>4, WithinCounts
<1>6. Within(Square(KeysApart(d)), e.bound)
        <=> e.bound = Infinite \/ Square(KeysApart(d)) <= e.bound
  BY <1>3 DEF Within, Infinite
<1> QED BY <1>2, <1>3, <1>5, <1>6

LEMMA CreateDictIsStable ==
  ASSUME DictInv, DictDistances, CreateDictFromValue
  PROVE  DictDistances'
<1>1. PICK key \in DictKeys, o \in {"values", "keys"} :
        /\ EndAt(Only(key, InHand), o)
        /\ o = "keys" => IsKeyMetric(metric)
  BY DEF CreateDictFromValue
<1>2. InHand.metric = metric /\ metric.over = "table"
  BY EntryFields DEF InHand, CreateDictFromValue
<1>3. Within(Distance(InHand.metric, InHand.left, InHand.right), InHand.bound)
  BY EntryFields DEF InHand, DictDistances, DictStable, Stable
<1>4. Sound(InHand)
  BY InHandIsSound DEF DictInv
<1> HIDE DEF InHand
<1> DEFINE d == Only(key, InHand)
<1>5. DOMAIN d = {key} /\ d[key] = InHand /\ EndAt(d, o)
  BY <1>1 DEF Only
<1> HIDE DEF d
<1>6. IsFiniteSet(DOMAIN d)
  BY <1>5, FS_Singleton
<1>7. \A k \in DOMAIN d : Within(Distance(d[k].metric, d[k].left, d[k].right), d[k].bound)
  BY <1>3, <1>5
<1>8. o = "keys" => \A k \in DOMAIN d : Within(Square(KeysApart(d)), d[k].bound)
  BY <1>1, <1>2, <1>3, <1>4, <1>5, OnlyKeyApart
<1> QED BY <1>5, <1>6, <1>7, <1>8, EndAtIsStable

LEMMA GetValueIsStable ==
  ASSUME DictInv, DictDistances, GetValue
  PROVE  DictDistances'
<1>1. PICK key \in DOMAIN dict : from' = key /\ Hold(dict[key])
  BY DEF GetValue
<1>2. dict' = dict /\ over' = over
  BY DEF GetValue
<1>3. /\ metric' = dict[key].metric /\ bound' = dict[key].bound
      /\ left' = dict[key].left /\ right' = dict[key].right
  BY <1>1 DEF Hold
<1>4. Within(Distance(dict[key].metric, dict[key].left, dict[key].right), dict[key].bound)
  <2>1. CASE over = "values"
    BY <2>1 DEF DictDistances, DictStable
  <2>2. CASE over = "keys"
    <3> DEFINE d == Restrict(dict, {key})
    <3>1. DOMAIN d = {key} /\ d[key] = dict[key]
      BY DEF Restrict
    <3> HIDE DEF d
    <3>2. /\ Sound(dict[key]) /\ IsKeyMetric(dict[key].metric) /\ dict[key].metric.over = "table"
      BY <2>2, ApartKeys
    <3>3. /\ Within(Distance(dict[key].metric, dict[key].left, dict[key].right), dict[key].bound)
               <=> Within(Square(KeysApart(d)), dict[key].bound)
          /\ KeysFinite(d) /\ Square(KeysApart(d)) \in Nat
      BY <3>1, <3>2, OnlyKeyApart
    <3>4. KeysFinite(dict)
      BY <2>2, KeysOfDict DEF DictDistances
    <3>5. /\ \A v : v \in LeftKeys(d) => v \in LeftKeys(dict)
          /\ \A v : v \in RightKeys(d) => v \in RightKeys(dict)
      BY <3>1, KeysOfTables
    <3>6. Square(KeysApart(d)) <= Square(KeysApart(dict))
      BY <3>1, <3>3, <3>4, <3>5, KeysFollow
    <3>7. Square(KeysApart(dict)) \in Nat
      BY <3>4, KeysFollow
    <3>8. Within(Square(KeysApart(dict)), dict[key].bound)
      BY <2>2 DEF DictDistances, DictStable
    <3>9. dict[key].bound \in Nat \cup {Infinite}
      BY <3>2 DEF Sound
    <3> QED BY <3>3, <3>6, <3>7, <3>8, <3>9 DEF Within, Infinite
  <2> QED BY <2>1, <2>2 DEF DictInv
<1>5. Stable'
  BY <1>3, <1>4 DEF Stable
<1>6. DictStable'
  <2>1. LeftKeys(dict)' = LeftKeys(dict') /\ KeysApart(dict)' = KeysApart(dict')
    BY DEF LeftKeys, KeysApart, RightKeys, KeyDiffers, KeyColumn
  <2> QED BY <1>2, <1>5, <2>1 DEF DictDistances, DictStable
<1>7. KeysFrom'
  <2>1. /\ InHand'.metric = dict[key].metric
        /\ left' = dict[key].left /\ right' = dict[key].right
    BY <1>3, EntryFields DEF InHand
  <2>2. KeyColumn(InHand') = KeyColumn(dict[key])
    BY <2>1 DEF KeyColumn
  <2>3. KeyColumn(InHand)' = KeyColumn(InHand')
    BY DEF KeyColumn
  <2>4. KeyColumn(dict[from])' = KeyColumn(dict[key])
    BY <1>1, <1>2 DEF KeyColumn
  <2> HIDE DEF InHand
  <2> QED BY <1>1, <1>2, <2>1, <2>2, <2>3, <2>4 DEF KeysFrom, HasKey
<1> QED BY <1>2, <1>6, <1>7 DEF DictDistances

LEMMA ValueStepIsStable ==
  ASSUME UserFunctions, PublicRows, UnwrapsRows, DictInv, DictDistances, ValueStep, Careful
  PROVE  DictDistances'
<1>1. /\ Next /\ dict' = dict /\ over' = over /\ from' = from
      /\ over = "keys" /\ from # NoKey /\ IsKeyMetric(metric)
  BY ValueStepIsStep
<1>2. TableInv /\ Stable /\ metric.over = "table"
  BY <1>1 DEF DictInv, KeysInv, DictDistances, DictStable
<1>3. Stable'
  BY <1>1, <1>2, StepIsStable
<1>4. DictStable'
  BY <1>1, <1>3 DEF DictDistances, DictStable
<1>5. KeysFrom'
  <2>1. \A v : /\ HasKey(left'[<<>>], KeyColumn(InHand'), v) => HasKey(left[<<>>], KeyColumn(InHand), v)
               /\ HasKey(right'[<<>>], KeyColumn(InHand'), v) => HasKey(right[<<>>], KeyColumn(InHand), v)
    BY <1>2, NoNewKeys
  <2>2. KeyColumn(InHand)' = KeyColumn(InHand') /\ KeyColumn(dict[from])' = KeyColumn(dict[from])
    BY <1>1 DEF KeyColumn
  <2> QED BY <1>1, <2>1, <2>2 DEF KeysFrom, DictDistances, HasKey
<1> QED BY <1>1, <1>4, <1>5 DEF DictDistances

LEMMA TableStepIsStable ==
  ASSUME UserFunctions, PublicRows, UnwrapsRows, DictInv, DictDistances, TableStep, Careful
  PROVE  DictDistances'
<1>1. /\ Next /\ dict' = dict /\ over' = over /\ from' = from /\ over = "values"
  BY DEF TableStep
<1>2. Stable'
  BY <1>1, StepIsStable DEF DictInv, DictDistances, DictStable
<1>3. DictStable'
  BY <1>1, <1>2 DEF DictDistances, DictStable
<1> QED BY <1>1, <1>3 DEF DictDistances, KeysFrom

(* The bound of a dictionary is no part of its distance.                   *)
LEMMA SameKeysApart ==
  ASSUME NEW d, NEW e, DOMAIN d = DOMAIN e,
         \A k \in DOMAIN d : /\ d[k].metric = e[k].metric
                             /\ d[k].left = e[k].left /\ d[k].right = e[k].right
  PROVE  KeysApart(d) = KeysApart(e)
<1>1. \A k \in DOMAIN d : KeyColumn(d[k]) = KeyColumn(e[k])
  BY DEF KeyColumn
<1>2. \A v : /\ v \in LeftKeys(d) <=> v \in LeftKeys(e)
             /\ v \in RightKeys(d) <=> v \in RightKeys(e)
  BY <1>1, KeysOfTables
<1>3. LeftKeys(d) = LeftKeys(e) /\ RightKeys(d) = RightKeys(e)
  BY <1>2
<1>4. \A v : KeyDiffers(d, v) <=> KeyDiffers(e, v)
  BY <1>1 DEF KeyDiffers
<1>5. {v \in LeftKeys(d) \cap RightKeys(d) : KeyDiffers(d, v)}
        = {v \in LeftKeys(e) \cap RightKeys(e) : KeyDiffers(e, v)}
  BY <1>3, <1>4
<1> QED BY <1>3, <1>5 DEF KeysApart

LEMMA InitialDictIsStable ==
  ASSUME DictInit
  PROVE  DictDistances
<1>1. from = NoKey
  BY DEF DictInit
<1>2. CASE Init /\ dict = <<>> /\ over = "values"
  <2>1. DOMAIN dict = {}
    BY <1>2
  <2> QED BY <1>1, <1>2, <2>1, InitialStable, FS_EmptySet DEF DictDistances, DictStable, KeysFrom
<1> DEFINE d(in, L, R) == Neighbours(in, L, R)
<1>3. CASE \E in \in DictInputs : \E L, R \in TablesOf(in) :
             /\ over = in.over
             /\ dict = IF over = "values" THEN d(in, L, R)
                       ELSE [k \in DOMAIN d(in, L, R) |->
                               [d(in, L, R)[k] EXCEPT !.bound = Square(KeysApart(d(in, L, R)))]]
             /\ \A k \in DOMAIN d(in, L, R) : dict[k].bound \in 0 .. in.apart
             /\ schema = <<>> /\ metric = SymmetricDifference
             /\ left = One(EmptyBag) /\ right = One(EmptyBag)
             /\ bound = 0 /\ steps = 0
  <2>1. PICK in \in DictInputs : \E L, R \in TablesOf(in) :
             /\ over = in.over
             /\ dict = IF over = "values" THEN d(in, L, R)
                       ELSE [k \in DOMAIN d(in, L, R) |->
                               [d(in, L, R)[k] EXCEPT !.bound = Square(KeysApart(d(in, L, R)))]]
             /\ \A k \in DOMAIN d(in, L, R) : dict[k].bound \in 0 .. in.apart
             /\ schema = <<>> /\ metric = SymmetricDifference
             /\ left = One(EmptyBag) /\ right = One(EmptyBag)
             /\ bound = 0 /\ steps = 0
    BY <1>3
  <2>2. PICK L \in TablesOf(in), R \in TablesOf(in) :
             /\ over = in.over
             /\ dict = IF over = "values" THEN d(in, L, R)
                       ELSE [k \in DOMAIN d(in, L, R) |->
                               [d(in, L, R)[k] EXCEPT !.bound = Square(KeysApart(d(in, L, R)))]]
             /\ \A k \in DOMAIN d(in, L, R) : dict[k].bound \in 0 .. in.apart
             /\ schema = <<>> /\ metric = SymmetricDifference
             /\ left = One(EmptyBag) /\ right = One(EmptyBag)
             /\ bound = 0 /\ steps = 0
    BY <2>1
  <2> DEFINE N == d(in, L, R)
             all == Square(KeysApart(N))
             t(k) == in.tables[k]
  <2>3. /\ DOMAIN N = DOMAIN in.tables
        /\ \A k \in DOMAIN N :
             N[k] = Entry(t(k).schema, t(k).metric, One(L[k]), One(R[k]),
                          Distance(t(k).metric, One(L[k]), One(R[k])))
    BY Zenon DEF Neighbours
  <2>4. /\ over = "values" => dict = N
        /\ over # "values" => dict = [k \in DOMAIN N |-> [N[k] EXCEPT !.bound = all]]
        /\ \A k \in DOMAIN N : dict[k].bound \in 0 .. in.apart
    BY <2>2
  <2>5. Stable
    BY <2>2, NothingIsStable DEF Stable
  <2>6. over \in {"values", "keys"}
    BY <2>2, DictInputsAssumption
  <2> HIDE DEF N, all, t
  <2>7. DOMAIN dict = DOMAIN N /\ IsFiniteSet(DOMAIN dict)
    BY <2>3, <2>4, DictInputsAssumption
  <2>8. ASSUME over = "values", NEW k \in DOMAIN dict
        PROVE  Within(Distance(dict[k].metric, dict[k].left, dict[k].right), dict[k].bound)
    <3>1. dict[k].bound = Distance(dict[k].metric, dict[k].left, dict[k].right)
      BY <2>3, <2>4, <2>7, <2>8, EntryFields
    <3>2. dict[k].bound # Infinite /\ dict[k].bound <= dict[k].bound
      BY <2>4, <2>7 DEF Infinite
    <3> QED BY <3>1, <3>2 DEF Within
  <2>9. ASSUME over = "keys", NEW k \in DOMAIN dict
        PROVE  Within(Square(KeysApart(dict)), dict[k].bound)
    <3>1. \A j \in DOMAIN dict : dict[j] = [N[j] EXCEPT !.bound = all]
      BY <2>4, <2>7, <2>9
    <3>2. ASSUME NEW j \in DOMAIN dict
          PROVE  /\ dict[j].metric = N[j].metric /\ dict[j].left = N[j].left
                 /\ dict[j].right = N[j].right /\ dict[j].bound = all
      <4>1. PICK b : N[j] = Entry(t(j).schema, t(j).metric, One(L[j]), One(R[j]), b)
        BY <2>3, <2>7
      <4>2. dict[j] = Entry(t(j).schema, t(j).metric, One(L[j]), One(R[j]), all)
        BY <3>1, <4>1 DEF Entry
      <4> QED BY <4>1, <4>2, EntryFields
    <3>3. KeysApart(dict) = KeysApart(N)
      BY <2>7, <3>2, SameKeysApart
    <3>4. dict[k].bound = Square(KeysApart(dict))
      BY <3>2, <3>3 DEF all
    <3>5. dict[k].bound # Infinite /\ dict[k].bound <= dict[k].bound
      BY <2>4, <2>7 DEF Infinite
    <3> QED BY <3>4, <3>5 DEF Within
  <2> QED BY <1>1, <2>5, <2>6, <2>7, <2>8, <2>9 DEF DictDistances, DictStable, KeysFrom
<1> QED BY <1>2, <1>3 DEF DictInit

LEMMA PrivateJoinIsStable ==
  ASSUME DictInv, DictDistances, PrivateJoin
  PROVE  DictDistances'
<1> DEFINE T(k, on, s, f) == Truncated(dict[k].left[<<>>], on, s, f)
           V(k, on, s, f) == Truncated(dict[k].right[<<>>], on, s, f)
           J(k, l, on, s, t, f, g, nulls) ==
             Join(T(k, on, s, f), T(l, on, t, g), DOMAIN dict[k].schema, DOMAIN dict[l].schema,
                  on, "inner", nulls)
           K(k, l, on, s, t, f, g, nulls) ==
             Join(V(k, on, s, f), V(l, on, t, g), DOMAIN dict[k].schema, DOMAIN dict[l].schema,
                  on, "inner", nulls)
           E(k, l, on, s, t, f, g, nulls) ==
             Entry(JoinedSchema(k, l, on, nulls), SymmetricDifference,
                   One(J(k, l, on, s, t, f, g, nulls)), One(K(k, l, on, s, t, f, g, nulls)),
                   JoinBound(s, t, Root(dict[k].bound), Root(dict[l].bound)))
<1>1. PICK k \in DOMAIN dict : \E l \in DOMAIN dict \ {k} :
        \E on \in SUBSET (DOMAIN dict[k].schema \cap DOMAIN dict[l].schema),
           s, t \in Strategies, nulls \in BOOLEAN :
          /\ CanJoinKeys(k, l, on)
          /\ \E f \in Orders(BothTables(k)), g \in Orders(BothTables(l)) :
               LeaveFor(E(k, l, on, s, t, f, g, nulls))
  BY DEF PrivateJoin, JoinedTable
<1>2. PICK l \in DOMAIN dict \ {k} :
        \E on \in SUBSET (DOMAIN dict[k].schema \cap DOMAIN dict[l].schema),
           s, t \in Strategies, nulls \in BOOLEAN :
          /\ CanJoinKeys(k, l, on)
          /\ \E f \in Orders(BothTables(k)), g \in Orders(BothTables(l)) :
               LeaveFor(E(k, l, on, s, t, f, g, nulls))
  BY <1>1
<1>3. PICK on \in SUBSET (DOMAIN dict[k].schema \cap DOMAIN dict[l].schema),
           s, t \in Strategies, nulls \in BOOLEAN :
        /\ CanJoinKeys(k, l, on)
        /\ \E f \in Orders(BothTables(k)), g \in Orders(BothTables(l)) :
             LeaveFor(E(k, l, on, s, t, f, g, nulls))
  BY <1>2
<1>4. PICK f \in Orders(BothTables(k)), g \in Orders(BothTables(l)) :
        LeaveFor(E(k, l, on, s, t, f, g, nulls))
  BY <1>3
<1>5. ASSUME NEW j \in DOMAIN dict
      PROVE  /\ Sound(dict[j]) /\ dict[j].metric = SymmetricDifference
             /\ Legal(dict[j].left[<<>>], dict[j].schema)
             /\ Legal(dict[j].right[<<>>], dict[j].schema)
             /\ Within(Distance(dict[j].metric, dict[j].left, dict[j].right), dict[j].bound)
             /\ dict[j].bound \in Nat \cup {Infinite}
  <2>1. dict[j].metric = SymmetricDifference /\ over = "values"
    BY DEF PrivateJoin
  <2>2. dict[j].metric.over = "table"
    BY <2>1 DEF SymmetricDifference, Metric
  <2>3. Within(Distance(dict[j].metric, dict[j].left, dict[j].right), dict[j].bound)
    BY <2>1 DEF DictDistances, DictStable
  <2> QED BY <2>1, <2>2, <2>3 DEF DictInv, Sound
<1>6. /\ Legal(T(k, on, s, f), dict[k].schema) /\ Legal(T(l, on, t, g), dict[l].schema)
      /\ Legal(V(k, on, s, f), dict[k].schema) /\ Legal(V(l, on, t, g), dict[l].schema)
  BY <1>5, TruncatedIsLegal
<1>7. Joinable(dict[k].schema, dict[l].schema, on)
  BY <1>3, <1>5 DEF Joinable, CanJoinKeys, Sound
<1> DEFINE a == dict[k].left[<<>>]
           b == dict[k].right[<<>>]
           c == dict[l].left[<<>>]
           h == dict[l].right[<<>>]
           d == Root(dict[k].bound)
           e == Root(dict[l].bound)
           x == J(k, l, on, s, t, f, g, nulls)
           y == K(k, l, on, s, t, f, g, nulls)
<1>8. IsTable(x) /\ IsTable(y)
  <2> HIDE DEF T, V
  <2> QED BY <1>6, <1>7, JoinIsLegal DEF Legal
<1>9. /\ IsTable(a) /\ IsTable(b) /\ IsTable(c) /\ IsTable(h)
  BY <1>5 DEF Legal
<1>10. /\ f \in Orders(Copies(a) \cup Copies(b)) /\ g \in Orders(Copies(c) \cup Copies(h))
  BY DEF BothTables
<1>11. /\ x = Join(Truncated(a, on, s, f), Truncated(c, on, t, g),
                   DOMAIN dict[k].schema, DOMAIN dict[l].schema, on, "inner", nulls)
       /\ y = Join(Truncated(b, on, s, f), Truncated(h, on, t, g),
                   DOMAIN dict[k].schema, DOMAIN dict[l].schema, on, "inner", nulls)
  OBVIOUS
<1>12. d \in Nat \cup {Infinite} /\ e \in Nat \cup {Infinite}
  BY <1>5, RootType
<1>13. /\ d # Infinite => RowsApart(a, b) <= d
       /\ e # Infinite => RowsApart(c, h) <= e
  <2>1. ASSUME NEW j \in DOMAIN dict, Root(dict[j].bound) # Infinite
        PROVE  RowsApart(dict[j].left[<<>>], dict[j].right[<<>>]) <= Root(dict[j].bound)
    <3>1. dict[j].bound # Infinite
      BY <2>1 DEF Root
    <3> QED BY <1>5, <3>1, RowsWithinRoot
  <2> QED BY <2>1
<1> HIDE DEF a, b, c, h, d, e, x, y
<1>14. Within(Distance(SymmetricDifference, One(x), One(y)), JoinBound(s, t, d, e))
  <2>1. CASE JoinBound(s, t, d, e) = Infinite
    BY <2>1 DEF Within
  <2>2. CASE JoinBound(s, t, d, e) # Infinite
    <3>1. d \in Nat /\ e \in Nat
      BY <1>3, <1>12, <2>2, FiniteJoinBound
    <3>2. RowsApart(a, b) <= d /\ RowsApart(c, h) <= e
      BY <1>13, <3>1 DEF Infinite
    <3> QED BY <1>3, <1>8, <1>9, <1>10, <1>11, <1>12, <2>2, <3>2, TruncatedJoinBounds
  <2> QED BY <2>1, <2>2
<1>15. LeaveFor(Entry(JoinedSchema(k, l, on, nulls), SymmetricDifference, One(x), One(y),
                      JoinBound(s, t, d, e)))
  BY <1>4 DEF x, y, d, e
<1> HIDE DEF T, V, J, K, E
<1> DEFINE z == Entry(JoinedSchema(k, l, on, nulls), SymmetricDifference, One(x), One(y),
                      JoinBound(s, t, d, e))
<1>16. /\ z.metric = SymmetricDifference /\ z.left = One(x) /\ z.right = One(y)
       /\ z.bound = JoinBound(s, t, d, e)
  BY EntryFields
<1>17. LeaveFor(z)
  BY <1>15
<1> HIDE DEF z
<1> QED BY <1>14, <1>16, <1>17, LeaveForIsStable

LEMMA DictStepIsStable ==
  ASSUME UserFunctions, PublicRows, UnwrapsRows, DictInv, DictDistances,
         [DictNext]_allVars, [Careful]_vars
  PROVE  DictDistances'
<1>1. ASSUME UNCHANGED vars, dict' = dict, over' = over, from' = from
      PROVE  DictDistances'
  <2>1. metric' = metric /\ left' = left /\ right' = right /\ bound' = bound
        /\ schema' = schema
    BY <1>1 DEF vars
  <2>2. InHand' = InHand
    BY <2>1 DEF InHand
  <2>3. KeysApart(dict)' = KeysApart(dict)
    BY <1>1 DEF KeysApart, LeftKeys, RightKeys, KeyDiffers, KeyColumn
  <2>4. DictStable'
    BY <1>1, <2>1, <2>3 DEF DictDistances, DictStable, Stable
  <2>5. KeysFrom'
    <3>1. /\ KeyColumn(InHand)' = KeyColumn(InHand)
          /\ KeyColumn(dict[from])' = KeyColumn(dict[from])
      BY <1>1, <2>2 DEF KeyColumn
    <3> QED BY <1>1, <2>1, <3>1 DEF DictDistances, KeysFrom, HasKey
  <2> QED BY <1>1, <2>4, <2>5 DEF DictDistances
<1>2. CASE UNCHANGED allVars
  BY <1>1, <1>2 DEF allVars, chainVars, vars
<1>3. CASE ValueStep
  <2>1. dict' = dict /\ over' = over /\ from' = from
    BY <1>3, ValueStepIsStep
  <2> QED BY <1>1, <1>3, <2>1, ValueStepIsStable
<1>4. CASE TableStep
  <2>1. dict' = dict /\ over' = over /\ from' = from
    BY <1>4 DEF TableStep
  <2> QED BY <1>1, <1>4, <2>1, TableStepIsStable
<1> QED
  BY <1>2, <1>3, <1>4, CreateDictIsStable, GetValueIsStable, SubsetIsStable, AugmentIsStable,
     TransformValueIsStable, PrivateJoinIsStable, PrivateJoinOnKeyIsStable DEF DictNext

(* The stability guarantee of chains through dictionaries: every value of  *)
(* a dictionary is within its own bound, or the keys of all its tables     *)
(* together are within theirs, and a table that is taken out or joined of  *)
(* two is within the bound announced for it (stability_function of         *)
(* dictionary.py, add_remove_keys.py and join.py).                         *)
THEOREM DictChainStable ==
  ASSUME UserFunctions, PublicRows, UnwrapsRows
  PROVE  DictSpec /\ [][Careful]_vars => []DictStable
<1>1. DictInit => DictDistances
  BY InitialDictIsStable
<1>2. DictInv /\ DictDistances /\ [DictNext]_allVars /\ [Careful]_vars => DictDistances'
  BY DictStepIsStable
<1>3. DictDistances => DictStable
  BY DEF DictDistances
<1> QED BY <1>1, <1>2, <1>3, DictTablesStay, PTL DEF DictSpec

-----------------------------------------------------------------------------
(* Measurements as records *)

(* The fields of a measurement, and what type they have.                   *)
Fields == {"measure", "apart", "asked", "claim", "loss", "delta", "deltaAsked", "leak", "parts"}
Measures == {"pure", "approx", "rho"}

IsMade(m) ==
  /\ DOMAIN m = Fields
  /\ m.measure \in Measures
  /\ m.apart \in Nat \ {0}
  /\ m.measure # "approx" => m.delta = Zero /\ m.leak = Zero

LEMMA MeasurementIsMade ==
  ASSUME NEW measure \in Measures, NEW apart \in Nat \ {0}, NEW asked, NEW claim, NEW loss
  PROVE  IsMade(Measurement(measure, apart, asked, claim, loss))
BY DEF IsMade, Measurement, Fields

(* What a composition is made of and how its parts add up.                 *)
TotalOf(ms, field) == FoldSeq(Plus, Zero, [i \in DOMAIN ms |-> ms[i][field]])

LEMMA ComposedFields ==
  ASSUME NEW ms, DOMAIN ms[1] = Fields
  PROVE  LET m == Composed(ms)
         IN /\ DOMAIN m = Fields
            /\ m.measure = ms[1].measure /\ m.apart = ms[1].apart
            /\ m.claim = TotalOf(ms, "claim") /\ m.loss = TotalOf(ms, "loss")
            /\ m.asked = TotalOf(ms, "asked") /\ m.delta = TotalOf(ms, "delta")
            /\ m.deltaAsked = TotalOf(ms, "deltaAsked") /\ m.leak = TotalOf(ms, "leak")
BY DEF Composed, TotalOf, Fields

LEMMA TotalStepwise ==
  ASSUME NEW n \in Nat, NEW ms, DOMAIN ms = 1 .. n, NEW field,
         \A i \in 1 .. n : ms[i][field] \in Exact
  PROVE  \E it : /\ Sums(it, [i \in DOMAIN ms |-> ms[i][field]], 1 .. n)
                 /\ it[1 .. n] = TotalOf(ms, field)
<1> DEFINE f == [i \in DOMAIN ms |-> ms[i][field]]
<1>1. IsFiniteSet(1 .. n) /\ DOMAIN f = 1 .. n /\ \A i \in 1 .. n : f[i] \in Exact
  BY FS_Interval
<1>2. TotalOf(ms, field) = FoldFunctionOnSet(Plus, Zero, f, 1 .. n)
  BY DEF TotalOf, FoldSeq, FoldFunction
<1> HIDE DEF f
<1> QED BY <1>1, <1>2, PlusStepwise DEF f

LEMMA TotalOfNothing ==
  ASSUME NEW n \in Nat, NEW ms, DOMAIN ms = 1 .. n, NEW field,
         \A i \in 1 .. n : ms[i][field] = Zero
  PROVE  TotalOf(ms, field) = Zero
<1>0. Zero \in Exact
  BY ExactNumbers
<1> DEFINE f == [i \in DOMAIN ms |-> ms[i][field]]
<1>1. PICK it : Sums(it, f, 1 .. n) /\ it[1 .. n] = TotalOf(ms, field)
  BY <1>0, TotalStepwise
<1>2. Plus(Zero, Zero) = Zero
  <2>1. Zero = Ratio(0, 1)
    BY ExactNumbers
  <2>2. Plus(Ratio(0, 1), Ratio(0, 1)) = Ratio(0 * 1 + 0 * 1, 1 * 1)
    BY PlusRatios
  <2> QED BY <2>1, <2>2
<1> DEFINE P == {s \in SUBSET (1 .. n) : it[s] = Zero}
<1>3. {} \in P
  BY <1>1 DEF Sums
<1>4. ASSUME NEW s \in SUBSET (1 .. n), s # {}, s \ {FoldedFirst(s)} \in P
      PROVE  s \in P
  <2>1. FoldedFirst(s) \in 1 .. n /\ it[s] = Plus(f[FoldedFirst(s)], it[s \ {FoldedFirst(s)}])
    BY <1>1, <1>4 DEF Sums
  <2>2. f[FoldedFirst(s)] = Zero
    BY <2>1
  <2> QED BY <1>2, <1>4, <2>1, <2>2
<1>5. IsFiniteSet(1 .. n)
  BY FS_Interval
<1>6. SUBSET (1 .. n) \subseteq P
  <2> HIDE DEF P
  <2> QED BY <1>3, <1>4, <1>5, FoldInduction
<1> QED BY <1>1, <1>6

LEMMA ComposedIsMade ==
  ASSUME NEW n \in Nat \ {0}, NEW ms, DOMAIN ms = 1 .. n,
         \A i \in 1 .. n : IsMade(ms[i]) /\ ms[i].measure = ms[1].measure
  PROVE  /\ IsMade(Composed(ms))
         /\ Composed(ms).measure = ms[1].measure /\ Composed(ms).apart = ms[1].apart
<1>1. 1 \in 1 .. n /\ n \in Nat
  OBVIOUS
<1>2. IsMade(ms[1])
  BY <1>1
<1>3. DOMAIN ms[1] = Fields
  BY <1>2 DEF IsMade
<1> DEFINE m == Composed(ms)
           measure == ms[1].measure
           apart == ms[1].apart
<1>4. /\ DOMAIN m = Fields /\ m.measure = measure /\ m.apart = apart
      /\ m.delta = TotalOf(ms, "delta") /\ m.leak = TotalOf(ms, "leak")
  BY <1>2, <1>3, ComposedFields
<1>5. ASSUME measure # "approx" PROVE m.delta = Zero /\ m.leak = Zero
  <2>1. \A i \in 1 .. n : ms[i]["delta"] = Zero /\ ms[i]["leak"] = Zero
    BY <1>5 DEF IsMade
  <2> HIDE DEF m
  <2> QED BY <1>1, <1>4, <2>1, TotalOfNothing
<1> HIDE DEF m
<1>6. IsMade(m)
  BY <1>2, <1>4, <1>5 DEF IsMade
<1> QED BY <1>4, <1>6 DEF m

-----------------------------------------------------------------------------
(* Types of measurements *)

(* Tables are legal, and what was made of them is a measurement.           *)
MeasureInv ==
  /\ TableInv
  /\ made # Nothing => IsMade(made)

(* Each way of making a measurement makes one.                             *)
LEMMA MakeKeepsInv ==
  ASSUME MeasureInv, NEW m, Make(m), bound \in Nat \ {0} => IsMade(m)
  PROVE  MeasureInv'
<1>1. bound \in Nat \ {0}
  BY DEF Make, MeasureInv, TableInv, TypeOK, Infinite
<1>2. IsMade(m) /\ made' = m /\ UNCHANGED vars
  BY <1>1 DEF Make
<1>3. TableInv'
  BY <1>2 DEF MeasureInv, TableInv, TypeOK, DomainClosed, vars
<1>4. IsMade(made)'
  BY <1>2 DEF IsMade
<1> QED BY <1>3, <1>4 DEF MeasureInv

LEMMA RemakeKeepsInv ==
  ASSUME MeasureInv, NEW m, Remake(m), IsMade(m)
  PROVE  MeasureInv'
<1>1. made' = m /\ UNCHANGED vars
  BY DEF Remake
<1>2. TableInv'
  BY <1>1 DEF MeasureInv, TableInv, TypeOK, DomainClosed, vars
<1>3. IsMade(made)'
  BY <1>1 DEF IsMade
<1> QED BY <1>2, <1>3 DEF MeasureInv

LEMMA SupportedIsMeasure ==
  ASSUME NEW mech, NEW measure \in SupportedMeasures(mech)
  PROVE  measure \in Measures
BY DEF SupportedMeasures, Measures

(* Noise, and what is composed of it, are measurements at the distance of  *)
(* the tables.                                                             *)
MadeHere(m, measure) == IsMade(m) /\ m.measure = measure /\ m.apart = bound

LEMMA NoisyIsMade ==
  ASSUME bound \in Nat \ {0}, NEW measure \in Measures, NEW mech, NEW scale,
         NEW sensitivity, NEW asked, NEW l1, NEW l2
  PROVE  MadeHere(Noisy(measure, mech, scale, sensitivity, asked, l1, l2), measure)
<1> DEFINE claim == Converted(measure, mech, Spent(mech, sensitivity, sensitivity * sensitivity, scale))
           loss == Converted(measure, mech, Spent(mech, l1, l2, scale))
<1>1. Noisy(measure, mech, scale, sensitivity, asked, l1, l2)
        = Measurement(measure, bound, asked, claim, loss)
  BY DEF Noisy
<1> HIDE DEF claim, loss
<1> QED BY <1>1, MeasurementIsMade DEF MadeHere, Measurement

LEMMA ChangesAreMade ==
  ASSUME bound \in Nat \ {0}, NEW measure \in Measures, NEW mech, NEW change,
         NEW sensitivity, NEW q
  PROVE  MadeHere(NoisyChanges(change, sensitivity, mech, measure, q), measure)
<1> DEFINE l1 == Total(change)
           l2 == TotalOfSquares(change)
           scale == NoiseScale(sensitivity, q, measure)
<1>1. NoisyChanges(change, sensitivity, mech, measure, q)
        = Noisy(measure, mech, scale, sensitivity, q, l1, l2)
  BY DEF NoisyChanges
<1> HIDE DEF l1, l2, scale
<1> QED BY <1>1, NoisyIsMade

LEMMA CountIsMade ==
  ASSUME bound \in Nat \ {0}, NEW measure \in Measures, NEW mech, NEW q
  PROVE  MadeHere(NoisyCount(mech, measure, q), measure)
<1>1. \E change : NoisyCount(mech, measure, q) = NoisyChanges(change, 1, mech, measure, q)
  BY DEF NoisyCount, NoisyGroups
<1> QED BY <1>1, ChangesAreMade

LEMMA AskedIsMade ==
  ASSUME NEW m, IsMade(m), NEW q
  PROVE  /\ IsMade([m EXCEPT !.asked = q])
         /\ [m EXCEPT !.asked = q].measure = m.measure
         /\ [m EXCEPT !.asked = q].apart = m.apart
         /\ [m EXCEPT !.asked = q].claim = m.claim
         /\ [m EXCEPT !.asked = q].loss = m.loss
         /\ [m EXCEPT !.asked = q].delta = m.delta
         /\ [m EXCEPT !.asked = q].deltaAsked = m.deltaAsked
         /\ [m EXCEPT !.asked = q].leak = m.leak
         /\ [m EXCEPT !.asked = q].asked = q
BY DEF IsMade, Fields

LEMMA NumberKeepsInv ==
  ASSUME MeasureInv, NEW kind, NEW sensitivity, NEW change,
         ScaledNoise(kind, sensitivity, change)
  PROVE  MeasureInv'
<1>1. PICK mech \in Mechanisms, scale \in Scales :
        \E measure \in SupportedMeasures(mech) : Number(measure, mech, scale, sensitivity, change)
  BY DEF ScaledNoise
<1>2. PICK measure \in SupportedMeasures(mech) : Number(measure, mech, scale, sensitivity, change)
  BY <1>1
<1> DEFINE s == Squared(scale)
           l1 == Abs(change)
           m == Noisy(measure, mech, s, sensitivity, Zero, l1, change * change)
           n == [m EXCEPT !.asked = m.claim]
<1>3. Make(n)
  BY <1>2 DEF Number
<1>4. bound \in Nat \ {0} => IsMade(n)
  <2>1. measure \in Measures
    BY SupportedIsMeasure
  <2> HIDE DEF s, l1
  <2>2. bound \in Nat \ {0} => IsMade(m)
    BY <2>1, NoisyIsMade DEF MadeHere
  <2> HIDE DEF m
  <2> QED BY <2>2, AskedIsMade
<1> HIDE DEF n
<1> QED BY <1>3, <1>4, MakeKeepsInv

LEMMA GroupsKeepInv ==
  ASSUME MeasureInv,
         CreateCountMeasurement \/ CreateCountDistinctMeasurement \/ CreateSumMeasurement
  PROVE  MeasureInv'
<1>1. \E mech, q, sensitivity, change : \E measure \in SupportedMeasures(mech) :
        Make(NoisyChanges(change, sensitivity, mech, measure, q))
  <2>1. CASE CreateCountMeasurement
    BY <2>1 DEF CreateCountMeasurement, NoisyCount, NoisyGroups
  <2>2. CASE CreateCountDistinctMeasurement
    BY <2>2 DEF CreateCountDistinctMeasurement, NoisyCountDistinct, NoisyGroups
  <2>3. CASE CreateSumMeasurement
    BY <2>3 DEF CreateSumMeasurement, NoisySum, NoisyGroups
  <2> QED BY <2>1, <2>2, <2>3
<1>2. PICK mech, q, sensitivity, change : \E measure \in SupportedMeasures(mech) :
        Make(NoisyChanges(change, sensitivity, mech, measure, q))
  BY <1>1
<1>3. PICK measure \in SupportedMeasures(mech) :
        Make(NoisyChanges(change, sensitivity, mech, measure, q))
  BY <1>2
<1>4. bound \in Nat \ {0} => IsMade(NoisyChanges(change, sensitivity, mech, measure, q))
  BY SupportedIsMeasure, ChangesAreMade DEF MadeHere
<1> QED BY <1>3, <1>4, MakeKeepsInv

LEMMA AverageIsMade ==
  ASSUME bound \in Nat \ {0}, NEW c, NEW b, NEW mech, NEW measure \in Measures, NEW q
  PROVE  IsMade(NoisyAverage(c, b, mech, measure, q))
<1> DEFINE h == Part(q, 2)
           kind == schema[c].kind
           x == NoisyDeviations(LAMBDA r : Num[r[c]], b, kind, Halves, mech, measure, h)
           y == NoisyCount(mech, measure, h)
           ms == <<x, y>>
<1>1. NoisyAverage(c, b, mech, measure, q) = [Composed(ms) EXCEPT !.asked = q]
  BY DEF NoisyAverage, PostProcess
<1>2. MadeHere(x, measure)
  <2>1. \E change, s : x = NoisyChanges(change, s, mech, measure, h)
    BY DEF NoisyDeviations, NoisySum, NoisyGroups
  <2> HIDE DEF x, h
  <2> QED BY <2>1, ChangesAreMade
<1>3. MadeHere(y, measure)
  <2> HIDE DEF h
  <2> QED BY CountIsMade
<1> HIDE DEF x, y
<1>4. DOMAIN ms = 1 .. 2 /\ ms[1] = x /\ ms[2] = y
  OBVIOUS
<1>5. \A i \in 1 .. 2 : i = 1 \/ i = 2
  OBVIOUS
<1> HIDE DEF ms
<1>6. \A i \in 1 .. 2 : IsMade(ms[i]) /\ ms[i].measure = ms[1].measure
  BY <1>2, <1>3, <1>4, <1>5 DEF MadeHere
<1>7. IsMade(Composed(ms))
  <2>1. PICK n \in Nat \ {0} : n = 2
    OBVIOUS
  <2>2. DOMAIN ms = 1 .. n /\ \A i \in 1 .. n : IsMade(ms[i]) /\ ms[i].measure = ms[1].measure
    BY <1>4, <1>6, <2>1
  <2> QED BY <2>2, ComposedIsMade
<1> QED BY <1>1, <1>7, AskedIsMade

LEMMA VarianceIsMade ==
  ASSUME bound \in Nat \ {0}, NEW c, NEW b, NEW mech, NEW measure \in Measures, NEW q
  PROVE  IsMade(NoisyStandardDeviation(c, b, mech, measure, q))
<1> DEFINE h == Part(q, 3)
           kind == schema[c].kind
           x == NoisyDeviations(LAMBDA r : Num[r[c]], b, kind, Halves, mech, measure, h)
           y == NoisyDeviations(LAMBDA r : Num[r[c]] * Num[r[c]], SquaredBounds(b), kind,
                                Halves * Halves, mech, measure, h)
           z == NoisyCount(mech, measure, h)
           ms == <<x, y, z>>
<1>1. NoisyStandardDeviation(c, b, mech, measure, q) = [Composed(ms) EXCEPT !.asked = q]
  BY DEF NoisyStandardDeviation, NoisyVariance, PostProcess
<1>2. MadeHere(x, measure) /\ MadeHere(y, measure)
  <2>1. \E change, s : x = NoisyChanges(change, s, mech, measure, h)
    BY DEF NoisyDeviations, NoisySum, NoisyGroups
  <2>2. \E change, s : y = NoisyChanges(change, s, mech, measure, h)
    BY DEF NoisyDeviations, NoisySum, NoisyGroups
  <2> HIDE DEF x, y, h
  <2> QED BY <2>1, <2>2, ChangesAreMade
<1>3. MadeHere(z, measure)
  <2> HIDE DEF h
  <2> QED BY CountIsMade
<1> HIDE DEF x, y, z
<1>4. DOMAIN ms = 1 .. 3 /\ ms[1] = x /\ ms[2] = y /\ ms[3] = z
  OBVIOUS
<1>5. \A i \in 1 .. 3 : i = 1 \/ i = 2 \/ i = 3
  OBVIOUS
<1> HIDE DEF ms
<1>6. \A i \in 1 .. 3 : IsMade(ms[i]) /\ ms[i].measure = ms[1].measure
  BY <1>2, <1>3, <1>4, <1>5 DEF MadeHere
<1>7. IsMade(Composed(ms))
  <2>1. PICK n \in Nat \ {0} : n = 3
    OBVIOUS
  <2>2. DOMAIN ms = 1 .. n /\ \A i \in 1 .. n : IsMade(ms[i]) /\ ms[i].measure = ms[1].measure
    BY <1>4, <1>6, <2>1
  <2> QED BY <2>2, ComposedIsMade
<1> QED BY <1>1, <1>7, AskedIsMade

LEMMA AveragesKeepInv ==
  ASSUME MeasureInv, CreateAverageMeasurement \/ CreateVarianceMeasurement
  PROVE  MeasureInv'
<1>1. \E mech, c, b, q : \E measure \in SupportedMeasures(mech) :
        \/ Make(NoisyAverage(c, b, mech, measure, q))
        \/ Make(NoisyStandardDeviation(c, b, mech, measure, q))
  <2>1. CASE CreateAverageMeasurement
    BY <2>1 DEF CreateAverageMeasurement
  <2>2. CASE CreateVarianceMeasurement
    BY <2>2 DEF CreateVarianceMeasurement
  <2> QED BY <2>1, <2>2
<1>2. PICK mech, c, b, q : \E measure \in SupportedMeasures(mech) :
        \/ Make(NoisyAverage(c, b, mech, measure, q))
        \/ Make(NoisyStandardDeviation(c, b, mech, measure, q))
  BY <1>1
<1>3. PICK measure \in SupportedMeasures(mech) :
        \/ Make(NoisyAverage(c, b, mech, measure, q))
        \/ Make(NoisyStandardDeviation(c, b, mech, measure, q))
  BY <1>2
<1>4. measure \in Measures
  BY SupportedIsMeasure
<1> QED BY <1>3, <1>4, AverageIsMade, VarianceIsMade, MakeKeepsInv

LEMMA QuantileKeepsInv ==
  ASSUME MeasureInv, CreateQuantileMeasurement
  PROVE  MeasureInv'
<1>1. PICK q \in Budgets, b \in Bounds, quantile \in Quantiles, measure \in Measures :
        \E c \in DOMAIN schema \ GroupColumns : Make(NoisyQuantile(c, b, quantile, measure, q))
  BY DEF CreateQuantileMeasurement, Measures
<1>0. PICK c : Make(NoisyQuantile(c, b, quantile, measure, q))
  BY <1>1
<1>2. \E change, s, mech : NoisyQuantile(c, b, quantile, measure, q)
                             = NoisyChanges(change, s, mech, measure, q)
  BY DEF NoisyQuantile, PostProcess
<1>3. bound \in Nat \ {0} => IsMade(NoisyQuantile(c, b, quantile, measure, q))
  BY <1>2, ChangesAreMade DEF MadeHere
<1> QED BY <1>0, <1>3, MakeKeepsInv

LEMMA SelectedIsMade ==
  ASSUME bound \in Nat \ {0}, NEW threshold, NEW asked, NEW deltaAsked
  PROVE  IsMade(Selected(threshold, asked, deltaAsked))
<1>1. \E loss, d, l : Selected(threshold, asked, deltaAsked)
        = [Measurement("approx", bound, asked, Whole(1), loss) EXCEPT
             !.delta = d, !.deltaAsked = deltaAsked, !.leak = l]
  BY DEF Selected
<1>2. PICK loss, d, l : Selected(threshold, asked, deltaAsked)
        = [Measurement("approx", bound, asked, Whole(1), loss) EXCEPT
             !.delta = d, !.deltaAsked = deltaAsked, !.leak = l]
  BY <1>1
<1>3. IsMade(Measurement("approx", bound, asked, Whole(1), loss))
  <2>1. "approx" \in Measures
    BY DEF Measures
  <2> QED BY <2>1, MeasurementIsMade
<1> DEFINE m == Measurement("approx", bound, asked, Whole(1), loss)
<1>4. m.measure = "approx"
  BY DEF Measurement
<1> HIDE DEF m
<1> QED BY <1>2, <1>3, <1>4 DEF IsMade, Fields, m

LEMMA SelectionsKeepInv ==
  ASSUME MeasureInv, GeometricPartitionSelection \/ CreatePartitionSelectionMeasurement
  PROVE  MeasureInv'
<1>1. CASE GeometricPartitionSelection
  <2>1. PICK threshold : LET m == Selected(threshold, Whole(1), Zero)
                         IN Make([m EXCEPT !.deltaAsked = m.delta])
    BY <1>1 DEF GeometricPartitionSelection
  <2> DEFINE m == Selected(threshold, Whole(1), Zero)
             n == [m EXCEPT !.deltaAsked = m.delta]
  <2>2. Make(n)
    BY <2>1
  <2>3. bound \in Nat \ {0} => IsMade(m)
    BY SelectedIsMade
  <2> HIDE DEF m
  <2>4. bound \in Nat \ {0} => IsMade(n)
    BY <2>3 DEF IsMade, Fields
  <2> HIDE DEF n
  <2> QED BY <2>2, <2>4, MakeKeepsInv
<1>2. CASE CreatePartitionSelectionMeasurement
  <2>1. PICK threshold, delta : Make(Selected(threshold, Whole(1), delta))
    BY <1>2 DEF CreatePartitionSelectionMeasurement
  <2> QED BY <2>1, SelectedIsMade, MakeKeepsInv
<1> QED BY <1>1, <1>2

LEMMA BoundsKeepInv ==
  ASSUME MeasureInv, CreateBoundsMeasurement
  PROVE  MeasureInv'
<1>0. PICK q \in Budgets \ {Zero}, K \in SUBSET DOMAIN schema, fraction \in Fractions,
           measure \in Measures :
        \E c \in DOMAIN schema \ K : \E values \in KeyChoices(K) :
          Make(NoisyBounds(c, K, values, fraction, measure, q))
  BY DEF CreateBoundsMeasurement, Measures
<1>1. PICK c, values : Make(NoisyBounds(c, K, values, fraction, measure, q))
  BY <1>0
<1> DEFINE apart == IF metric.agg = "l2" THEN Square(bound) ELSE bound
           m == NoisyBounds(c, K, values, fraction, measure, q)
<1>2. \E change : m = [NoisyChanges(change, SparseVectorEpsilon, "geometric", measure, q)
                        EXCEPT !.apart = apart]
  BY DEF NoisyBounds, PostProcess
<1>3. ASSUME bound \in Nat \ {0} PROVE IsMade(m)
  <2>1. apart \in Nat \ {0}
    BY <1>3 DEF Square, Infinite
  <2>2. PICK change : m = [NoisyChanges(change, SparseVectorEpsilon, "geometric", measure, q)
                            EXCEPT !.apart = apart]
    BY <1>2
  <2> DEFINE n == NoisyChanges(change, SparseVectorEpsilon, "geometric", measure, q)
  <2>3. IsMade(n)
    BY <1>3, ChangesAreMade DEF MadeHere
  <2> HIDE DEF n, apart, m
  <2>4. m = [n EXCEPT !.apart = apart]
    BY <2>2 DEF n
  <2> QED BY <2>1, <2>3, <2>4 DEF IsMade, Fields
<1> HIDE DEF m
<1>4. Make(m)
  BY <1>1 DEF m
<1> QED BY <1>3, <1>4, MakeKeepsInv

LEMMA RemakingKeepsInv ==
  ASSUME MeasureInv, PureDPToRhoZCDP \/ PureDPToApproxDP \/ Composition
  PROVE  MeasureInv'
<1>1. CASE PureDPToRhoZCDP
  <2>1. PICK a, b, d : Remake([made EXCEPT !.measure = "rho", !.claim = a, !.asked = b, !.loss = d])
    BY <1>1 DEF PureDPToRhoZCDP
  <2> DEFINE m == [made EXCEPT !.measure = "rho", !.claim = a, !.asked = b, !.loss = d]
  <2>2. IsMade(made) /\ made.measure = "pure"
    BY <1>1, <2>1 DEF MeasureInv, PureDPToRhoZCDP, Remake
  <2>3. IsMade(m)
    BY <2>2 DEF IsMade, Fields, Measures
  <2> HIDE DEF m
  <2> QED BY <2>1, <2>3, RemakeKeepsInv DEF m
<1>2. CASE PureDPToApproxDP
  <2> DEFINE m == [made EXCEPT !.measure = "approx"]
  <2>1. Remake(m) /\ IsMade(made)
    BY <1>2 DEF PureDPToApproxDP, MeasureInv, Remake
  <2>2. IsMade(m)
    BY <2>1 DEF IsMade, Fields, Measures
  <2> HIDE DEF m
  <2> QED BY <2>1, <2>2, RemakeKeepsInv
<1>3. CASE Composition
  <2>1. IsMade(made)
    BY <1>3 DEF Composition, MeasureInv
  <2>2. PICK n \in 2 .. MaxParts \div made.parts : Remake(Composed([i \in 1 .. n |-> made]))
    BY <1>3 DEF Composition
  <2>3. n \in Nat \ {0}
    BY <2>2
  <2> DEFINE ms == [i \in 1 .. n |-> made]
  <2>4. DOMAIN ms = 1 .. n /\ \A i \in 1 .. n : ms[i] = made
    OBVIOUS
  <2> HIDE DEF ms
  <2>5. IsMade(Composed(ms))
    <3>1. \A i \in 1 .. n : IsMade(ms[i]) /\ ms[i].measure = ms[1].measure
      BY <2>1, <2>3, <2>4
    <3> QED BY <2>3, <2>4, <3>1, ComposedIsMade
  <2> QED BY <2>2, <2>5, RemakeKeepsInv DEF ms
<1> QED BY <1>1, <1>2, <1>3

(* MeasureInv is inductive.                                                *)
LEMMA MeasureStepKeepsInv ==
  ASSUME UserFunctions, MeasureInv, [MeasureNext]_measureVars
  PROVE  MeasureInv'
<1>1. CASE UNCHANGED measureVars
  BY <1>1 DEF measureVars, MeasureInv, TableInv, TypeOK, DomainClosed, IsMade
<1>2. CASE TransformStep
  <2>1. TableInv'
    BY <1>2, StepKeepsInv DEF TransformStep, MeasureInv
  <2>2. made' = made
    BY <1>2 DEF TransformStep
  <2> QED BY <2>1, <2>2 DEF MeasureInv, IsMade
<1>3. CASE Count \/ CountDistinct \/ Sum
  BY <1>3, NumberKeepsInv DEF Count, CountDistinct, Sum
<1> QED
  BY <1>1, <1>2, <1>3, GroupsKeepInv, AveragesKeepInv, QuantileKeepsInv, SelectionsKeepInv,
     BoundsKeepInv, RemakingKeepsInv DEF MeasureNext

LEMMA MeasurementsStay ==
  ASSUME UserFunctions
  PROVE  MeasureSpec => []MeasureInv
<1>1. MeasureInit => MeasureInv
  BY InitialTables DEF MeasureInit, MeasureInv
<1>2. MeasureInv /\ [MeasureNext]_measureVars => MeasureInv'
  BY MeasureStepKeepsInv
<1> QED BY <1>1, <1>2, PTL DEF MeasureSpec

(* The types of measurements: every measurement is made at a positive      *)
(* distance, under one of the three measures, and loses no delta unless    *)
(* its measure has one (the output_measure of each constructor).           *)
THEOREM MeasureType ==
  ASSUME UserFunctions
  PROVE  MeasureSpec => []MeasureTypeOK
<1>1. MeasureInv => MeasureTypeOK
  BY DEF MeasureInv, MeasureTypeOK, TableInv, IsMade, Measures
<1> QED BY <1>1, MeasurementsStay, PTL

-----------------------------------------------------------------------------
(* What noise loses *)

(* x times d / n; nothing if x is, whatever n is.                          *)
Per(x, d, n) == IF x = 0 THEN Zero ELSE Ratio(x * d, n)

(* Infinity is the ratio of 1 and 0.                                       *)
LEMMA InfinityIsRatio == Infinity = Ratio(1, 0)
<1>1. Infinity \in Exact /\ Infinity.n = 1 /\ Infinity.d = 0
  BY ExactNumbers DEF Infinity
<1> QED BY <1>1, RatioOfExact

LEMMA ExactNumberIsRatio ==
  ASSUME NEW a \in Exact
  PROVE  \E n \in Nat, d \in Nat : (n # 0 \/ d # 0) /\ a = Ratio(n, d)
<1>1. CASE a = Infinity
  BY <1>1, InfinityIsRatio
<1>2. CASE a # Infinity
  <2>1. PICK n \in Nat, d \in Nat \ {0} : a = Ratio(n, d)
    BY <1>2, ExactIsRatio
  <2> QED BY <2>1
<1> QED BY <1>1, <1>2

LEMMA PerNumbers ==
  ASSUME NEW x \in Nat, NEW d \in Nat, NEW n \in Nat, d # 0 \/ n # 0
  PROVE  /\ Per(x, d, n) \in Exact
         /\ n # 0 => Per(x, d, n) = Ratio(x * d, n)
         /\ n = 0 /\ x # 0 => Per(x, d, n) = Infinity
<1>1. x * d \in Nat /\ (x # 0 => x * d # 0 \/ n # 0)
  OBVIOUS
<1>2. x # 0 => Ratio(x * d, n) \in Exact
  BY <1>1, RatioIsExact
<1>3. ASSUME n # 0 PROVE Per(x, d, n) = Ratio(x * d, n)
  <2>1. CASE x = 0
    <3>1. x * d = 0 /\ 0 * 1 = 0 * n
      BY <2>1
    <3>2. Ratio(0, n) = Ratio(0, 1)
      BY <1>3, RatiosEqual
    <3> QED BY <2>1, <3>1, <3>2, ExactNumbers DEF Per
  <2> QED BY <2>1 DEF Per
<1>4. ASSUME n = 0, x # 0 PROVE Per(x, d, n) = Infinity
  <2> DEFINE y == x * d
  <2>1. y \in Nat \ {0}
    BY <1>1, <1>4
  <2> HIDE DEF y
  <2>2. y * 0 = 1 * 0
    BY <2>1
  <2>3. Ratio(y, 0) = Ratio(1, 0)
    BY <2>1, <2>2, RatiosEqual
  <2> QED BY <1>4, <2>3, InfinityIsRatio DEF Per, y
<1> QED BY <1>2, <1>3, <1>4, ExactNumbers DEF Per

LEMMA DividedWholes ==
  ASSUME NEW x \in Nat \ {0}, NEW n \in Nat, NEW d \in Nat, n # 0 \/ d # 0
  PROVE  Divided(Ratio(x, 1), Ratio(n, d)) = Ratio(x * d, n)
<1>1. x \in Nat /\ 1 \in Nat /\ 1 # 0 /\ (x * d # 0 \/ 1 * n # 0)
  OBVIOUS
<1>2. Divided(Ratio(x, 1), Ratio(n, d)) = Ratio(x * d, 1 * n)
  <2>1. \A i, j \in Nat : (i # 0 \/ j # 0) /\ (i * d # 0 \/ j * n # 0)
          => Divided(Ratio(i, j), Ratio(n, d)) = Ratio(i * d, j * n)
    <3> SUFFICES ASSUME NEW i \in Nat, NEW j \in Nat, i # 0 \/ j # 0,
                        i * d # 0 \/ j * n # 0
                 PROVE  Divided(Ratio(i, j), Ratio(n, d)) = Ratio(i * d, j * n)
      OBVIOUS
    <3> QED BY DividedRatios
  <2> QED BY <1>1, <2>1
<1>3. 1 * n = n
  OBVIOUS
<1> QED BY <1>2, <1>3

LEMMA HalfOfRatio ==
  ASSUME NEW n \in Nat, NEW d \in Nat, n # 0 \/ d # 0
  PROVE  Divided(Ratio(n, d), Ratio(2, 1)) = Ratio(n, 2 * d)
<1>1. 1 \in Nat /\ 2 \in Nat /\ (2 # 0 \/ 1 # 0) /\ (n * 1 # 0 \/ d * 2 # 0)
  OBVIOUS
<1>2. Divided(Ratio(n, d), Ratio(2, 1)) = Ratio(n * 1, d * 2)
  BY <1>1, DividedRatios, Zenon
<1>3. n * 1 = n /\ d * 2 = 2 * d
  OBVIOUS
<1> QED BY <1>2, <1>3

(* What each mechanism spends is a distance, or its square, for the square *)
(* of the scale.                                                           *)
LEMMA SpentPer ==
  ASSUME NEW n \in Nat, NEW d \in Nat, n # 0 \/ d # 0, NEW l1 \in Nat, NEW l2 \in Nat,
         NEW mech \in Mechanisms
  PROVE  /\ mech \in PureMechanisms => Spent(mech, l1, l2, Ratio(n, d)) = Per(l1 * l1, d, n)
         /\ mech \notin PureMechanisms => Spent(mech, l1, l2, Ratio(n, d)) = Per(l2, d, 2 * n)
<1> DEFINE scale == Ratio(n, d)
<1>1. l1 * l1 \in Nat /\ (l1 * l1 = 0 <=> l1 = 0)
  OBVIOUS
<1>2. \A m \in Nat : Whole(m) = Ratio(m, 1)
  BY ExactNumbers
<1>3. AddLaplaceNoise(l1, scale) = Per(l1 * l1, d, n)
  <2> DEFINE x == l1 * l1
  <2>1. x \in Nat /\ (x = 0 <=> l1 = 0)
    BY <1>1
  <2>2. AddLaplaceNoise(l1, scale) = IF x = 0 THEN Zero ELSE Divided(Whole(x), scale)
    BY <2>1 DEF AddLaplaceNoise
  <2> HIDE DEF x
  <2>3. ASSUME x # 0 PROVE Divided(Whole(x), scale) = Ratio(x * d, n)
    <3>1. Divided(Ratio(x, 1), Ratio(n, d)) = Ratio(x * d, n)
      BY <2>1, <2>3, DividedWholes
    <3> QED BY <1>2, <2>1, <3>1
  <2>4. AddLaplaceNoise(l1, scale) = Per(x, d, n)
    BY <2>2, <2>3 DEF Per
  <2> QED BY <2>4 DEF x
<1>4. AddGaussianNoise(l2, scale) = Per(l2, d, 2 * n)
  <2>1. ASSUME l2 # 0 PROVE Divided(Whole(l2), Times(Whole(2), scale)) = Ratio(l2 * d, 2 * n)
    <3>1. 2 * n \in Nat /\ (2 * n # 0 \/ 1 * d # 0) /\ 1 * d = d /\ 1 * (2 * n) = 2 * n
      OBVIOUS
    <3>2. Times(Ratio(2, 1), Ratio(n, d)) = Ratio(2 * n, 1 * d)
      BY <3>1, TimesRatios
    <3>3. 2 * n # 0 \/ d # 0
      OBVIOUS
    <3>4. Divided(Ratio(l2, 1), Ratio(2 * n, d)) = Ratio(l2 * d, 2 * n)
      BY <2>1, <3>1, <3>3, DividedWholes
    <3> QED BY <1>2, <3>1, <3>2, <3>4
  <2> QED BY <2>1 DEF AddGaussianNoise, Per
<1> HIDE DEF scale
<1>5. mech \in PureMechanisms <=> mech = "laplace" \/ mech = "geometric"
  BY DEF PureMechanisms
<1>6. mech \in PureMechanisms => Spent(mech, l1, l2, scale) = AddLaplaceNoise(l1, scale)
  BY <1>5 DEF Spent, AddGeometricNoise
<1>7. mech \notin PureMechanisms => Spent(mech, l1, l2, scale) = AddGaussianNoise(l2, scale)
  BY DEF Spent, AddDiscreteGaussianNoise, PureMechanisms, Mechanisms
<1> QED BY <1>3, <1>4, <1>6, <1>7 DEF scale

(* What noise of a scale loses on numbers that differ by l1 and l2.        *)
Lost(measure, mech, l1, l2, scale) == Converted(measure, mech, Spent(mech, l1, l2, scale))

LEMMA RhoLost ==
  ASSUME NEW n \in Nat, NEW d \in Nat, n # 0 \/ d # 0, NEW l1 \in Nat, NEW l2 \in Nat,
         NEW mech \in Mechanisms
  PROVE  Lost("rho", mech, l1, l2, Ratio(n, d))
           = Per(IF mech \in PureMechanisms THEN l1 * l1 ELSE l2, d, 2 * n)
<1>1. CASE mech \in PureMechanisms
  <2> DEFINE x == l1 * l1
  <2>1. x \in Nat
    OBVIOUS
  <2>2. Spent(mech, l1, l2, Ratio(n, d)) = Per(x, d, n)
    BY <1>1, SpentPer
  <2> HIDE DEF x
  <2>3. Lost("rho", mech, l1, l2, Ratio(n, d)) = Divided(Per(x, d, n), Whole(2))
    BY <1>1, <2>2 DEF Lost, Converted
  <2>4. Whole(2) = Ratio(2, 1) /\ Zero = Ratio(0, 1)
    BY ExactNumbers
  <2>5. CASE x = 0
    <3>1. Divided(Ratio(0, 1), Ratio(2, 1)) = Ratio(0 * 1, 1 * 2)
      BY DividedRatios
    <3>2. Ratio(0, 2) = Ratio(0, 1)
      BY RatiosEqual
    <3> QED BY <1>1, <2>3, <2>4, <2>5, <3>1, <3>2 DEF Per, x
  <2>6. CASE x # 0
    <3>1. x * d \in Nat /\ (x * d # 0 \/ n # 0)
      BY <2>1, <2>6
    <3>2. Divided(Ratio(x * d, n), Ratio(2, 1)) = Ratio(x * d, 2 * n)
      BY <3>1, HalfOfRatio
    <3> QED BY <1>1, <2>3, <2>4, <2>6, <3>2 DEF Per, x
  <2> QED BY <2>5, <2>6
<1>2. CASE mech \notin PureMechanisms
  <2>1. Spent(mech, l1, l2, Ratio(n, d)) = Per(l2, d, 2 * n)
    BY <1>2, SpentPer
  <2> QED BY <1>2, <2>1 DEF Lost, Converted
<1> QED BY <1>1, <1>2

LEMMA EpsilonLost ==
  ASSUME NEW e \in Nat, NEW f \in Nat, e # 0 \/ f # 0, NEW l1 \in Nat, NEW l2 \in Nat,
         NEW mech \in PureMechanisms, NEW measure, measure # "rho"
  PROVE  Lost(measure, mech, l1, l2, Squared(Ratio(e, f))) = Per(l1, f, e)
<1>1. Squared(Ratio(e, f)) = Ratio(e * e, f * f)
  BY TimesRatios DEF Squared
<1>2. /\ e * e \in Nat /\ f * f \in Nat /\ (e * e # 0 \/ f * f # 0)
      /\ mech \in Mechanisms
  <2>1. mech \in Mechanisms
    BY DEF Mechanisms
  <2> QED BY <2>1
<1>3. Spent(mech, l1, l2, Ratio(e * e, f * f)) = Per(l1 * l1, f * f, e * e)
  BY <1>2, SpentPer
<1>4. Lost(measure, mech, l1, l2, Squared(Ratio(e, f))) = SquareRoot(Per(l1 * l1, f * f, e * e))
  BY <1>1, <1>3 DEF Lost, Converted
<1>5. CASE l1 = 0
  <2>1. SquareRoot(Ratio(0 * 0, 1 * 1)) = Ratio(0, 1)
    BY SquareRootOfRatio
  <2>2. Zero = Ratio(0, 1) /\ l1 * l1 = 0 /\ 0 * 0 = 0 /\ 1 * 1 = 1
    BY <1>5, ExactNumbers
  <2> QED BY <1>4, <1>5, <2>1, <2>2 DEF Per
<1>6. CASE l1 # 0
  <2> DEFINE g == l1 * f
  <2>1. g \in Nat /\ (g # 0 \/ e # 0) /\ (l1 * l1) * (f * f) = g * g /\ l1 * l1 # 0
    BY <1>6
  <2> HIDE DEF g
  <2>2. SquareRoot(Ratio(g * g, e * e)) = Ratio(g, e)
    BY <2>1, SquareRootOfRatio
  <2> QED BY <1>4, <1>6, <2>1, <2>2 DEF Per, g
<1> QED BY <1>5, <1>6

(* Losses that grow with a distance are within claims that do.             *)
LEMMA PerWithin ==
  ASSUME NEW x \in Nat, NEW y \in Nat, NEW d \in Nat, NEW n \in Nat, d # 0 \/ n # 0,
         NEW A \in Nat, NEW measure,
         IF measure = "rho" THEN x <= y * A ELSE x * x <= (y * y) * A
  PROVE  WithinClaim(measure, Per(x, d, n), Per(y, d, n), A)
<1>1. CASE n = 0 /\ y # 0
  <2>1. Per(y, d, n) = Infinity
    BY <1>1, PerNumbers
  <2> QED BY <2>1 DEF WithinClaim
<1>2. CASE n = 0 /\ y = 0
  <2>1. x = 0
    <3>1. 0 * A = 0 /\ (0 * 0) * A = 0
      OBVIOUS
    <3>2. x <= 0 \/ x * x <= 0
      BY <1>2, <3>1
    <3>3. x # 0 => x * x # 0 /\ x * x \in Nat
      OBVIOUS
    <3> QED BY <3>2, <3>3
  <2> QED BY <1>2, <2>1, NoLossWithinNothing DEF Per
<1>3. CASE n # 0
  <2> DEFINE k == d * n
             u == x * d
             v == y * d
  <2>1. Per(x, d, n) = Ratio(u, n) /\ Per(y, d, n) = Ratio(v, n)
    BY <1>3, PerNumbers
  <2>2. /\ k \in Nat /\ u \in Nat /\ v \in Nat /\ n \in Nat \ {0}
        /\ u * n = k * x /\ v * n = k * y
    BY <1>3
  <2> HIDE DEF k, u, v
  <2>3. WithinClaim(measure, Ratio(u, n), Ratio(v, n), A)
          <=> IF measure = "rho" THEN u * n <= (v * n) * A
              ELSE (u * n) * (u * n) <= ((v * n) * (v * n)) * A
    BY <2>2, WithinByRatios
  <2>4. CASE measure = "rho"
    <3>1. x <= y * A /\ y * A \in Nat
      BY <2>4
    <3>2. k * x <= k * (y * A)
      BY <2>2, <3>1, MultipliesUp
    <3>3. k * (y * A) = (k * y) * A
      BY <2>2
    <3> QED BY <2>1, <2>2, <2>3, <2>4, <3>2, <3>3
  <2>5. CASE measure # "rho"
    <3> DEFINE a == x * x
               b == y * y
    <3>1. a \in Nat /\ b \in Nat /\ a <= b * A /\ k * k \in Nat
      BY <2>2, <2>5
    <3>2. (k * x) * (k * x) = (k * k) * a /\ ((k * y) * (k * y)) * A = (k * k) * (b * A)
      BY <2>2
    <3> HIDE DEF a, b
    <3>3. b * A \in Nat
      BY <3>1
    <3>4. (k * k) * a <= (k * k) * (b * A)
      BY <3>1, <3>3, MultipliesUp
    <3> QED BY <2>1, <2>2, <2>3, <2>5, <3>2, <3>4
  <2> QED BY <2>4, <2>5
<1> QED BY <1>1, <1>2, <1>3

(* Noise covers what changes by no more than the sensitivity for each unit *)
(* of distance.                                                            *)
LEMMA NoiseCovers ==
  ASSUME NEW mech \in Mechanisms, NEW measure \in SupportedMeasures(mech),
         NEW scale \in Exact, measure # "rho" => \E e \in Exact : scale = Squared(e),
         NEW s \in Nat, NEW l1 \in Nat, NEW l2 \in Nat, NEW A \in Nat,
         mech \in PureMechanisms => l1 * l1 <= (s * s) * A,
         mech \notin PureMechanisms => l2 <= (s * s) * A
  PROVE  /\ WithinClaim(measure, Lost(measure, mech, l1, l2, scale),
                        Lost(measure, mech, s, s * s, scale), A)
         /\ Lost(measure, mech, l1, l2, scale) \in Exact
         /\ Lost(measure, mech, s, s * s, scale) \in Exact
<1>0. s * s \in Nat /\ l1 * l1 \in Nat
  OBVIOUS
<1>1. CASE measure = "rho"
  <2>1. PICK n \in Nat, d \in Nat : (n # 0 \/ d # 0) /\ scale = Ratio(n, d)
    BY ExactNumberIsRatio
  <2> DEFINE x == IF mech \in PureMechanisms THEN l1 * l1 ELSE l2
             y == s * s
  <2>2. Lost(measure, mech, l1, l2, scale) = Per(x, d, 2 * n)
    BY <1>1, <2>1, RhoLost
  <2>3. Lost(measure, mech, s, s * s, scale) = Per(y, d, 2 * n)
    <3>1. Lost("rho", mech, s, y, Ratio(n, d))
            = Per(IF mech \in PureMechanisms THEN s * s ELSE y, d, 2 * n)
      <4>1. y \in Nat
        BY <1>0
      <4> HIDE DEF y
      <4> QED BY <2>1, <4>1, RhoLost
    <3> QED BY <1>1, <2>1, <3>1
  <2>4. x \in Nat /\ y \in Nat /\ x <= y * A /\ 2 * n \in Nat /\ (d # 0 \/ 2 * n # 0)
    BY <1>0, <2>1
  <2> HIDE DEF x, y
  <2>5. WithinClaim("rho", Per(x, d, 2 * n), Per(y, d, 2 * n), A)
    BY <2>4, PerWithin
  <2>6. Per(x, d, 2 * n) \in Exact /\ Per(y, d, 2 * n) \in Exact
    BY <2>4, PerNumbers
  <2> QED BY <1>1, <2>2, <2>3, <2>5, <2>6
<1>2. CASE measure # "rho"
  <2>1. mech \in PureMechanisms
    BY <1>2 DEF SupportedMeasures
  <2>2. PICK r \in Exact : scale = Squared(r)
    BY <1>2
  <2>3. PICK e \in Nat, f \in Nat : (e # 0 \/ f # 0) /\ r = Ratio(e, f)
    BY ExactNumberIsRatio
  <2>4. Lost(measure, mech, l1, l2, scale) = Per(l1, f, e)
    BY <1>2, <2>1, <2>2, <2>3, EpsilonLost
  <2>5. Lost(measure, mech, s, s * s, scale) = Per(s, f, e)
    <3> DEFINE y == s * s
    <3>1. y \in Nat
      BY <1>0
    <3> HIDE DEF y
    <3>2. Lost(measure, mech, s, y, scale) = Per(s, f, e)
      BY <1>2, <2>1, <2>2, <2>3, <3>1, EpsilonLost
    <3> QED BY <3>2 DEF y
  <2>6. l1 * l1 <= (s * s) * A
    BY <2>1
  <2>7. WithinClaim(measure, Per(l1, f, e), Per(s, f, e), A)
    BY <1>2, <2>3, <2>6, PerWithin
  <2>8. Per(l1, f, e) \in Exact /\ Per(s, f, e) \in Exact
    BY <2>3, PerNumbers
  <2> QED BY <2>4, <2>5, <2>7, <2>8
<1> QED BY <1>1, <1>2

(* The scale of noise that is asked to spend q, and what it claims.        *)
LEMMA ScaleSpends ==
  ASSUME NEW mech \in Mechanisms, NEW measure \in SupportedMeasures(mech),
         NEW s \in Nat, NEW q \in Exact
  PROVE  /\ NoiseScale(s, q, measure) \in Exact
         /\ measure # "rho" => \E e \in Exact : NoiseScale(s, q, measure) = Squared(e)
         /\ s # 0 => Lost(measure, mech, s, s * s, NoiseScale(s, q, measure)) = q
<1> DEFINE S == s * s
           scale == NoiseScale(s, q, measure)
<1>0. S \in Nat /\ (S = 0 <=> s = 0)
  OBVIOUS
<1>1. ASSUME NEW n \in Nat, NEW d \in Nat, n # 0 \/ d # 0, measure = "rho", scale = Ratio(n, d)
      PROVE  scale \in Exact /\ Lost(measure, mech, s, S, scale) = Per(S, d, 2 * n)
  <2>1. scale \in Exact
    BY <1>1, RatioIsExact
  <2>2. Lost("rho", mech, s, S, Ratio(n, d)) = Per(IF mech \in PureMechanisms THEN s * s ELSE S, d, 2 * n)
    <3> HIDE DEF S
    <3> QED BY <1>0, <1>1, RhoLost
  <2> HIDE DEF scale
  <2> QED BY <1>1, <2>1, <2>2
<1>2. ASSUME NEW e \in Nat, NEW f \in Nat, e # 0 \/ f # 0, measure # "rho",
             scale = Squared(Ratio(e, f))
      PROVE  /\ scale \in Exact
             /\ \E r \in Exact : scale = Squared(r)
             /\ Lost(measure, mech, s, S, scale) = Per(s, f, e)
  <2>1. Ratio(e, f) \in Exact
    BY <1>2, RatioIsExact
  <2>2. scale = Ratio(e * e, f * f)
    BY <1>2, TimesRatios DEF Squared
  <2>3. e * e \in Nat /\ f * f \in Nat /\ (e * e # 0 \/ f * f # 0)
    BY <1>2
  <2>4. Ratio(e * e, f * f) \in Exact
    BY <2>3, RatioIsExact
  <2>5. mech \in PureMechanisms
    BY <1>2 DEF SupportedMeasures
  <2>6. Lost(measure, mech, s, S, Squared(Ratio(e, f))) = Per(s, f, e)
    <3> HIDE DEF S
    <3> QED BY <1>0, <1>2, <2>5, EpsilonLost
  <2> HIDE DEF scale
  <2> QED BY <1>2, <2>1, <2>2, <2>4, <2>6
<1>3. CASE q = Zero
  <2>1. scale = Infinity
    BY <1>3 DEF NoiseScale
  <2>2. scale = Ratio(1, 0) /\ scale = Squared(Ratio(1, 0))
    BY <2>1, InfinityIsRatio, WithinFinite
  <2>3. ASSUME s # 0 PROVE Per(S, 0, 2 * 1) = Zero /\ Per(s, 0, 1) = Zero
    <3>1. Per(S, 0, 2 * 1) = Ratio(S * 0, 2 * 1) /\ Per(s, 0, 1) = Ratio(s * 0, 1)
      BY <1>0, <2>3 DEF Per
    <3>2. S * 0 = 0 /\ s * 0 = 0 /\ 2 * 1 = 2
      BY <1>0
    <3>3. Ratio(0, 2) = Ratio(0, 1)
      BY RatiosEqual
    <3> QED BY <3>1, <3>2, <3>3, ExactNumbers
  <2> HIDE DEF S, scale
  <2> QED BY <1>1, <1>2, <1>3, <2>2, <2>3 DEF S, scale
<1>4. CASE q = Infinity
  <2>1. scale = Zero
    BY <1>4, ExactNumbers DEF NoiseScale
  <2>2. scale = Ratio(0, 1) /\ scale = Squared(Ratio(0, 1))
    <3>1. Squared(Ratio(0, 1)) = Ratio(0 * 0, 1 * 1)
      BY TimesRatios DEF Squared
    <3> QED BY <2>1, <3>1, ExactNumbers
  <2>3. ASSUME s # 0 PROVE Per(S, 1, 2 * 0) = Infinity /\ Per(s, 1, 0) = Infinity
    <3>1. 2 * 0 = 0
      OBVIOUS
    <3> HIDE DEF S
    <3> QED BY <1>0, <2>3, <3>1, PerNumbers
  <2> HIDE DEF S, scale
  <2> QED BY <1>1, <1>2, <1>4, <2>2, <2>3 DEF S, scale
<1>5. CASE q # Zero /\ q # Infinity
  <2>1. PICK n \in Nat, d \in Nat \ {0} : q = Ratio(n, d)
    BY <1>5, ExactIsRatio
  <2>2. n # 0
    <3> SUFFICES ASSUME n = 0 PROVE FALSE
      OBVIOUS
    <3>1. Ratio(0, d) = Ratio(0, 1)
      <4>1. 0 * 1 = 0 * d
        OBVIOUS
      <4> QED BY <4>1, RatiosEqual
    <3> QED BY <1>5, <2>1, <3>1, ExactNumbers
  <2>3. Whole(S) = Ratio(S, 1) /\ Whole(2) = Ratio(2, 1)
    BY <1>0, ExactNumbers
  <2>4. CASE measure = "rho"
    <3>1. scale = Divided(Whole(S), Times(Whole(2), q))
      BY <1>5, <2>4 DEF NoiseScale
    <3>2. Times(Ratio(2, 1), Ratio(n, d)) = Ratio(2 * n, 1 * d) /\ 1 * d = d
      <4>1. 2 * n # 0 \/ 1 * d # 0
        OBVIOUS
      <4> QED BY <4>1, TimesRatios
    <3>3. 2 * n \in Nat \ {0} /\ S * d \in Nat /\ d \in Nat
      BY <1>0, <2>2
    <3>4. scale = Ratio(S * d, 2 * n)
      <4>1. Divided(Ratio(S, 1), Ratio(2 * n, d)) = Ratio(S * d, 1 * (2 * n))
        <5> DEFINE m == 2 * n
        <5>1. m \in Nat \ {0}
          BY <3>3
        <5> HIDE DEF m, S
        <5>2. S * d # 0 \/ 1 * m # 0
          BY <5>1
        <5>3. Divided(Ratio(S, 1), Ratio(m, d)) = Ratio(S * d, 1 * m)
          BY <1>0, <5>1, <5>2, DividedRatios
        <5> QED BY <5>3 DEF m
      <4>2. 1 * (2 * n) = 2 * n
        OBVIOUS
      <4> QED BY <2>1, <2>3, <3>1, <3>2, <4>1, <4>2
    <3>5. /\ scale \in Exact
          /\ Lost(measure, mech, s, S, scale) = Per(S, 2 * n, 2 * (S * d))
      <4> DEFINE i == S * d
                 j == 2 * n
      <4>1. i \in Nat /\ j \in Nat \ {0} /\ scale = Ratio(i, j)
        BY <3>3, <3>4
      <4> HIDE DEF i, j, S, scale
      <4> QED BY <1>1, <2>4, <4>1 DEF i, j
    <3>6. ASSUME s # 0 PROVE Per(S, 2 * n, 2 * (S * d)) = q
      <4>1. S # 0
        BY <1>0, <3>6
      <4>2. Per(S, 2 * n, 2 * (S * d)) = Ratio(S * (2 * n), 2 * (S * d))
        BY <4>1 DEF Per
      <4> HIDE DEF S
      <4>3. S * (2 * n) \in Nat /\ 2 * (S * d) \in Nat \ {0}
        <5>1. S * d \in Nat \ {0} /\ S * n \in Nat
          BY <1>0, <4>1
        <5> QED BY <1>0, <5>1
      <4>4. (S * (2 * n)) * d = n * (2 * (S * d))
        BY <1>0
      <4> DEFINE i == S * (2 * n)
                 j == 2 * (S * d)
      <4>5. i \in Nat /\ j \in Nat \ {0} /\ i * d = n * j
        BY <4>3, <4>4
      <4> HIDE DEF i, j
      <4>6. Ratio(i, j) = Ratio(n, d)
        BY <4>5, RatiosEqual
      <4> QED BY <2>1, <4>2, <4>6 DEF i, j
    <3> HIDE DEF S, scale
    <3> QED BY <2>4, <3>5, <3>6 DEF S, scale
  <2>5. CASE measure # "rho"
    <3> DEFINE e == s * d
    <3>1. scale = Divided(Whole(S), Squared(q))
      BY <1>5, <2>5 DEF NoiseScale
    <3>2. Squared(q) = Ratio(n * n, d * d)
      BY <2>1, TimesRatios DEF Squared
    <3>3. n * n \in Nat \ {0} /\ d * d \in Nat \ {0} /\ e \in Nat
      BY <2>2
    <3>4. scale = Ratio(e * e, n * n)
      <4> DEFINE a == n * n
                 b == d * d
      <4>1. a \in Nat \ {0} /\ b \in Nat \ {0}
        BY <3>3
      <4>2. S * b = e * e
        OBVIOUS
      <4>3. scale = Divided(Ratio(S, 1), Ratio(a, b))
        BY <2>3, <3>1, <3>2
      <4> HIDE DEF a, b, S, e
      <4>4. (S * b # 0 \/ 1 * a # 0) /\ 1 * a = a
        BY <4>1
      <4>5. Divided(Ratio(S, 1), Ratio(a, b)) = Ratio(S * b, 1 * a)
        BY <1>0, <4>1, <4>4, DividedRatios
      <4> QED BY <4>2, <4>3, <4>4, <4>5 DEF a
    <3>5. scale = Squared(Ratio(e, n))
      <4> HIDE DEF e, scale
      <4>1. Times(Ratio(e, n), Ratio(e, n)) = Ratio(e * e, n * n)
        <5>1. e * e # 0 \/ n * n # 0
          BY <3>3
        <5> QED BY <2>2, <3>3, <5>1, TimesRatios
      <4> QED BY <3>4, <4>1 DEF Squared
    <3>6. /\ scale \in Exact
          /\ \E r \in Exact : scale = Squared(r)
          /\ Lost(measure, mech, s, S, scale) = Per(s, n, e)
      <4> HIDE DEF e, scale, S
      <4> QED BY <1>2, <2>2, <2>5, <3>3, <3>5
    <3>7. ASSUME s # 0 PROVE Per(s, n, e) = q
      <4>1. s * n \in Nat /\ e \in Nat \ {0} /\ (s * n) * d = n * e
        BY <3>7
      <4> DEFINE i == s * n
      <4> HIDE DEF i, e
      <4>2. Ratio(i, e) = Ratio(n, d)
        BY <4>1, RatiosEqual DEF i
      <4> QED BY <2>1, <3>7, <4>2 DEF Per, i
    <3> HIDE DEF S, scale
    <3> QED BY <2>5, <3>6, <3>7 DEF S, scale
  <2> QED BY <2>4, <2>5
<1> QED BY <1>3, <1>4, <1>5

-----------------------------------------------------------------------------
(* Sums over the copies of rows *)

(* The copies of a row.                                                    *)
LEMMA CopiesOfRow ==
  ASSUME NEW r, NEW n \in Nat
  PROVE  IsFiniteSet({r} \X (1 .. n)) /\ Cardinality({r} \X (1 .. n)) = n
<1> DEFINE A == {r}
           B == 1 .. n
<1>1. IsFiniteSet(A) /\ Cardinality(A) = 1
  BY FS_Singleton
<1>2. IsFiniteSet(B) /\ Cardinality(B) = n
  <2>1. IsFiniteSet(1 .. n) /\ Cardinality(1 .. n) = IF 1 > n THEN 0 ELSE n - 1 + 1
    BY FS_Interval
  <2> QED BY <2>1
<1> HIDE DEF A, B
<1>3. IsFiniteSet(A \X B) /\ Cardinality(A \X B) = Cardinality(A) * Cardinality(B)
  BY <1>1, <1>2, FS_Product
<1> QED BY <1>1, <1>2, <1>3 DEF A, B

(* The number of rows of a table, as a sum.                                *)
LEMMA NumRowsIsSum ==
  ASSUME NEW T, IsTable(T)
  PROVE  NumRows(T) = SumFunction([r \in DOMAIN T |-> T[r]])
<1> DEFINE f == [r \in DOMAIN T |-> T[r]]
           P == [r \in DOMAIN T |-> {r} \X (1 .. T[r])]
<1>1. IsFiniteSet(DOMAIN T) /\ \A r \in DOMAIN T : T[r] \in Nat /\ T[r] > 0
  BY DEF IsTable, IsABag, BagToSet
<1>2. \A r \in DOMAIN f : IsFiniteSet(P[r]) /\ f[r] = Cardinality(P[r])
  BY <1>1, CopiesOfRow
<1>3. \A j, k \in DOMAIN f : j # k => P[j] \cap P[k] = {}
  OBVIOUS
<1>4. UNION {P[k] : k \in DOMAIN f} = Copies(T)
  BY DEF Copies, BagToSet
<1>5. IsFiniteSet(DOMAIN f)
  BY <1>1
<1>6. SumFunction(f) = SumFunction([r \in DOMAIN T |-> T[r]])
  OBVIOUS
<1> HIDE DEF f, P
<1>7. /\ IsFiniteSet(UNION {P[k] : k \in DOMAIN f})
      /\ SumFunction(f) = Cardinality(UNION {P[k] : k \in DOMAIN f})
  BY <1>2, <1>3, <1>5, SumOfParts
<1> QED BY <1>4, <1>6, <1>7 DEF NumRows

(* A sum of weights: w[r] for each copy of r.                              *)
WeightOf(T, w) == SumFunction([r \in DOMAIN T |-> T[r] * w[r]])
(* The units that natural weights are made of.                             *)
Units(T, w) == UNION {({r} \X (1 .. T[r])) \X (1 .. w[r]) : r \in DOMAIN T}

LEMMA WeightIsInt ==
  ASSUME NEW T, IsTable(T), NEW w, \A r \in DOMAIN T : w[r] \in Int
  PROVE  WeightOf(T, w) \in Int
<1> DEFINE f == [r \in DOMAIN T |-> T[r] * w[r]]
<1>1. IsFiniteSet(DOMAIN f) /\ \A r \in DOMAIN f : f[r] \in Int
  <2>1. IsFiniteSet(DOMAIN T) /\ \A r \in DOMAIN T : T[r] \in Nat
    BY DEF IsTable, IsABag, BagToSet
  <2>2. \A m, n \in Int : m * n \in Int
    OBVIOUS
  <2> QED BY <2>1, <2>2
<1> HIDE DEF f
<1> QED BY <1>1, SumIsInt DEF WeightOf, f

LEMMA UnitsCount ==
  ASSUME NEW T, IsTable(T), NEW w, \A r \in DOMAIN T : w[r] \in Nat
  PROVE  /\ IsFiniteSet(Units(T, w)) /\ WeightOf(T, w) = Cardinality(Units(T, w))
         /\ \A x : x \in Units(T, w)
              <=> \E y \in Copies(T) : \E j \in 1 .. w[y[1]] : x = <<y, j>>
<1> DEFINE f == [r \in DOMAIN T |-> T[r] * w[r]]
           P == [r \in DOMAIN T |-> ({r} \X (1 .. T[r])) \X (1 .. w[r])]
<1>1. IsFiniteSet(DOMAIN T) /\ \A r \in DOMAIN T : T[r] \in Nat /\ T[r] > 0
  BY DEF IsTable, IsABag, BagToSet
<1>0. \A n \in Nat : IsFiniteSet(1 .. n) /\ Cardinality(1 .. n) = n
  <2> SUFFICES ASSUME NEW n \in Nat PROVE IsFiniteSet(1 .. n) /\ Cardinality(1 .. n) = n
    OBVIOUS
  <2>1. IsFiniteSet(1 .. n) /\ Cardinality(1 .. n) = IF 1 > n THEN 0 ELSE n - 1 + 1
    BY FS_Interval
  <2> QED BY <2>1
<1>2. \A r \in DOMAIN f : IsFiniteSet(P[r]) /\ f[r] = Cardinality(P[r])
  <2> SUFFICES ASSUME NEW r \in DOMAIN T
               PROVE  /\ IsFiniteSet(({r} \X (1 .. T[r])) \X (1 .. w[r]))
                      /\ Cardinality(({r} \X (1 .. T[r])) \X (1 .. w[r])) = T[r] * w[r]
    OBVIOUS
  <2> DEFINE A == {r} \X (1 .. T[r])
             B == 1 .. w[r]
  <2>1. IsFiniteSet(A) /\ Cardinality(A) = T[r]
    BY <1>1, CopiesOfRow
  <2>2. IsFiniteSet(B) /\ Cardinality(B) = w[r]
    BY <1>0
  <2> HIDE DEF A, B
  <2>3. IsFiniteSet(A \X B) /\ Cardinality(A \X B) = Cardinality(A) * Cardinality(B)
    BY <2>1, <2>2, FS_Product
  <2> QED BY <2>1, <2>2, <2>3 DEF A, B
<1>3. \A j, k \in DOMAIN f : j # k => P[j] \cap P[k] = {}
  OBVIOUS
<1>4. UNION {P[k] : k \in DOMAIN f} = Units(T, w)
  BY DEF Units
<1>5. IsFiniteSet(DOMAIN f)
  BY <1>1
<1>6. WeightOf(T, w) = SumFunction(f)
  BY DEF WeightOf
<1> HIDE DEF f, P
<1>7. IsFiniteSet(Units(T, w)) /\ WeightOf(T, w) = Cardinality(Units(T, w))
  BY <1>2, <1>3, <1>4, <1>5, <1>6, SumOfParts
<1>8. ASSUME NEW x
      PROVE  x \in Units(T, w) <=> \E y \in Copies(T) : \E j \in 1 .. w[y[1]] : x = <<y, j>>
  <2>1. \A y : y \in Copies(T) <=> \E r \in DOMAIN T : \E i \in 1 .. T[r] : y = <<r, i>>
    BY CopiesOfTable
  <2>2. ASSUME x \in Units(T, w) PROVE \E y \in Copies(T) : \E j \in 1 .. w[y[1]] : x = <<y, j>>
    <3>1. PICK r \in DOMAIN T : x \in ({r} \X (1 .. T[r])) \X (1 .. w[r])
      BY <2>2 DEF Units
    <3>2. PICK i \in 1 .. T[r], j \in 1 .. w[r] : x = <<<<r, i>>, j>>
      BY <3>1
    <3> QED BY <2>1, <3>2
  <2>3. ASSUME \E y \in Copies(T) : \E j \in 1 .. w[y[1]] : x = <<y, j>>
        PROVE  x \in Units(T, w)
    <3>0. PICK y \in Copies(T) : \E j \in 1 .. w[y[1]] : x = <<y, j>>
      BY <2>3
    <3>1. PICK r \in DOMAIN T : \E i \in 1 .. T[r] : y = <<r, i>>
      BY <2>1
    <3>2. x \in ({r} \X (1 .. T[r])) \X (1 .. w[r])
      BY <3>0, <3>1
    <3> QED BY <3>2 DEF Units
  <2> QED BY <2>2, <2>3
<1> QED BY <1>7, <1>8

(* Weights of at most n make a difference of at most n for each row that   *)
(* one table has and the other has not.                                    *)
LEMMA NaturalWeights ==
  ASSUME NEW L, IsTable(L), NEW R, IsTable(R), NEW n \in Nat,
         NEW w, \A r \in DOMAIN L \cup DOMAIN R : w[r] \in 0 .. n
  PROVE  WeightOf(L, w) - WeightOf(R, w) <= n * Cardinality(ExceptAll(L, R))
<1>1. /\ IsFiniteSet(Units(L, w)) /\ WeightOf(L, w) = Cardinality(Units(L, w))
      /\ \A x : x \in Units(L, w)
              <=> \E y \in Copies(L) : \E j \in 1 .. w[y[1]] : x = <<y, j>>
  BY UnitsCount
<1>2. /\ IsFiniteSet(Units(R, w)) /\ WeightOf(R, w) = Cardinality(Units(R, w))
      /\ \A x : x \in Units(R, w)
              <=> \E y \in Copies(R) : \E j \in 1 .. w[y[1]] : x = <<y, j>>
  BY UnitsCount
<1> DEFINE S == Units(L, w) \ Units(R, w)
           E == ExceptAll(L, R)
           h == [x \in S |-> x[1]]
<1>3. IsFiniteSet(E)
  BY RowsApartCount
<1>4. h \in [S -> E]
  <2> SUFFICES ASSUME NEW x \in S PROVE x[1] \in E
    OBVIOUS
  <2>1. PICK y \in Copies(L) : \E j \in 1 .. w[y[1]] : x = <<y, j>>
    BY <1>1
  <2>2. y \notin Copies(R)
    BY <1>2, <2>1
  <2> QED BY <2>1, <2>2 DEF ExceptAll
<1>5. ASSUME NEW y \in E
      PROVE  IsFiniteSet({x \in S : h[x] = y}) /\ Cardinality({x \in S : h[x] = y}) <= n
  <2> DEFINE X == {x \in S : h[x] = y}
             g == [x \in X |-> x[2]]
  <2>1. w[y[1]] \in 0 .. n
    BY CopiesOfTable DEF ExceptAll
  <2>2. \A x \in X : x = <<y, x[2]>> /\ x[2] \in 1 .. n
    <3> SUFFICES ASSUME NEW x \in X PROVE x = <<y, x[2]>> /\ x[2] \in 1 .. n
      OBVIOUS
    <3>1. PICK z \in Copies(L) : \E j \in 1 .. w[z[1]] : x = <<z, j>>
      BY <1>1
    <3>2. z = y
      BY <3>1
    <3> QED BY <2>1, <3>1, <3>2
  <2>3. g \in Injection(X, 1 .. n)
    <3>1. g \in [X -> 1 .. n]
      BY <2>2
    <3>2. \A x, z \in X : g[x] = g[z] => x = z
      BY <2>2
    <3> QED BY <3>1, <3>2 DEF Injection, IsInjective
  <2>4. IsFiniteSet(1 .. n) /\ Cardinality(1 .. n) = n
    <3>1. IsFiniteSet(1 .. n) /\ Cardinality(1 .. n) = IF 1 > n THEN 0 ELSE n - 1 + 1
      BY FS_Interval
    <3> QED BY <3>1
  <2> HIDE DEF X, g
  <2>5. IsFiniteSet(X) /\ Cardinality(X) <= n
    BY <2>3, <2>4, FS_Injection
  <2> QED BY <2>5 DEF X
<1> HIDE DEF h, E
<1>6. Cardinality(S) <= n * Cardinality(E) /\ Cardinality(S) \in Nat
  <2> HIDE DEF S
  <2>1. \A y \in E : IsFiniteSet({x \in S : h[x] = y}) /\ Cardinality({x \in S : h[x] = y}) <= n
    BY <1>5
  <2>2. Fans(h, n, S, E)
    BY <1>4, <2>1 DEF Fans
  <2> QED BY <1>3, <2>2, FannedFinite
<1>7. Cardinality(Units(L, w)) - Cardinality(Units(R, w)) <= Cardinality(S)
  <2> DEFINE A == Units(L, w)
             B == Units(R, w)
  <2>1. IsFiniteSet(A) /\ IsFiniteSet(B) /\ IsFiniteSet(A \cap B)
    BY <1>1, <1>2, FS_Subset
  <2>2. Cardinality(A \ B) = Cardinality(A) - Cardinality(A \cap B)
    <3> HIDE DEF A, B
    <3> QED BY <2>1, FS_Difference
  <2>3. Cardinality(A \cap B) <= Cardinality(B)
    <3> HIDE DEF A
    <3> QED BY <2>1, FS_Subset
  <2>4. Cardinality(A) \in Nat /\ Cardinality(B) \in Nat /\ Cardinality(A \cap B) \in Nat
    BY <2>1, FS_CardinalityType
  <2> QED BY <2>2, <2>3, <2>4
<1>8. Cardinality(E) \in Nat /\ n * Cardinality(E) \in Nat
  BY <1>3, FS_CardinalityType
<1>9. Cardinality(Units(L, w)) \in Nat /\ Cardinality(Units(R, w)) \in Nat
  BY <1>1, <1>2, FS_CardinalityType
<1> QED BY <1>1, <1>2, <1>6, <1>7, <1>8, <1>9 DEF E

(* The rows that either table has beyond the other's make the difference.  *)
LEMMA RowsDiffer ==
  ASSUME NEW L, IsTable(L), NEW R, IsTable(R)
  PROVE  NumRows(L) - NumRows(R) = Cardinality(ExceptAll(L, R)) - Cardinality(ExceptAll(R, L))
<1> DEFINE A == Copies(L)
           B == Copies(R)
<1>1. IsFiniteSet(A) /\ IsFiniteSet(B) /\ IsFiniteSet(A \cap B) /\ B \cap A = A \cap B
  BY CopiesOfTable, FS_Subset
<1>2. Cardinality(A \ B) = Cardinality(A) - Cardinality(A \cap B)
  <2> HIDE DEF A, B
  <2> QED BY <1>1, FS_Difference
<1>3. Cardinality(B \ A) = Cardinality(B) - Cardinality(A \cap B)
  <2> HIDE DEF A, B
  <2> QED BY <1>1, FS_Difference
<1>4. Cardinality(A) \in Nat /\ Cardinality(B) \in Nat /\ Cardinality(A \cap B) \in Nat
  BY <1>1, FS_CardinalityType
<1> QED BY <1>2, <1>3, <1>4 DEF NumRows, ExceptAll

(* The copies of rows of S.                                                *)
PartCopies(T, S) == {y \in Copies(T) : y[1] \in S}

(* What L has more of, and R has more of: rows of S, and other rows.       *)
DifferBy(L, R, S, a, b, c, d) ==
  /\ Cardinality(PartCopies(L, S)) - Cardinality(PartCopies(R, S)) = a - b
  /\ NumRows(L) - NumRows(R) = (a + c) - (b + d)
  /\ RowsApart(L, R) = (a + c) + (b + d)

LEMMA CopiesInDiffer ==
  ASSUME NEW L, IsTable(L), NEW R, IsTable(R), NEW S
  PROVE  \E a, b, c, d \in Nat : DifferBy(L, R, S, a, b, c, d)
<1> DEFINE A == PartCopies(L, S)
           B == PartCopies(R, S)
           E == ExceptAll(L, R)
           F == ExceptAll(R, L)
           E1 == {y \in E : y[1] \in S}
           F1 == {y \in F : y[1] \in S}
<1>1. IsFiniteSet(Copies(L)) /\ IsFiniteSet(Copies(R)) /\ IsFiniteSet(E) /\ IsFiniteSet(F)
  BY CopiesOfTable, RowsApartCount
<1>2. IsFiniteSet(A) /\ IsFiniteSet(B) /\ IsFiniteSet(E1) /\ IsFiniteSet(F1)
  BY <1>1, FS_Subset DEF PartCopies
<1>3. /\ Cardinality(A \ B) = Cardinality(E1) /\ Cardinality(B \ A) = Cardinality(F1)
      /\ Cardinality(A \cap B) = Cardinality(B \cap A)
  <2>1. A \ B = E1 /\ B \ A = F1 /\ A \cap B = B \cap A
    BY DEF PartCopies, ExceptAll
  <2> QED BY <2>1, Zenon
<1>4. E \cap E1 = E1 /\ F \cap F1 = F1
  OBVIOUS
<1>5. /\ NumRows(L) - NumRows(R) = Cardinality(E) - Cardinality(F)
      /\ RowsApart(L, R) = Cardinality(E) + Cardinality(F)
  BY RowsDiffer DEF RowsApart
<1> HIDE DEF A, B, E, F, E1, F1
<1>6. /\ Cardinality(A \ B) = Cardinality(A) - Cardinality(A \cap B)
      /\ Cardinality(B \ A) = Cardinality(B) - Cardinality(B \cap A)
      /\ Cardinality(E \ E1) = Cardinality(E) - Cardinality(E1)
      /\ Cardinality(F \ F1) = Cardinality(F) - Cardinality(F1)
      /\ IsFiniteSet(E \ E1) /\ IsFiniteSet(F \ F1) /\ IsFiniteSet(A \cap B)
  <2>1. /\ Cardinality(A \ B) = Cardinality(A) - Cardinality(A \cap B)
        /\ Cardinality(B \ A) = Cardinality(B) - Cardinality(B \cap A)
    BY <1>2, FS_Difference
  <2>2. /\ IsFiniteSet(E \ E1) /\ Cardinality(E \ E1) = Cardinality(E) - Cardinality(E \cap E1)
        /\ IsFiniteSet(F \ F1) /\ Cardinality(F \ F1) = Cardinality(F) - Cardinality(F \cap F1)
    BY <1>1, FS_Difference
  <2>3. IsFiniteSet(A \cap B)
    BY <1>2, FS_Subset
  <2> QED BY <1>4, <2>1, <2>2, <2>3
<1>7. /\ Cardinality(E1) \in Nat /\ Cardinality(F1) \in Nat
      /\ Cardinality(E) \in Nat /\ Cardinality(F) \in Nat
      /\ Cardinality(E \ E1) \in Nat /\ Cardinality(F \ F1) \in Nat
      /\ Cardinality(A) \in Nat /\ Cardinality(B) \in Nat /\ Cardinality(A \cap B) \in Nat
  BY <1>1, <1>2, <1>6, FS_CardinalityType
<1>8. PICK a \in Nat, b \in Nat, c \in Nat, d \in Nat :
        a = Cardinality(E1) /\ b = Cardinality(F1)
        /\ c = Cardinality(E \ E1) /\ d = Cardinality(F \ F1)
  BY <1>7
<1>9. /\ Cardinality(A) - Cardinality(B) = a - b
      /\ Cardinality(E) = a + c /\ Cardinality(F) = b + d
  <2>1. Cardinality(E1) = Cardinality(A) - Cardinality(A \cap B)
    BY <1>3, <1>6, Zenon
  <2>2. Cardinality(F1) = Cardinality(B) - Cardinality(A \cap B)
    BY <1>3, <1>6, Zenon
  <2>3. /\ Cardinality(E \ E1) = Cardinality(E) - Cardinality(E1)
        /\ Cardinality(F \ F1) = Cardinality(F) - Cardinality(F1)
    BY <1>6
  <2> QED BY <1>7, <1>8, <2>1, <2>2, <2>3
<1>10. Cardinality(PartCopies(L, S)) - Cardinality(PartCopies(R, S)) = a - b
  BY <1>9 DEF A, B
<1>11. DifferBy(L, R, S, a, b, c, d)
  BY <1>5, <1>8, <1>9, <1>10 DEF DifferBy
<1> QED BY <1>11

(* Rows that are dropped, by what they are, take their copies with them.   *)
LEMMA CopiesOfPart ==
  ASSUME NEW T, IsTable(T), NEW R \in SUBSET DOMAIN T, NEW S, R = DOMAIN T \cap S
  PROVE  /\ IsTable(Restrict(T, R))
         /\ Copies(Restrict(T, R)) = PartCopies(T, S)
<1> DEFINE U == Restrict(T, R)
<1>1. IsTable(U) /\ DOMAIN U = R
  BY RestrictIsTable
<1>2. \A r \in R : U[r] = T[r]
  BY DEF Restrict
<1> HIDE DEF U
<1>3. \A x : x \in Copies(U) <=> \E r \in R : \E i \in 1 .. T[r] : x = <<r, i>>
  <2>1. \A x : x \in Copies(U) <=> \E r \in DOMAIN U : \E i \in 1 .. U[r] : x = <<r, i>>
    BY <1>1, CopiesOfTable
  <2> QED BY <1>1, <1>2, <2>1
<1>4. \A x : x \in Copies(T) <=> \E r \in DOMAIN T : \E i \in 1 .. T[r] : x = <<r, i>>
  BY CopiesOfTable
<1>5. Copies(U) = PartCopies(T, S)
  BY <1>3, <1>4 DEF PartCopies
<1> QED BY <1>1, <1>5 DEF U

(* Weights between lo and hi.                                              *)
LEMMA WeightsBetween ==
  ASSUME NEW L, IsTable(L), NEW R, IsTable(R), NEW lo \in Int, NEW hi \in Int, lo <= hi,
         NEW w, \A r \in DOMAIN L \cup DOMAIN R : w[r] \in lo .. hi
  PROVE  /\ WeightOf(L, w) \in Int /\ WeightOf(R, w) \in Int
         /\ WeightOf(L, w) - WeightOf(R, w)
              <= hi * Cardinality(ExceptAll(L, R)) - lo * Cardinality(ExceptAll(R, L))
<1> DEFINE u == [r \in DOMAIN L \cup DOMAIN R |-> w[r] - lo]
<1>1. \A r \in DOMAIN L \cup DOMAIN R : w[r] \in Int /\ u[r] \in Int /\ u[r] \in 0 .. hi - lo
  OBVIOUS
<1>2. ASSUME NEW T \in {L, R}
      PROVE  /\ WeightOf(T, w) \in Int /\ WeightOf(T, u) \in Int
             /\ WeightOf(T, u) = WeightOf(T, w) - lo * NumRows(T)
  <2>1. IsTable(T) /\ DOMAIN T \subseteq DOMAIN L \cup DOMAIN R
    OBVIOUS
  <2>2. IsFiniteSet(DOMAIN T) /\ \A r \in DOMAIN T : T[r] \in Nat
    BY <2>1 DEF IsTable, IsABag, BagToSet
  <2> DEFINE f == [r \in DOMAIN T |-> T[r] * w[r]]
             g == [r \in DOMAIN T |-> T[r]]
             h == [r \in DOMAIN T |-> T[r] * u[r]]
  <2>3. \A r \in DOMAIN T : f[r] \in Int /\ g[r] \in Int /\ h[r] = f[r] - lo * g[r]
    <3> SUFFICES ASSUME NEW r \in DOMAIN T
                 PROVE  f[r] \in Int /\ g[r] \in Int /\ h[r] = f[r] - lo * g[r]
      OBVIOUS
    <3>1. PICK t \in Nat, v \in Int : t = T[r] /\ v = w[r]
      BY <1>1, <2>1, <2>2
    <3>2. t * (v - lo) = t * v - lo * t /\ t * v \in Int
      OBVIOUS
    <3>3. f[r] = t * v /\ g[r] = t /\ h[r] = t * (v - lo)
      BY <2>1, <3>1
    <3> QED BY <3>2, <3>3
  <2>4. DOMAIN f = DOMAIN T /\ DOMAIN g = DOMAIN T /\ DOMAIN h = DOMAIN T
    OBVIOUS
  <2>5. WeightOf(T, w) = SumFunction(f) /\ WeightOf(T, u) = SumFunction(h)
    BY DEF WeightOf
  <2>6. NumRows(T) = SumFunction(g)
    BY <2>1, NumRowsIsSum
  <2>7. WeightOf(T, w) \in Int /\ WeightOf(T, u) \in Int
    <3> HIDE DEF u
    <3> QED BY <1>1, <2>1, WeightIsInt
  <2> HIDE DEF f, g, h, u
  <2>8. SumFunction(h) = SumFunction(f) - lo * SumFunction(g)
    BY <2>2, <2>3, <2>4, SumOfDifferences
  <2> QED BY <2>5, <2>6, <2>7, <2>8
<1> DEFINE p == Cardinality(ExceptAll(L, R))
           q == Cardinality(ExceptAll(R, L))
<1>3. WeightOf(L, u) - WeightOf(R, u) <= (hi - lo) * p
  <2>1. hi - lo \in Nat
    OBVIOUS
  <2> HIDE DEF u
  <2> QED BY <1>1, <2>1, NaturalWeights
<1> HIDE DEF u
<1>4. p \in Nat /\ q \in Nat
  BY RowsApartCount
<1>5. NumRows(L) - NumRows(R) = p - q /\ NumRows(L) \in Nat /\ NumRows(R) \in Nat
  BY RowsDiffer, CopiesOfTable
<1> HIDE DEF p, q
<1>6. PICK a \in Int, b \in Int, m \in Nat, n \in Nat :
        a = WeightOf(L, w) /\ b = WeightOf(R, w) /\ m = NumRows(L) /\ n = NumRows(R)
  BY <1>2, <1>5
<1>7. (a - lo * m) - (b - lo * n) <= (hi - lo) * p
  BY <1>2, <1>3, <1>6
<1>8. lo * m - lo * n = lo * p - lo * q
  <2>1. m - n = p - q
    BY <1>5, <1>6
  <2>2. lo * (m - n) = lo * m - lo * n /\ lo * (p - q) = lo * p - lo * q
    BY <1>4, <1>6
  <2> QED BY <2>1, <2>2
<1>9. /\ (hi - lo) * p = hi * p - lo * p /\ hi * p \in Int /\ lo * p \in Int /\ lo * q \in Int
      /\ lo * m \in Int /\ lo * n \in Int
  BY <1>4, <1>6
<1>10. a - b <= hi * p - lo * q
  BY <1>7, <1>8, <1>9
<1>11. WeightOf(L, w) \in Int /\ WeightOf(R, w) \in Int
  BY <1>2
<1> QED BY <1>6, <1>10, <1>11 DEF p, q

-----------------------------------------------------------------------------
(* How sensitive numbers are to rows *)

(* Adding or removing a row changes the number of rows by 1, that of       *)
(* distinct rows by 1 at most, and a sum by the largest bound.             *)
LEMMA CountChange ==
  ASSUME NEW L, IsTable(L), NEW R, IsTable(R)
  PROVE  Abs(NumRows(L) - NumRows(R)) <= RowsApart(L, R)
<1>1. Cardinality(ExceptAll(L, R)) \in Nat /\ Cardinality(ExceptAll(R, L)) \in Nat
  BY RowsApartCount
<1>2. NumRows(L) - NumRows(R) = Cardinality(ExceptAll(L, R)) - Cardinality(ExceptAll(R, L))
  BY RowsDiffer
<1> QED BY <1>1, <1>2 DEF Abs, RowsApart

(* A row that only one table has, however often, is there at least once.   *)
LEMMA DistinctBeyond ==
  ASSUME NEW L, IsTable(L), NEW R, IsTable(R)
  PROVE  /\ Cardinality(BagToSet(L)) \in Nat /\ Cardinality(BagToSet(R)) \in Nat
         /\ Cardinality(BagToSet(L)) - Cardinality(BagToSet(R)) <= Cardinality(ExceptAll(L, R))
<1> DEFINE A == BagToSet(L)
           B == BagToSet(R)
           E == ExceptAll(L, R)
           h == [r \in A \ B |-> <<r, 1>>]
<1>1. IsFiniteSet(A) /\ IsFiniteSet(B) /\ A = DOMAIN L /\ B = DOMAIN R
  BY DEF IsTable, BagToSet
<1>2. IsFiniteSet(A \cap B) /\ IsFiniteSet(A \ B) /\ IsFiniteSet(E)
  BY <1>1, FS_Subset, RowsApartCount
<1>3. h \in Injection(A \ B, E)
  <2>1. ASSUME NEW r \in A \ B PROVE <<r, 1>> \in E
    <3>1. <<r, 1>> \in Copies(L)
      BY <1>1, CopiesOfTable
    <3>2. <<r, 1>> \notin Copies(R)
      <4>1. <<r, 1>>[1] = r
        OBVIOUS
      <4> QED BY <1>1, <4>1, CopiesOfTable
    <3> QED BY <3>1, <3>2 DEF ExceptAll
  <2>2. h \in [A \ B -> E]
    BY <2>1
  <2>3. \A x, y \in A \ B : h[x] = h[y] => x = y
    OBVIOUS
  <2> QED BY <2>2, <2>3 DEF Injection, IsInjective
<1> HIDE DEF A, B, E, h
<1>4. Cardinality(A \ B) <= Cardinality(E)
  BY <1>2, <1>3, FS_Injection
<1>5. Cardinality(A \ B) = Cardinality(A) - Cardinality(A \cap B)
  BY <1>1, FS_Difference
<1>6. Cardinality(A \cap B) <= Cardinality(B)
  BY <1>1, FS_Subset
<1>7. /\ Cardinality(A) \in Nat /\ Cardinality(B) \in Nat /\ Cardinality(A \cap B) \in Nat
      /\ Cardinality(E) \in Nat
  BY <1>1, <1>2, FS_CardinalityType
<1> QED BY <1>4, <1>5, <1>6, <1>7 DEF A, B, E

LEMMA CountDistinctChange ==
  ASSUME NEW L, IsTable(L), NEW R, IsTable(R)
  PROVE  /\ Cardinality(BagToSet(L)) \in Nat /\ Cardinality(BagToSet(R)) \in Nat
         /\ Abs(Cardinality(BagToSet(L)) - Cardinality(BagToSet(R))) <= RowsApart(L, R)
<1>1. Cardinality(ExceptAll(L, R)) \in Nat /\ Cardinality(ExceptAll(R, L)) \in Nat
  BY RowsApartCount
<1>2. /\ Cardinality(BagToSet(L)) \in Nat /\ Cardinality(BagToSet(R)) \in Nat
      /\ Cardinality(BagToSet(L)) - Cardinality(BagToSet(R)) <= Cardinality(ExceptAll(L, R))
  BY DistinctBeyond
<1>3. Cardinality(BagToSet(R)) - Cardinality(BagToSet(L)) <= Cardinality(ExceptAll(R, L))
  BY DistinctBeyond
<1> QED BY <1>1, <1>2, <1>3 DEF Abs, RowsApart

(* Bounds that a number of the grid lies between.                          *)
HoldGrid(b, grid) == RoundedUp(b[1], grid) <= RoundedDown(b[2], grid)

LEMMA RoundedIntegers ==
  ASSUME NEW x \in Int, NEW grid \in Nat \ {0}
  PROVE  /\ RoundedUp(x, grid) \in Int /\ x <= RoundedUp(x, grid)
         /\ RoundedDown(x, grid) \in Int /\ RoundedDown(x, grid) <= x
<1>1. \A y \in Int : (y \div grid) * grid \in Int /\ (y \div grid) * grid <= y
  <2> SUFFICES ASSUME NEW y \in Int
               PROVE  (y \div grid) * grid \in Int /\ (y \div grid) * grid <= y
    OBVIOUS
  <2>1. y \div grid \in Int /\ y % grid \in 0 .. grid - 1 /\ y = grid * (y \div grid) + (y % grid)
    OBVIOUS
  <2>2. (y \div grid) * grid = grid * (y \div grid)
    BY <2>1
  <2> QED BY <2>1, <2>2
<1>2. RoundedUp(x, grid) = -(((-x) \div grid) * grid)
  <2>1. (-x) \div grid \in Int
    OBVIOUS
  <2>2. \A a \in Int : -a * grid = -(a * grid)
    OBVIOUS
  <2> QED BY <2>1, <2>2 DEF RoundedUp
<1>3. -x \in Int
  OBVIOUS
<1> QED BY <1>1, <1>2, <1>3 DEF RoundedDown

(* What is clipped is within the bounds, rounded inwards or not.           *)
LEMMA ClippedWithin ==
  ASSUME NEW b \in Int \X Int, NEW grid \in Nat \ {0}, HoldGrid(b, grid), NEW x \in Int
  PROVE  Clipped(x, b, grid) \in b[1] .. b[2] /\ b[1] <= b[2]
<1>1. b[1] \in Int /\ b[2] \in Int
  OBVIOUS
<1>2. /\ RoundedUp(b[1], grid) \in Int /\ b[1] <= RoundedUp(b[1], grid)
      /\ RoundedDown(b[2], grid) \in Int /\ RoundedDown(b[2], grid) <= b[2]
      /\ RoundedDown(b[1], grid) \in Int /\ RoundedDown(b[1], grid) <= b[1]
  BY <1>1, RoundedIntegers
<1> DEFINE lower == RoundedUp(b[1], grid)
           upper == IF b[1] = b[2] THEN lower ELSE RoundedDown(b[2], grid)
<1>3. b[1] <= lower /\ lower <= upper /\ upper <= b[2] /\ lower \in Int /\ upper \in Int
  BY <1>1, <1>2 DEF HoldGrid
<1>4. Clipped(x, b, grid) = IF x < lower THEN lower ELSE IF x > upper THEN upper ELSE x
  BY DEF Clipped
<1> HIDE DEF lower, upper
<1> QED BY <1>1, <1>3, <1>4

(* Largest is the largest absolute value within bounds.                    *)
LEMMA LargestBounds ==
  ASSUME NEW b \in Int \X Int, b[1] <= b[2]
  PROVE  /\ Largest(b) \in Nat
         /\ b[1] <= Largest(b) /\ b[2] <= Largest(b)
         /\ -b[1] <= Largest(b) /\ -b[2] <= Largest(b)
BY DEF Largest, Larger, Abs

(* The change of a sum of clipped numbers.                                 *)
LEMMA SumChange ==
  ASSUME NEW L, IsTable(L), NEW R, IsTable(R), NEW b \in Int \X Int, NEW w,
         b[1] <= b[2], \A r \in DOMAIN L \cup DOMAIN R : w[r] \in b[1] .. b[2]
  PROVE  /\ WeightOf(L, w) \in Int /\ WeightOf(R, w) \in Int
         /\ Abs(WeightOf(L, w) - WeightOf(R, w)) <= Largest(b) * RowsApart(L, R)
         /\ NumRows(L) = NumRows(R) =>
              Abs(WeightOf(L, w) - WeightOf(R, w))
                <= (b[2] - b[1]) * Cardinality(ExceptAll(L, R))
<1> DEFINE p == Cardinality(ExceptAll(L, R))
           q == Cardinality(ExceptAll(R, L))
           lo == b[1]
           hi == b[2]
           m == Largest(b)
<1>1. p \in Nat /\ q \in Nat /\ (NumRows(L) = NumRows(R) => p = q) /\ RowsApart(L, R) = p + q
  BY RowsApartCount DEF RowsApart
<1>2. lo \in Int /\ hi \in Int /\ lo <= hi
  OBVIOUS
<1>3. m \in Nat /\ lo <= m /\ hi <= m /\ -lo <= m /\ -hi <= m
  BY LargestBounds
<1>4. /\ WeightOf(L, w) \in Int /\ WeightOf(R, w) \in Int
      /\ WeightOf(L, w) - WeightOf(R, w) <= hi * p - lo * q
  BY <1>2, WeightsBetween
<1>5. WeightOf(R, w) - WeightOf(L, w) <= hi * q - lo * p
  <2>1. \A r \in DOMAIN R \cup DOMAIN L : w[r] \in lo .. hi
    OBVIOUS
  <2> QED BY <1>2, <2>1, WeightsBetween
<1> HIDE DEF p, q, lo, hi, m
<1>6. PICK a \in Int, c \in Int : a = WeightOf(L, w) /\ c = WeightOf(R, w)
  BY <1>4
<1>7. a - c <= hi * p - lo * q /\ c - a <= hi * q - lo * p
  BY <1>4, <1>5, <1>6
<1>8. /\ hi * p <= m * p /\ hi * q <= m * q /\ -(lo * p) <= m * p /\ -(lo * q) <= m * q
      /\ hi * p \in Int /\ hi * q \in Int /\ lo * p \in Int /\ lo * q \in Int
      /\ m * p \in Nat /\ m * q \in Nat /\ m * (p + q) = m * p + m * q
  <2>1. \A i, j \in Int : \A n \in Nat : i <= j => i * n <= j * n
    OBVIOUS
  <2>2. -lo \in Int /\ -lo * p = -(lo * p) /\ -lo * q = -(lo * q)
    BY <1>1, <1>2
  <2> QED BY <1>1, <1>2, <1>3, <2>1, <2>2
<1>9. Abs(a - c) <= m * (p + q)
  BY <1>7, <1>8 DEF Abs
<1>10. p = q => Abs(a - c) <= (hi - lo) * p
  <2>1. (hi - lo) * p = hi * p - lo * p
    BY <1>1, <1>2
  <2> QED BY <1>7, <1>8, <2>1 DEF Abs
<1> QED BY <1>1, <1>4, <1>6, <1>9, <1>10 DEF p, lo, hi, m

-----------------------------------------------------------------------------
(* Measurements that lose what they claim *)

(* A measurement that loses no more than it claims, of delta as well.      *)
Covered(m) ==
  /\ IsMade(m)
  /\ m.loss \in Exact /\ m.claim \in Exact
  /\ WithinClaim(m.measure, m.loss, m.claim, m.apart)
  /\ ChanceWithin(m.leak, m.delta)

LEMMA SquaredExact ==
  ASSUME NEW a \in Exact
  PROVE  Squared(a) \in Exact
<1>1. PICK n \in Nat, d \in Nat : (n # 0 \/ d # 0) /\ a = Ratio(n, d)
  BY ExactNumberIsRatio
<1>2. Squared(a) = Ratio(n * n, d * d)
  BY <1>1, TimesRatios DEF Squared
<1>3. n * n \in Nat /\ d * d \in Nat /\ (n * n # 0 \/ d * d # 0)
  BY <1>1
<1> QED BY <1>2, <1>3, RatioIsExact

LEMMA PartIsExact ==
  ASSUME NEW q \in Exact, NEW n \in Nat \ {0}
  PROVE  Part(q, n) \in Exact
<1>1. CASE q = Infinity
  BY <1>1 DEF Part
<1>2. CASE q # Infinity
  <2>1. PICK i \in Nat, j \in Nat \ {0} : q = Ratio(i, j)
    BY <1>2, ExactIsRatio
  <2>2. Whole(n) = Ratio(n, 1)
    BY ExactNumbers
  <2>3. Divided(Ratio(i, j), Ratio(n, 1)) = Ratio(i * 1, j * n)
    <3>1. j \in Nat /\ n \in Nat /\ 1 \in Nat /\ (i # 0 \/ j # 0) /\ (n # 0 \/ 1 # 0)
          /\ (i * 1 # 0 \/ j * n # 0)
      OBVIOUS
    <3> QED BY <3>1, DividedRatios
  <2>4. i * 1 \in Nat /\ j * n \in Nat /\ (i * 1 # 0 \/ j * n # 0)
    OBVIOUS
  <2> QED BY <1>2, <2>1, <2>2, <2>3, <2>4, RatioIsExact DEF Part
<1> QED BY <1>1, <1>2

(* Noise on numbers that change by no more than the sensitivity for each   *)
(* unit of distance.                                                       *)
LEMMA NoisyIsCovered ==
  ASSUME bound \in Nat \ {0}, NEW mech \in Mechanisms,
         NEW measure \in SupportedMeasures(mech),
         NEW scale \in Exact, measure # "rho" => \E e \in Exact : scale = Squared(e),
         NEW s \in Nat, NEW l1 \in Nat, NEW l2 \in Nat, NEW asked,
         mech \in PureMechanisms => l1 * l1 <= (s * s) * bound,
         mech \notin PureMechanisms => l2 <= (s * s) * bound
  PROVE  /\ Covered(Noisy(measure, mech, scale, s, asked, l1, l2))
         /\ MadeHere(Noisy(measure, mech, scale, s, asked, l1, l2), measure)
<1> DEFINE claim == Lost(measure, mech, s, s * s, scale)
           loss == Lost(measure, mech, l1, l2, scale)
           m == Noisy(measure, mech, scale, s, asked, l1, l2)
<1>1. m = Measurement(measure, bound, asked, claim, loss)
  BY DEF Noisy, Lost
<1>2. /\ WithinClaim(measure, loss, claim, bound)
      /\ loss \in Exact /\ claim \in Exact
  BY NoiseCovers
<1>3. MadeHere(m, measure)
  <2>1. measure \in Measures
    BY SupportedIsMeasure
  <2> QED BY <2>1, NoisyIsMade
<1> HIDE DEF claim, loss, m
<1>4. m.measure = measure /\ m.apart = bound /\ m.claim = claim /\ m.loss = loss
      /\ m.delta = Zero /\ m.leak = Zero
  BY <1>1 DEF Measurement
<1>5. Covered(m)
  BY <1>2, <1>3, <1>4, NothingWithinNothing DEF Covered, MadeHere
<1> QED BY <1>3, <1>5 DEF m

(* Totals of what is within other fields.                                  *)
LEMMA TotalsWithin ==
  ASSUME NEW n \in Nat, NEW ms, DOMAIN ms = 1 .. n, NEW low, NEW high,
         NEW measure, NEW A \in Nat,
         \A i \in 1 .. n : /\ ms[i][low] \in Exact /\ ms[i][high] \in Exact
                           /\ WithinClaim(measure, ms[i][low], ms[i][high], A)
  PROVE  /\ TotalOf(ms, low) \in Exact /\ TotalOf(ms, high) \in Exact
         /\ WithinClaim(measure, TotalOf(ms, low), TotalOf(ms, high), A)
<1> DEFINE f == [i \in DOMAIN ms |-> ms[i][high]]
           g == [i \in DOMAIN ms |-> ms[i][low]]
<1>1. IsFiniteSet(1 .. n)
  BY FS_Interval
<1>2. PICK c : Sums(c, f, 1 .. n) /\ c[1 .. n] = TotalOf(ms, high)
  BY TotalStepwise
<1>3. PICK l : Sums(l, g, 1 .. n) /\ l[1 .. n] = TotalOf(ms, low)
  BY TotalStepwise
<1> DEFINE P == {s \in SUBSET (1 .. n) : WithinClaim(measure, l[s], c[s], A)}
<1>4. {} \in P
  <2>1. c[{}] = Zero /\ l[{}] = Zero
    BY <1>2, <1>3 DEF Sums
  <2>2. WithinClaim(measure, Zero, Zero, A)
    BY ExactNumbers, NoLossWithinNothing
  <2> QED BY <2>1, <2>2
<1>5. ASSUME NEW s \in SUBSET (1 .. n), s # {}, s \ {FoldedFirst(s)} \in P
      PROVE  s \in P
  <2> DEFINE x == FoldedFirst(s)
             t == s \ {x}
  <2>1. /\ x \in 1 .. n /\ t \in SUBSET (1 .. n)
        /\ c[s] = Plus(f[x], c[t]) /\ l[s] = Plus(g[x], l[t])
        /\ c[t] \in Exact /\ l[t] \in Exact
    BY <1>2, <1>3, <1>5 DEF Sums
  <2>2. WithinClaim(measure, g[x], f[x], A) /\ f[x] \in Exact /\ g[x] \in Exact
    BY <2>1
  <2>3. WithinClaim(measure, l[t], c[t], A)
    BY <1>5
  <2> HIDE DEF x, t, f, g
  <2>4. WithinClaim(measure, Plus(g[x], l[t]), Plus(f[x], c[t]), A)
    BY <2>1, <2>2, <2>3, WithinAddsUp
  <2> QED BY <2>1, <2>4
<1>6. 1 .. n \in P
  <2> HIDE DEF P
  <2>1. SUBSET (1 .. n) \subseteq P
    BY <1>1, <1>4, <1>5, FoldInduction
  <2> QED BY <2>1
<1>7. c[1 .. n] \in Exact /\ l[1 .. n] \in Exact
  BY <1>2, <1>3 DEF Sums
<1> QED BY <1>2, <1>3, <1>6, <1>7

(* What is composed of them.                                               *)
LEMMA ComposedIsCovered ==
  ASSUME NEW n \in Nat \ {0}, NEW ms, DOMAIN ms = 1 .. n,
         \A i \in 1 .. n : /\ Covered(ms[i])
                           /\ ms[i].measure = ms[1].measure /\ ms[i].apart = ms[1].apart
  PROVE  Covered(Composed(ms))
<1> DEFINE measure == ms[1].measure
           apart == ms[1].apart
           m == Composed(ms)
<1>1. 1 \in 1 .. n /\ n \in Nat
  OBVIOUS
<1>2. IsMade(ms[1]) /\ apart \in Nat
  BY <1>1 DEF Covered, IsMade
<1>3. IsMade(m) /\ m.measure = measure /\ m.apart = apart
  <2>1. \A i \in 1 .. n : IsMade(ms[i]) /\ ms[i].measure = ms[1].measure
    BY DEF Covered
  <2> QED BY <2>1, ComposedIsMade
<1>4. /\ m.claim = TotalOf(ms, "claim") /\ m.loss = TotalOf(ms, "loss")
      /\ m.delta = TotalOf(ms, "delta") /\ m.leak = TotalOf(ms, "leak")
  BY <1>2, ComposedFields DEF IsMade
<1>5. \A i \in 1 .. n : /\ ms[i]["loss"] \in Exact /\ ms[i]["claim"] \in Exact
                        /\ WithinClaim(measure, ms[i]["loss"], ms[i]["claim"], apart)
  BY DEF Covered
<1>6. \A i \in 1 .. n : /\ ms[i]["leak"] \in Exact /\ ms[i]["delta"] \in Exact
                        /\ WithinClaim("rho", ms[i]["leak"], ms[i]["delta"], 1)
  BY DEF Covered, ChanceWithin
<1> HIDE DEF m, measure, apart
<1>7. /\ m.loss \in Exact /\ m.claim \in Exact
      /\ WithinClaim(measure, m.loss, m.claim, apart)
  BY <1>1, <1>2, <1>4, <1>5, TotalsWithin
<1>8. ChanceWithin(m.leak, m.delta)
  BY <1>1, <1>4, <1>6, TotalsWithin DEF ChanceWithin
<1>9. Covered(m)
  BY <1>3, <1>7, <1>8 DEF Covered
<1> QED BY <1>9 DEF m

-----------------------------------------------------------------------------
(* Groups in hand *)

(* The groups that GroupBy makes: finitely many, compared row by row.      *)
GroupsKnown ==
  metric.over # "table" =>
    /\ metric = Over(metric.over, SymmetricDifference)
    /\ metric.over \in {"sum", "l2"}
    /\ IsFiniteSet(DOMAIN left)

(* Groups are made by GroupBy only, under the metrics that noise supports. *)
LEMMA StepKeepsGroups ==
  ASSUME MeasureInv, GroupsKnown, Next
  PROVE  GroupsKnown'
<1>2. CASE GroupBy
  <2>1. PICK K \in SUBSET DOMAIN schema, agg \in {"sum", "l2"} :
          \E values \in KeyChoices(K) : \E d :
            ChainParts(LAMBDA T : Parts(T, K, values), schema, Over(agg, SymmetricDifference), d)
    BY <1>2 DEF GroupBy
  <2>0. PICK values \in KeyChoices(K) : \E d :
          ChainParts(LAMBDA T : Parts(T, K, values), schema, Over(agg, SymmetricDifference), d)
    BY <2>1
  <2>2. PICK d :
          ChainParts(LAMBDA T : Parts(T, K, values), schema, Over(agg, SymmetricDifference), d)
    BY <2>0
  <2>3. metric' = Over(agg, SymmetricDifference) /\ left' = Parts(left[<<>>], K, values)
    BY <2>2 DEF ChainParts, Announce
  <2>4. IsFiniteSet(values)
    BY DEF KeyChoices
  <2>5. DOMAIN left' = values
    BY <2>3 DEF Parts
  <2>6. metric'.over = agg
    BY <2>3 DEF Over, SymmetricDifference, Metric
  <2> QED BY <2>3, <2>4, <2>5, <2>6 DEF GroupsKnown
<1>3. CASE PartitionByKeys
  BY <1>3, NoListsAssumption DEF PartitionByKeys
<1>4. ASSUME ~ GroupBy, ~ PartitionByKeys PROVE metric'.over = "table"
  <2>1. SymmetricDifference.over = "table"
    BY DEF SymmetricDifference, Metric
  <2>2. \A base, by, agg, each : Metric(base, by, agg, each).over = "table"
    BY DEF Metric
  <2>4. CASE Filter
    BY <2>4 DEF Filter, Chain, ChainParts, Announce
  <2>5. CASE Select
    BY <2>5 DEF Select, Chain, ChainParts, Announce
  <2>6. CASE Rename
    BY <2>6 DEF Rename, Chain, ChainParts, Announce, RenamedMetric, MeasureInv, TableInv, IsMetric,
                SymmetricDifference, Metric
  <2>7. CASE Map
    BY <2>7 DEF Map, Chain, ChainParts, Announce
  <2>8. CASE FlatMap
    BY <2>8 DEF FlatMap, Chain, ChainParts, Announce
  <2>9. CASE GroupingFlatMap
    BY <2>9, <2>2 DEF GroupingFlatMap, Chain, ChainParts, Announce, IfGroupedByAgg
  <2>10. CASE FlatMapByKey
    BY <2>10 DEF FlatMapByKey, Chain, ChainParts, Announce
  <2>11. CASE DropInfs \/ DropNaNs \/ DropNulls
    BY <2>11 DEF DropInfs, DropNaNs, DropNulls, DropRows, Chain, ChainParts, Announce
  <2>12. CASE ReplaceInfs \/ ReplaceNaNs \/ ReplaceNulls
    BY <2>12 DEF ReplaceInfs, ReplaceNaNs, ReplaceNulls, ReplaceCells, Chain, ChainParts, Announce
  <2>13. CASE LimitRowsPerGroup
    BY <2>13, <2>1 DEF LimitRowsPerGroup, Chain, ChainParts, Announce
  <2>14. CASE LimitKeys
    BY <2>14, <2>2 DEF LimitKeys, Chain, ChainParts, Announce, IfGroupedByAgg
  <2>15. CASE LimitRowsPerKeyPerGroup
    BY <2>15, <2>1, <2>2 DEF LimitRowsPerKeyPerGroup, RowsPerKeyMetric, Chain, ChainParts, Announce, IfGroupedByAgg
  <2>16. CASE AddUniqueColumn
    BY <2>16, <2>2 DEF AddUniqueColumn, Chain, ChainParts, Announce, IfGroupedBy
  <2>17. CASE PublicJoin
    BY <2>17 DEF PublicJoin, PublicJoinAs, Chain, ChainParts, Announce
  <2>18. CASE Identity
    BY <2>18 DEF Identity, Chain, ChainParts, Announce
  <2>19. CASE UnwrapIfGroupedBy
    BY <2>19, <2>2 DEF UnwrapIfGroupedBy, Chain, ChainParts, Announce
  <2>20. CASE HammingDistanceToSymmetricDifference
    BY <2>20, <2>1 DEF HammingDistanceToSymmetricDifference, Chain, ChainParts, Announce
  <2> QED
    BY <1>4, <2>4, <2>5, <2>6, <2>7, <2>8, <2>9, <2>10, <2>11, <2>12, <2>13, <2>14, <2>15, <2>16,
       <2>17, <2>18, <2>19, <2>20 DEF Next
<1> QED BY <1>2, <1>3, <1>4 DEF GroupsKnown

LEMMA InitialGroups ==
  ASSUME Init
  PROVE  GroupsKnown
BY InputsAssumption DEF Init, GroupsKnown

(* The groups in hand are no further apart, together, than the bound.      *)
LEMMA GroupsApartWithin ==
  ASSUME MeasureInv, GroupsKnown, Stable, metric.over # "table", bound \in Nat
  PROVE  LET apart == [k \in DOMAIN left |-> RowsApart(left[k], right[k])]
             squares == [k \in DOMAIN left |-> RowsApart(left[k], right[k]) * RowsApart(left[k], right[k])]
         IN /\ IsFiniteSet(DOMAIN left) /\ DOMAIN right = DOMAIN left
            /\ \A k \in DOMAIN left : /\ IsTable(left[k]) /\ IsTable(right[k])
                                      /\ RowsApart(left[k], right[k]) \in Nat
            /\ metric.over = "sum" => SumFunction(apart) * SumFunction(apart) <= bound
            /\ metric.over = "l2" => SumFunction(squares) <= bound
<1> DEFINE D == DOMAIN left
           apart == [k \in D |-> RowsApart(left[k], right[k])]
           squares == [k \in D |-> RowsApart(left[k], right[k]) * RowsApart(left[k], right[k])]
           m == metric
<1>1. /\ m.base = "rows" /\ m.by = {} /\ m.each = {} /\ m.agg = "none" /\ m.over \in {"sum", "l2"}
      /\ IsFiniteSet(D)
  BY DEF GroupsKnown, Over, SymmetricDifference, Metric
<1>2. DOMAIN right = D /\ \A k \in D : IsTable(left[k]) /\ IsTable(right[k])
  BY DEF MeasureInv, TableInv, TypeOK
<1>3. \A k \in D : RowsApart(left[k], right[k]) \in Nat
  BY <1>2, RowsDistance
<1>4. \A l, r : /\ TableDistance(m, l, r) = RowsApart(l, r)
                /\ RowsApart(l, r) \in Nat => TableSquare(m, l, r) = RowsApart(l, r) * RowsApart(l, r)
  <2> SUFFICES ASSUME NEW l, NEW r
               PROVE  /\ TableDistance(m, l, r) = RowsApart(l, r)
                      /\ RowsApart(l, r) \in Nat => TableSquare(m, l, r) = RowsApart(l, r) * RowsApart(l, r)
    OBVIOUS
  <2>1. InnerDistance(m, l, r) = RowsApart(l, r)
    BY <1>1 DEF InnerDistance
  <2>2. TableDistance(m, l, r) = RowsApart(l, r)
    BY <1>1, <2>1 DEF TableDistance
  <2>3. TableSquare(m, l, r) = Square(RowsApart(l, r))
    BY <1>1, <2>2 DEF TableSquare
  <2> QED BY <2>2, <2>3 DEF Square, Infinite
<1>5. ASSUME m.over = "sum" PROVE SumFunction(apart) * SumFunction(apart) <= bound
  <2>1. Distance(m, left, right) = Square(SumFunction(apart))
    BY <1>4, <1>5 DEF Distance
  <2>2. SumFunction(apart) \in Nat
    <3>1. IsFiniteSet(DOMAIN apart) /\ \A k \in DOMAIN apart : apart[k] \in Nat
      BY <1>1, <1>3
    <3> HIDE DEF apart
    <3> QED BY <3>1, SumIsNat
  <2> HIDE DEF apart
  <2> QED BY <2>1, <2>2 DEF Stable, Within, Square, Infinite
<1>6. ASSUME m.over = "l2" PROVE SumFunction(squares) <= bound
  <2>1. Distance(m, left, right) = SumFunction(squares)
    <3>1. [k \in D |-> TableSquare(m, left[k], right[k])] = squares
      BY <1>3, <1>4
    <3> QED BY <1>6, <3>1 DEF Distance
  <2> HIDE DEF squares
  <2> QED BY <2>1 DEF Stable, Within, Infinite
<1> QED BY <1>1, <1>2, <1>3, <1>5, <1>6

-----------------------------------------------------------------------------
(* Counts of groups *)

(* Noise on the numbers of groups, if one row changes each by no more than *)
(* the sensitivity.                                                        *)
LEMMA ChangesAreCoveredUnder ==
  ASSUME MeasureInv, GroupsKnown, Stable, bound \in Nat \ {0},
         NEW mech \in Mechanisms, NEW measure \in SupportedMeasures(mech),
         metric.over # "table", mech \in PureMechanisms => metric.over = "sum",
         NEW q \in Exact, NEW s \in Nat,
         NEW change, DOMAIN change = DOMAIN left,
         \A k \in DOMAIN left : /\ change[k] \in Int
                                /\ Abs(change[k]) <= s * RowsApart(left[k], right[k])
  PROVE  /\ Covered(NoisyChanges(change, s, mech, measure, q))
         /\ MadeHere(NoisyChanges(change, s, mech, measure, q), measure)
<1> DEFINE D == DOMAIN left
           apart == [k \in D |-> RowsApart(left[k], right[k])]
           squares == [k \in D |-> RowsApart(left[k], right[k]) * RowsApart(left[k], right[k])]
           sizes == [k \in D |-> Abs(change[k])]
           changed == [k \in D |-> change[k] * change[k]]
           l1 == Total(change)
           l2 == TotalOfSquares(change)
           scale == NoiseScale(s, q, measure)
<1>1. metric.over \in {"sum", "l2"} /\ bound \in Nat
  BY DEF GroupsKnown
<1>2. /\ IsFiniteSet(D) /\ \A k \in D : RowsApart(left[k], right[k]) \in Nat
      /\ metric.over = "sum" => SumFunction(apart) * SumFunction(apart) <= bound
      /\ metric.over = "l2" => SumFunction(squares) <= bound
  BY <1>1, GroupsApartWithin
<1>3. l1 = SumFunction(sizes) /\ l2 = SumFunction(changed)
  BY DEF Total, TotalOfSquares
<1>4. \A k \in D : sizes[k] \in Nat /\ sizes[k] <= s * apart[k] /\ apart[k] \in Nat
  <2>1. \A i \in Int : Abs(i) \in Nat
    BY DEF Abs
  <2> QED BY <1>2, <2>1
<1>5. \A k \in D : changed[k] \in Nat /\ changed[k] <= (s * s) * squares[k] /\ squares[k] \in Nat
  <2> SUFFICES ASSUME NEW k \in D
               PROVE  changed[k] \in Nat /\ changed[k] <= (s * s) * squares[k] /\ squares[k] \in Nat
    OBVIOUS
  <2>1. PICK c \in Int, a \in Nat : c = change[k] /\ a = RowsApart(left[k], right[k])
    BY <1>2
  <2>2. PICK n \in Nat : n = Abs(c) /\ c * c = n * n
    <3>1. Abs(c) \in Nat /\ c * c = Abs(c) * Abs(c)
      BY DEF Abs
    <3> QED BY <3>1
  <2>3. n <= s * a
    BY <2>1, <2>2
  <2>4. PICK m \in Nat : m = s * a
    BY <2>1
  <2>5. n * n <= m * m
    BY <2>3, <2>4, ProductOfBounds
  <2>6. m * m = (s * s) * (a * a) /\ a * a \in Nat /\ n * n \in Nat
    BY <2>4
  <2> QED BY <2>1, <2>2, <2>5, <2>6
<1>6. l1 \in Nat /\ SumFunction(apart) \in Nat /\ l1 <= s * SumFunction(apart)
  <2>1. DOMAIN sizes = D /\ DOMAIN apart = D
    OBVIOUS
  <2> HIDE DEF sizes, apart, l1
  <2>2. SumFunction(sizes) \in Nat /\ SumFunction(apart) \in Nat
    BY <1>2, <1>4, <2>1, SumIsNat
  <2>3. SumFunction(sizes) <= s * SumFunction(apart)
    <3> HIDE DEF D
    <3> QED BY <1>2, <1>4, <2>1, SumsCompare
  <2> QED BY <1>3, <2>2, <2>3
<1>7. l2 \in Nat /\ SumFunction(squares) \in Nat /\ l2 <= (s * s) * SumFunction(squares)
  <2>1. DOMAIN changed = D /\ DOMAIN squares = D
    OBVIOUS
  <2>0. PICK t \in Nat : t = s * s
    OBVIOUS
  <2> HIDE DEF changed, squares, l2
  <2>2. SumFunction(changed) \in Nat /\ SumFunction(squares) \in Nat
    BY <1>2, <1>5, <2>1, SumIsNat
  <2>3. SumFunction(changed) <= t * SumFunction(squares)
    <3> HIDE DEF D
    <3>1. \A k \in D : changed[k] <= t * squares[k]
      BY <1>5, <2>0
    <3> QED BY <1>2, <1>5, <2>1, <3>1, SumsCompare
  <2> QED BY <1>3, <2>0, <2>2, <2>3
<1>13. SumFunction(squares) <= SumFunction(apart) * SumFunction(apart)
  <2>1. /\ DOMAIN apart = D /\ DOMAIN squares = D
        /\ \A k \in D : apart[k] \in Nat /\ squares[k] = apart[k] * apart[k]
    BY <1>2
  <2> HIDE DEF apart, squares, D
  <2> QED BY <1>2, <2>1, SquaresOfSummands
<1> HIDE DEF apart, squares, sizes, changed, l1, l2, scale, D
<1>8. ASSUME mech \in PureMechanisms PROVE l1 * l1 <= (s * s) * bound
  <2>1. PICK n \in Nat : n = SumFunction(apart)
    BY <1>6
  <2>2. n * n <= bound
    BY <1>1, <1>2, <1>8, <2>1
  <2>3. PICK m \in Nat : m = s * n
    BY <2>1
  <2>4. l1 * l1 <= m * m
    BY <1>6, <2>1, <2>3, ProductOfBounds
  <2>5. m * m = (s * s) * (n * n) /\ s * s \in Nat /\ n * n \in Nat
    BY <2>3
  <2>6. (s * s) * (n * n) <= (s * s) * bound /\ (s * s) * bound \in Nat
    BY <1>1, <2>2, <2>5, MultipliesUp
  <2>7. l1 * l1 \in Nat
    BY <1>6
  <2> QED BY <2>4, <2>5, <2>6, <2>7
<1>9. ASSUME mech \notin PureMechanisms PROVE l2 <= (s * s) * bound
  <2>1. PICK n \in Nat : n = SumFunction(squares)
    BY <1>7
  <2>2. n <= bound /\ s * s \in Nat
    <3>1. CASE metric.over = "l2"
      BY <1>2, <2>1, <3>1
    <3>2. CASE metric.over = "sum"
      <4>1. PICK p \in Nat : p = SumFunction(apart)
        BY <1>6
      <4>2. p * p <= bound /\ p * p \in Nat
        BY <1>2, <3>2, <4>1
      <4>3. n <= p * p
        BY <1>13, <2>1, <4>1
      <4> QED BY <1>1, <4>2, <4>3
    <3> QED BY <1>1, <3>1, <3>2
  <2>3. (s * s) * n <= (s * s) * bound /\ (s * s) * n \in Nat /\ (s * s) * bound \in Nat
    BY <1>1, <2>1, <2>2, MultipliesUp
  <2> QED BY <1>7, <2>1, <2>3
<1>10. /\ scale \in Exact
       /\ measure # "rho" => \E e \in Exact : scale = Squared(e)
  BY ScaleSpends DEF scale
<1>11. NoisyChanges(change, s, mech, measure, q) = Noisy(measure, mech, scale, s, q, l1, l2)
  BY DEF NoisyChanges, scale, l1, l2
<1>12. l1 \in Nat /\ l2 \in Nat
  BY <1>6, <1>7
<1> QED BY <1>8, <1>9, <1>10, <1>11, <1>12, NoisyIsCovered

(* Noise that fits the metric.                                             *)
LEMMA ChangesAreCovered ==
  ASSUME MeasureInv, GroupsKnown, Stable, bound \in Nat \ {0},
         NEW mech \in Mechanisms, NEW measure \in SupportedMeasures(mech),
         metric.over = NoiseOver(mech), NEW q \in Exact, NEW s \in Nat,
         NEW change, DOMAIN change = DOMAIN left,
         \A k \in DOMAIN left : /\ change[k] \in Int
                                /\ Abs(change[k]) <= s * RowsApart(left[k], right[k])
  PROVE  /\ Covered(NoisyChanges(change, s, mech, measure, q))
         /\ MadeHere(NoisyChanges(change, s, mech, measure, q), measure)
<1>1. metric.over # "table" /\ (mech \in PureMechanisms => metric.over = "sum")
  BY DEF NoiseOver
<1> QED BY <1>1, ChangesAreCoveredUnder

(* The numbers of groups, one by one.                                      *)
LEMMA CountIsCovered ==
  ASSUME MeasureInv, GroupsKnown, Stable, bound \in Nat \ {0},
         NEW mech \in Mechanisms, NEW measure \in SupportedMeasures(mech),
         metric.over = NoiseOver(mech), NEW q \in Exact
  PROVE  /\ Covered(NoisyCount(mech, measure, q)) /\ MadeHere(NoisyCount(mech, measure, q), measure)
<1> DEFINE change == [k \in DOMAIN left |-> NumRows(left[k]) - NumRows(right[k])]
<1>0. metric.over # "table" /\ bound \in Nat
  BY DEF NoiseOver
<1>1. NoisyCount(mech, measure, q) = NoisyChanges(change, 1, mech, measure, q)
  BY DEF NoisyCount, NoisyGroups
<1>2. \A k \in DOMAIN left : /\ change[k] \in Int
                             /\ Abs(change[k]) <= 1 * RowsApart(left[k], right[k])
  <2> SUFFICES ASSUME NEW k \in DOMAIN left
               PROVE  /\ change[k] \in Int
                      /\ Abs(change[k]) <= 1 * RowsApart(left[k], right[k])
    OBVIOUS
  <2>1. IsTable(left[k]) /\ IsTable(right[k]) /\ RowsApart(left[k], right[k]) \in Nat
    BY <1>0, GroupsApartWithin
  <2>2. NumRows(left[k]) \in Nat /\ NumRows(right[k]) \in Nat
    BY <2>1, CopiesOfTable
  <2>3. Abs(NumRows(left[k]) - NumRows(right[k])) <= RowsApart(left[k], right[k])
    BY <2>1, CountChange
  <2> QED BY <2>1, <2>2, <2>3
<1>3. DOMAIN change = DOMAIN left /\ 1 \in Nat
  OBVIOUS
<1> HIDE DEF change
<1> QED BY <1>0, <1>1, <1>2, <1>3, ChangesAreCovered

(* The numbers of distinct rows of groups.                                 *)
LEMMA CountDistinctIsCovered ==
  ASSUME MeasureInv, GroupsKnown, Stable, bound \in Nat \ {0},
         NEW mech \in Mechanisms, NEW measure \in SupportedMeasures(mech),
         metric.over = NoiseOver(mech), NEW q \in Exact
  PROVE  Covered(NoisyCountDistinct(mech, measure, q))
<1> DEFINE change == [k \in DOMAIN left |-> Cardinality(BagToSet(left[k])) - Cardinality(BagToSet(right[k]))]
<1>0. metric.over # "table" /\ bound \in Nat
  BY DEF NoiseOver
<1>1. NoisyCountDistinct(mech, measure, q) = NoisyChanges(change, 1, mech, measure, q)
  BY DEF NoisyCountDistinct, NoisyGroups
<1>2. \A k \in DOMAIN left : /\ change[k] \in Int
                             /\ Abs(change[k]) <= 1 * RowsApart(left[k], right[k])
  <2> SUFFICES ASSUME NEW k \in DOMAIN left
               PROVE  /\ change[k] \in Int
                      /\ Abs(change[k]) <= 1 * RowsApart(left[k], right[k])
    OBVIOUS
  <2>1. IsTable(left[k]) /\ IsTable(right[k]) /\ RowsApart(left[k], right[k]) \in Nat
    BY <1>0, GroupsApartWithin
  <2>2. /\ Cardinality(BagToSet(left[k])) \in Nat /\ Cardinality(BagToSet(right[k])) \in Nat
        /\ Abs(Cardinality(BagToSet(left[k])) - Cardinality(BagToSet(right[k]))) <= RowsApart(left[k], right[k])
    BY <2>1, CountDistinctChange
  <2> QED BY <2>1, <2>2
<1>3. DOMAIN change = DOMAIN left /\ 1 \in Nat
  OBVIOUS
<1> HIDE DEF change
<1> QED BY <1>0, <1>1, <1>2, <1>3, ChangesAreCovered

-----------------------------------------------------------------------------
(* Sums of groups *)

(* The rows that numbers are read from.                                    *)
RowsInHand == UNION {BagToSet(left[k]) \cup BagToSet(right[k]) : k \in DOMAIN left}
(* The sum of the numbers x of rows, clipped.                              *)
ClippedSumOf(T, x, b, grid) ==
  SumFunction([r \in BagToSet(T) |-> T[r] * Clipped(x[r], b, grid)])

LEMMA ClippedIsWeight ==
  ASSUME NEW T, NEW x, NEW b, NEW grid,
         NEW w, \A r \in BagToSet(T) : w[r] = Clipped(x[r], b, grid)
  PROVE  ClippedSumOf(T, x, b, grid) = WeightOf(T, w)
<1>1. [r \in BagToSet(T) |-> T[r] * Clipped(x[r], b, grid)] = [r \in DOMAIN T |-> T[r] * w[r]]
  BY DEF BagToSet
<1> QED BY <1>1 DEF ClippedSumOf, WeightOf

LEMMA SumIsCovered ==
  ASSUME MeasureInv, GroupsKnown, Stable, bound \in Nat \ {0},
         NEW mech \in Mechanisms, NEW measure \in SupportedMeasures(mech),
         metric.over = NoiseOver(mech), NEW q \in Exact,
         NEW b \in Int \X Int, NEW grid \in Nat \ {0}, HoldGrid(b, grid),
         NEW x, \A r \in RowsInHand : x[r] \in Int,
         NEW change, DOMAIN change = DOMAIN left,
         \A k \in DOMAIN left :
           change[k] = ClippedSumOf(left[k], x, b, grid) - ClippedSumOf(right[k], x, b, grid)
  PROVE  /\ Covered(NoisyChanges(change, Largest(b), mech, measure, q))
         /\ MadeHere(NoisyChanges(change, Largest(b), mech, measure, q), measure)
<1> DEFINE w == [r \in RowsInHand |-> Clipped(x[r], b, grid)]
<1>0. metric.over # "table" /\ bound \in Nat
  BY DEF NoiseOver
<1>1. \A r \in RowsInHand : w[r] \in b[1] .. b[2] /\ b[1] <= b[2]
  BY ClippedWithin
<1>2. b[1] <= b[2]
  <2>1. 0 \in Int
    OBVIOUS
  <2> QED BY <2>1, ClippedWithin
<1>3. Largest(b) \in Nat
  BY <1>2, LargestBounds
<1>4. \A k \in DOMAIN left : /\ change[k] \in Int
                             /\ Abs(change[k]) <= Largest(b) * RowsApart(left[k], right[k])
  <2> SUFFICES ASSUME NEW k \in DOMAIN left
               PROVE  /\ change[k] \in Int
                      /\ Abs(change[k]) <= Largest(b) * RowsApart(left[k], right[k])
    OBVIOUS
  <2>1. IsTable(left[k]) /\ IsTable(right[k])
    BY <1>0, GroupsApartWithin
  <2>2. BagToSet(left[k]) \subseteq RowsInHand /\ BagToSet(right[k]) \subseteq RowsInHand
    BY DEF RowsInHand
  <2>3. change[k] = WeightOf(left[k], w) - WeightOf(right[k], w)
    <3>1. \A r \in RowsInHand : w[r] = Clipped(x[r], b, grid)
      OBVIOUS
    <3> HIDE DEF w
    <3>2. /\ ClippedSumOf(left[k], x, b, grid) = WeightOf(left[k], w)
          /\ ClippedSumOf(right[k], x, b, grid) = WeightOf(right[k], w)
      BY <2>2, <3>1, ClippedIsWeight
    <3> QED BY <3>2
  <2>4. \A r \in DOMAIN left[k] \cup DOMAIN right[k] : w[r] \in b[1] .. b[2]
    BY <1>1, <2>2 DEF BagToSet
  <2> HIDE DEF w
  <2>5. /\ WeightOf(left[k], w) \in Int /\ WeightOf(right[k], w) \in Int
        /\ Abs(WeightOf(left[k], w) - WeightOf(right[k], w)) <= Largest(b) * RowsApart(left[k], right[k])
    BY <1>2, <2>1, <2>4, SumChange
  <2> QED BY <2>3, <2>5
<1> QED BY <1>3, <1>4, ChangesAreCovered

(* Clipped numbers are those of cells that stand for numbers.              *)
NumericCells ==
  \A c \in DOMAIN schema : CanSum(c) => \A r \in RowsInHand : Num[r[c]] \in Int
(* Bounds with a float between them.                                       *)
BoundsHoldFloats == \A b \in Bounds : b[1] <= b[2] => HoldGrid(b, Halves)

(* The sums of a column in groups.                                         *)
LEMMA RowSumIsCovered ==
  ASSUME MeasureInv, GroupsKnown, Stable, bound \in Nat \ {0}, BoundsHoldFloats, NumericCells,
         NEW mech \in Mechanisms, NEW measure \in SupportedMeasures(mech),
         metric.over = NoiseOver(mech), NEW q \in Exact,
         NEW b \in Bounds, NEW c \in MeasureColumns(b)
  PROVE  Covered(NoisySum(LAMBDA r : Num[r[c]], b, Halves, mech, measure, q))
<1> DEFINE x == [r \in RowsInHand |-> Num[r[c]]]
           sum(T) == ClippedSum(T, LAMBDA r : Num[r[c]], b, Halves)
           change == [k \in DOMAIN left |-> sum(left[k]) - sum(right[k])]
<1>1. c \in DOMAIN schema /\ CanSum(c) /\ b \in Int \X Int /\ b[1] <= b[2]
  BY NumbersAssumption DEF MeasureColumns, ValidBounds
<1>2. HoldGrid(b, Halves) /\ Halves \in Nat \ {0}
  BY <1>1 DEF BoundsHoldFloats, Halves
<1>3. \A r \in RowsInHand : x[r] = Num[r[c]] /\ x[r] \in Int
  BY <1>1 DEF NumericCells
<1>4. NoisySum(LAMBDA r : Num[r[c]], b, Halves, mech, measure, q)
        = NoisyChanges(change, Largest(b), mech, measure, q)
  BY DEF NoisySum, NoisyGroups
<1>5. \A T : BagToSet(T) \subseteq RowsInHand =>
        sum(T) = ClippedSumOf(T, x, b, Halves)
  <2> SUFFICES ASSUME NEW T, BagToSet(T) \subseteq RowsInHand
               PROVE  sum(T) = ClippedSumOf(T, x, b, Halves)
    OBVIOUS
  <2>1. [r \in BagToSet(T) |-> T[r] * Clipped(Num[r[c]], b, Halves)]
          = [r \in BagToSet(T) |-> T[r] * Clipped(x[r], b, Halves)]
    <3> HIDE DEF x
    <3> QED BY <1>3
  <2> HIDE DEF x
  <2> QED BY <2>1 DEF ClippedSum, ClippedSumOf
<1>6. \A k \in DOMAIN left :
        change[k] = ClippedSumOf(left[k], x, b, Halves) - ClippedSumOf(right[k], x, b, Halves)
  <2> SUFFICES ASSUME NEW k \in DOMAIN left
               PROVE  change[k] = ClippedSumOf(left[k], x, b, Halves)
                                    - ClippedSumOf(right[k], x, b, Halves)
    OBVIOUS
  <2>1. BagToSet(left[k]) \subseteq RowsInHand /\ BagToSet(right[k]) \subseteq RowsInHand
    BY DEF RowsInHand
  <2> HIDE DEF sum
  <2>2. change[k] = sum(left[k]) - sum(right[k])
    OBVIOUS
  <2> HIDE DEF x, change
  <2> QED BY <1>5, <2>1, <2>2
<1>7. DOMAIN change = DOMAIN left
  OBVIOUS
<1> HIDE DEF x, change
<1>8. Covered(NoisyChanges(change, Largest(b), mech, measure, q))
  BY <1>1, <1>2, <1>3, <1>6, <1>7, SumIsCovered
<1> QED BY <1>4, <1>8

-----------------------------------------------------------------------------
(* Bounds, moved and squared *)

(* Multiples of `one', which bounds of int columns are.                    *)
IsMultiple(x, one) == \E i \in Int : x = i * one

LEMMA MultiplesStay ==
  ASSUME NEW i \in Int, NEW one \in Nat \ {0}
  PROVE  /\ (i * one) \div one = i
         /\ RoundedDown(i * one, one) = i * one /\ RoundedUp(i * one, one) = i * one
<1>1. ASSUME NEW k \in Int PROVE (k * one) \div one = k
  <2> DEFINE y == k * one
             q == y \div one
             r == y % one
  <2>1. y \in Int
    OBVIOUS
  <2>2. q \in Int /\ r \in 0 .. one - 1 /\ y = one * q + r
    <3> HIDE DEF y
    <3>1. y \div one \in Int
      BY <2>1
    <3>2. y % one \in 0 .. one - 1
      BY <2>1
    <3>3. y = one * (y \div one) + (y % one)
      BY <2>1
    <3> QED BY <3>1, <3>2, <3>3
  <2> HIDE DEF q, r
  <2>3. PICK d \in Int : d = k - q
    BY <2>2
  <2>4. one * d = r /\ r \in 0 .. one - 1
    <3>1. one * (k - q) = one * k - one * q /\ one * k = k * one
      BY <2>2
    <3> QED BY <2>2, <2>3, <3>1
  <2>5. d = 0
    <3>1. ASSUME d >= 1 PROVE FALSE
      <4>1. d - 1 \in Nat /\ one * d = one + one * (d - 1) /\ one * (d - 1) \in Nat
        BY <3>1
      <4> QED BY <2>4, <4>1
    <3>2. ASSUME d <= -1 PROVE FALSE
      <4>1. -d - 1 \in Nat /\ one * d = -one - one * (-d - 1) /\ one * (-d - 1) \in Nat
        BY <3>2
      <4> QED BY <2>4, <4>1
    <3> QED BY <3>1, <3>2
  <2> QED BY <2>2, <2>3, <2>5 DEF q
<1>2. -i \in Int /\ -(i * one) = (-i) * one
  OBVIOUS
<1>3. (-(i * one)) \div one = -i
  BY <1>1, <1>2
<1>4. RoundedUp(i * one, one) = i * one
  <2>1. RoundedUp(i * one, one) = -(-i) * one
    BY <1>3 DEF RoundedUp
  <2>2. -(-i) = i
    OBVIOUS
  <2> QED BY <2>1, <2>2
<1> QED BY <1>1, <1>4 DEF RoundedDown

LEMMA RoundedHalfIsMultiple ==
  ASSUME NEW n \in Int, NEW one \in Nat \ {0}
  PROVE  IsMultiple(RoundedHalf(n, one), one)
<1> DEFINE below == (n \div (2 * one)) * one
<1>1. 2 * one \in Nat \ {0}
  OBVIOUS
<1>2. n \div (2 * one) \in Int
  BY <1>1
<1>3. RoundedHalf(n, one) = below \/ RoundedHalf(n, one) = below + one
  BY DEF RoundedHalf
<1>4. PICK i \in Int : below = i * one
  BY <1>2
<1> HIDE DEF below
<1>5. below + one = (i + 1) * one /\ i + 1 \in Int
  BY <1>4
<1> QED BY <1>3, <1>4, <1>5 DEF IsMultiple

(* The moved bounds: 0 is between those of floats; those of ints are of    *)
(* the grid.                                                               *)
LEMMA MovedBoundsHold ==
  ASSUME NEW b \in Int \X Int, b[1] <= b[2], NEW one \in Nat \ {0}, NEW kind,
         kind = "int" => IsMultiple(b[1], one) /\ IsMultiple(b[2], one)
  PROVE  /\ MovedBounds(b, kind, one) \in Int \X Int
         /\ HoldGrid(MovedBounds(b, kind, one), 2 * one)
         /\ Midpoint(b, kind, one) \in Int
<1> DEFINE m == MovedBounds(b, kind, one)
           grid == 2 * one
<1>0. b[1] \in Int /\ b[2] \in Int /\ grid \in Nat \ {0}
  OBVIOUS
<1>1. CASE kind = "int"
  <2>1. PICK i \in Int, j \in Int : b[1] = i * one /\ b[2] = j * one
    BY <1>1 DEF IsMultiple
  <2>2. b[1] + b[2] \in Int
    BY <1>0
  <2>3. PICK h \in Int : RoundedHalf(b[1] + b[2], one) = h * one
    BY <2>2, RoundedHalfIsMultiple DEF IsMultiple
  <2>4. Midpoint(b, kind, one) = 2 * (h * one)
    BY <1>1, <2>3 DEF Midpoint
  <2>5. m = <<2 * (i * one) - 2 * (h * one), 2 * (j * one) - 2 * (h * one)>>
    BY <1>1, <2>1, <2>4 DEF MovedBounds
  <2>6. /\ 2 * (i * one) - 2 * (h * one) = (i - h) * grid
        /\ 2 * (j * one) - 2 * (h * one) = (j - h) * grid
        /\ 2 * (h * one) \in Int
        /\ i - h \in Int /\ j - h \in Int
    OBVIOUS
  <2> HIDE DEF m, grid
  <2>7. m[1] = (i - h) * grid /\ m[2] = (j - h) * grid /\ m \in Int \X Int
    <3>1. (i - h) * grid \in Int /\ (j - h) * grid \in Int
      BY <1>0, <2>6
    <3> QED BY <2>5, <2>6, <3>1
  <2>8. RoundedUp(m[1], grid) = m[1] /\ RoundedDown(m[2], grid) = m[2]
    BY <1>0, <2>6, <2>7, MultiplesStay
  <2>9. m[1] <= m[2]
    <3>1. 2 * (i * one) <= 2 * (j * one) /\ i * one \in Int /\ j * one \in Int
      BY <1>0, <2>1
    <3> QED BY <2>5, <2>6, <3>1
  <2> QED BY <2>4, <2>6, <2>7, <2>8, <2>9 DEF HoldGrid, m, grid
<1>2. CASE kind # "int"
  <2> DEFINE n == b[2] - b[1]
  <2>1. n \in Nat /\ m = <<-n, n>>
    BY <1>0, <1>2 DEF MovedBounds
  <2>2. n \div grid \in Nat
    <3> HIDE DEF n, grid
    <3> QED BY <1>0, <2>1, DivisionSteps
  <2> HIDE DEF n, m, grid
  <2>3. RoundedDown(n, grid) = (n \div grid) * grid /\ RoundedUp(-n, grid) = -(n \div grid) * grid
    <3>1. -(-n) = n
      BY <2>1
    <3> QED BY <3>1 DEF RoundedDown, RoundedUp
  <2>4. (n \div grid) * grid \in Nat /\ -(n \div grid) * grid = -((n \div grid) * grid)
    BY <1>0, <2>2
  <2>5. HoldGrid(m, grid)
    BY <2>1, <2>3, <2>4 DEF HoldGrid
  <2>6. m \in Int \X Int
    BY <2>1
  <2>7. Midpoint(b, kind, one) \in Int
    BY <1>0, <1>2, RoundedIntegers DEF Midpoint
  <2> QED BY <2>5, <2>6, <2>7 DEF m, grid
<1> QED BY <1>1, <1>2

LEMMA SquaredBoundsHold ==
  ASSUME NEW b \in Int \X Int, b[1] <= b[2]
  PROVE  /\ SquaredBounds(b) \in Int \X Int
         /\ SquaredBounds(b)[1] <= SquaredBounds(b)[2]
         /\ IsMultiple(b[1], 2) /\ IsMultiple(b[2], 2) =>
              IsMultiple(SquaredBounds(b)[1], 4) /\ IsMultiple(SquaredBounds(b)[2], 4)
<1> DEFINE l == b[1] * b[1]
           u == b[2] * b[2]
           s == SquaredBounds(b)
<1>1. l \in Nat /\ u \in Nat
  BY DEF l, u
<1>2. /\ s = <<IF b[1] <= 0 /\ 0 <= b[2] THEN 0 ELSE Smaller(l, u), Larger(l, u)>>
  BY DEF SquaredBounds
<1>3. ASSUME IsMultiple(b[1], 2), IsMultiple(b[2], 2)
      PROVE  IsMultiple(l, 4) /\ IsMultiple(u, 4) /\ IsMultiple(0, 4)
  <2>1. PICK i \in Int, j \in Int : b[1] = i * 2 /\ b[2] = j * 2
    BY <1>3 DEF IsMultiple
  <2>2. (i * 2) * (i * 2) = (i * i) * 4 /\ (j * 2) * (j * 2) = (j * j) * 4 /\ 0 = 0 * 4
        /\ i * i \in Int /\ j * j \in Int /\ 0 \in Int
    OBVIOUS
  <2> QED BY <2>1, <2>2 DEF IsMultiple
<1> HIDE DEF l, u
<1>4. s[1] \in {0, l, u} /\ s[2] \in {l, u} /\ s[1] <= s[2] /\ s \in Int \X Int
  BY <1>1, <1>2 DEF Smaller, Larger
<1> QED BY <1>3, <1>4

-----------------------------------------------------------------------------
(* Deviations *)

(* The noise that is added to the groups in hand.                          *)
NoiseFits(mech, measure, q) ==
  /\ mech \in Mechanisms /\ measure \in SupportedMeasures(mech)
  /\ metric.over = NoiseOver(mech)
  /\ q \in Exact

(* A state in which a measurement of groups is made.                       *)
GroupsInHand == MeasureInv /\ GroupsKnown /\ Stable /\ bound \in Nat \ {0}

LEMMA ColumnBounds ==
  ASSUME NEW b \in Bounds, NEW c \in MeasureColumns(b)
  PROVE  /\ c \in DOMAIN schema /\ CanSum(c) /\ b \in Int \X Int /\ b[1] <= b[2]
         /\ schema[c].kind = "int" => IsMultiple(b[1], 2) /\ IsMultiple(b[2], 2)
<1>1. c \in DOMAIN schema /\ CanSum(c) /\ b \in Int \X Int /\ ValidBounds(c, b)
  BY NumbersAssumption DEF MeasureColumns
<1>2. \A x \in Int : x % 2 = 0 => IsMultiple(x, 2)
  <2> SUFFICES ASSUME NEW x \in Int, x % 2 = 0 PROVE IsMultiple(x, 2)
    OBVIOUS
  <2>1. x = (x \div 2) * 2 /\ x \div 2 \in Int
    OBVIOUS
  <2> QED BY <2>1 DEF IsMultiple
<1> QED BY <1>1, <1>2 DEF ValidBounds

(* The sums of deviations from the midpoint of the bounds, and of the      *)
(* deviations of squares.                                                  *)
LEMMA DeviationsAreCovered ==
  ASSUME GroupsInHand, NumericCells, NEW mech, NEW measure, NEW q, NoiseFits(mech, measure, q),
         NEW b \in Bounds, NEW c \in MeasureColumns(b)
  PROVE  LET m == NoisyDeviations(LAMBDA r : Num[r[c]], b, schema[c].kind, Halves, mech, measure, q)
         IN Covered(m) /\ MadeHere(m, measure)
<1> DEFINE kind == schema[c].kind
           mid == Midpoint(b, kind, Halves)
           moved == MovedBounds(b, kind, Halves)
           grid == 2 * Halves
           x == [r \in RowsInHand |-> 2 * Num[r[c]] - mid]
           sum(T) == ClippedSum(T, LAMBDA r : 2 * Num[r[c]] - mid, moved, grid)
           change == [k \in DOMAIN left |-> sum(left[k]) - sum(right[k])]
           m == NoisyDeviations(LAMBDA r : Num[r[c]], b, kind, Halves, mech, measure, q)
<1>1. m = NoisyChanges(change, Largest(moved), mech, measure, q)
  BY DEF NoisyDeviations, NoisySum, NoisyGroups
<1>2. /\ c \in DOMAIN schema /\ CanSum(c) /\ b \in Int \X Int /\ b[1] <= b[2]
      /\ kind = "int" => IsMultiple(b[1], Halves) /\ IsMultiple(b[2], Halves)
  BY ColumnBounds DEF Halves
<1>3. Halves \in Nat \ {0} /\ grid \in Nat \ {0}
  BY DEF Halves
<1>4. moved \in Int \X Int /\ HoldGrid(moved, grid) /\ mid \in Int
  <2> HIDE DEF kind
  <2> QED BY <1>2, <1>3, MovedBoundsHold
<1>5. \A T : BagToSet(T) \subseteq RowsInHand => sum(T) = ClippedSumOf(T, x, moved, grid)
  <2> SUFFICES ASSUME NEW T, BagToSet(T) \subseteq RowsInHand
               PROVE  sum(T) = ClippedSumOf(T, x, moved, grid)
    OBVIOUS
  <2> HIDE DEF mid, moved, grid
  <2>1. \A r \in RowsInHand : x[r] = 2 * Num[r[c]] - mid
    OBVIOUS
  <2>2. [r \in BagToSet(T) |-> T[r] * Clipped(2 * Num[r[c]] - mid, moved, grid)]
          = [r \in BagToSet(T) |-> T[r] * Clipped(x[r], moved, grid)]
    <3> HIDE DEF x
    <3> QED BY <2>1
  <2> HIDE DEF x
  <2> QED BY <2>2 DEF ClippedSum, ClippedSumOf
<1> HIDE DEF sum
<1>6. \A k \in DOMAIN left :
        change[k] = ClippedSumOf(left[k], x, moved, grid) - ClippedSumOf(right[k], x, moved, grid)
  <2> SUFFICES ASSUME NEW k \in DOMAIN left
               PROVE  change[k] = ClippedSumOf(left[k], x, moved, grid)
                                    - ClippedSumOf(right[k], x, moved, grid)
    OBVIOUS
  <2>1. BagToSet(left[k]) \subseteq RowsInHand /\ BagToSet(right[k]) \subseteq RowsInHand
    BY DEF RowsInHand
  <2>2. change[k] = sum(left[k]) - sum(right[k])
    OBVIOUS
  <2> HIDE DEF x, change, moved, grid
  <2> QED BY <1>5, <2>1, <2>2
<1>7. \A r \in RowsInHand : x[r] \in Int
  <2> HIDE DEF mid
  <2> QED BY <1>2, <1>4 DEF NumericCells
<1>8. DOMAIN change = DOMAIN left
  OBVIOUS
<1> HIDE DEF x, change, moved, grid, mid, kind
<1>9. /\ Covered(NoisyChanges(change, Largest(moved), mech, measure, q))
      /\ MadeHere(NoisyChanges(change, Largest(moved), mech, measure, q), measure)
  BY <1>3, <1>4, <1>6, <1>7, <1>8, SumIsCovered DEF GroupsInHand, NoiseFits
<1> HIDE DEF m
<1>10. Covered(m) /\ MadeHere(m, measure)
  BY <1>1, <1>9
<1> QED BY <1>10 DEF m, kind

LEMMA SquaredDeviationsAreCovered ==
  ASSUME GroupsInHand, NumericCells, NEW mech, NEW measure, NEW q, NoiseFits(mech, measure, q),
         NEW b \in Bounds, NEW c \in MeasureColumns(b)
  PROVE  LET m == NoisyDeviations(LAMBDA r : Num[r[c]] * Num[r[c]], SquaredBounds(b),
                                  schema[c].kind, Halves * Halves, mech, measure, q)
         IN Covered(m) /\ MadeHere(m, measure)
<1> DEFINE kind == schema[c].kind
           one == Halves * Halves
           mid == Midpoint(SquaredBounds(b), kind, one)
           moved == MovedBounds(SquaredBounds(b), kind, one)
           grid == 2 * one
           x == [r \in RowsInHand |-> 2 * (Num[r[c]] * Num[r[c]]) - mid]
           sum(T) == ClippedSum(T, LAMBDA r : 2 * (Num[r[c]] * Num[r[c]]) - mid, moved, grid)
           change == [k \in DOMAIN left |-> sum(left[k]) - sum(right[k])]
           m == NoisyDeviations(LAMBDA r : Num[r[c]] * Num[r[c]], SquaredBounds(b), kind, one,
                                mech, measure, q)
<1>1. m = NoisyChanges(change, Largest(moved), mech, measure, q)
  BY DEF NoisyDeviations, NoisySum, NoisyGroups
<1>2. /\ c \in DOMAIN schema /\ CanSum(c) /\ b \in Int \X Int /\ b[1] <= b[2]
      /\ kind = "int" => IsMultiple(b[1], 2) /\ IsMultiple(b[2], 2)
  BY ColumnBounds
<1>3. one = 4 /\ one \in Nat \ {0} /\ grid \in Nat \ {0}
  BY DEF Halves
<1>0. /\ SquaredBounds(b) \in Int \X Int /\ SquaredBounds(b)[1] <= SquaredBounds(b)[2]
      /\ kind = "int" => /\ IsMultiple(SquaredBounds(b)[1], one)
                         /\ IsMultiple(SquaredBounds(b)[2], one)
  BY <1>2, <1>3, SquaredBoundsHold
<1>4. moved \in Int \X Int /\ HoldGrid(moved, grid) /\ mid \in Int
  <2> HIDE DEF kind, one
  <2> QED BY <1>0, <1>3, MovedBoundsHold
<1>5. \A T : BagToSet(T) \subseteq RowsInHand => sum(T) = ClippedSumOf(T, x, moved, grid)
  <2> SUFFICES ASSUME NEW T, BagToSet(T) \subseteq RowsInHand
               PROVE  sum(T) = ClippedSumOf(T, x, moved, grid)
    OBVIOUS
  <2> HIDE DEF mid, moved, grid
  <2>1. \A r \in RowsInHand : x[r] = 2 * (Num[r[c]] * Num[r[c]]) - mid
    OBVIOUS
  <2>2. [r \in BagToSet(T) |-> T[r] * Clipped(2 * (Num[r[c]] * Num[r[c]]) - mid, moved, grid)]
          = [r \in BagToSet(T) |-> T[r] * Clipped(x[r], moved, grid)]
    <3> HIDE DEF x
    <3> QED BY <2>1
  <2> HIDE DEF x
  <2> QED BY <2>2 DEF ClippedSum, ClippedSumOf
<1> HIDE DEF sum
<1>6. \A k \in DOMAIN left :
        change[k] = ClippedSumOf(left[k], x, moved, grid) - ClippedSumOf(right[k], x, moved, grid)
  <2> SUFFICES ASSUME NEW k \in DOMAIN left
               PROVE  change[k] = ClippedSumOf(left[k], x, moved, grid)
                                    - ClippedSumOf(right[k], x, moved, grid)
    OBVIOUS
  <2>1. BagToSet(left[k]) \subseteq RowsInHand /\ BagToSet(right[k]) \subseteq RowsInHand
    BY DEF RowsInHand
  <2>2. change[k] = sum(left[k]) - sum(right[k])
    OBVIOUS
  <2> HIDE DEF x, change, moved, grid
  <2> QED BY <1>5, <2>1, <2>2
<1>7. \A r \in RowsInHand : x[r] \in Int
  <2> HIDE DEF mid
  <2>1. \A i \in Int : 2 * (i * i) - mid \in Int
    BY <1>4
  <2> QED BY <1>2, <2>1 DEF NumericCells
<1>8. DOMAIN change = DOMAIN left
  OBVIOUS
<1> HIDE DEF x, change, moved, grid, mid, kind, one
<1>9. /\ Covered(NoisyChanges(change, Largest(moved), mech, measure, q))
      /\ MadeHere(NoisyChanges(change, Largest(moved), mech, measure, q), measure)
  BY <1>3, <1>4, <1>6, <1>7, <1>8, SumIsCovered DEF GroupsInHand, NoiseFits
<1> HIDE DEF m
<1>10. Covered(m) /\ MadeHere(m, measure)
  BY <1>1, <1>9
<1> QED BY <1>10 DEF m, kind, one

-----------------------------------------------------------------------------
(* Averages, variances and single numbers *)

LEMMA AskedIsCovered ==
  ASSUME NEW m, Covered(m), NEW q
  PROVE  Covered([m EXCEPT !.asked = q])
BY AskedIsMade DEF Covered

(* An average is a sum of deviations and a count, a variance has the       *)
(* deviations of squares as well.                                          *)
LEMMA AverageIsCovered ==
  ASSUME GroupsInHand, NumericCells, NEW mech, NEW measure, NEW q, NoiseFits(mech, measure, q),
         NEW b \in Bounds, NEW c \in MeasureColumns(b)
  PROVE  Covered(NoisyAverage(c, b, mech, measure, q))
<1> DEFINE h == Part(q, 2)
           kind == schema[c].kind
           x == NoisyDeviations(LAMBDA r : Num[r[c]], b, kind, Halves, mech, measure, h)
           y == NoisyCount(mech, measure, h)
           ms == <<x, y>>
<1>1. NoisyAverage(c, b, mech, measure, q) = [Composed(ms) EXCEPT !.asked = q]
  BY DEF NoisyAverage, PostProcess
<1>2. NoiseFits(mech, measure, h)
  BY PartIsExact DEF NoiseFits
<1>3. Covered(x) /\ MadeHere(x, measure)
  <2> HIDE DEF h
  <2> QED BY <1>2, DeviationsAreCovered
<1>4. Covered(y) /\ MadeHere(y, measure)
  <2> HIDE DEF h
  <2> QED BY <1>2, CountIsCovered DEF NoiseFits, GroupsInHand
<1> HIDE DEF x, y
<1>5. DOMAIN ms = 1 .. 2 /\ ms[1] = x /\ ms[2] = y
  OBVIOUS
<1>6. \A i \in 1 .. 2 : i = 1 \/ i = 2
  OBVIOUS
<1> HIDE DEF ms
<1>7. \A i \in 1 .. 2 : /\ Covered(ms[i])
                        /\ ms[i].measure = ms[1].measure /\ ms[i].apart = ms[1].apart
  BY <1>3, <1>4, <1>5, <1>6 DEF MadeHere
<1>8. Covered(Composed(ms))
  <2>1. PICK n \in Nat \ {0} : n = 2
    OBVIOUS
  <2>2. DOMAIN ms = 1 .. n /\ \A i \in 1 .. n : /\ Covered(ms[i])
          /\ ms[i].measure = ms[1].measure /\ ms[i].apart = ms[1].apart
    BY <1>5, <1>7, <2>1
  <2> QED BY <2>2, ComposedIsCovered
<1> QED BY <1>1, <1>8, AskedIsCovered

LEMMA VarianceIsCovered ==
  ASSUME GroupsInHand, NumericCells, NEW mech, NEW measure, NEW q, NoiseFits(mech, measure, q),
         NEW b \in Bounds, NEW c \in MeasureColumns(b)
  PROVE  Covered(NoisyStandardDeviation(c, b, mech, measure, q))
<1> DEFINE h == Part(q, 3)
           kind == schema[c].kind
           x == NoisyDeviations(LAMBDA r : Num[r[c]], b, kind, Halves, mech, measure, h)
           y == NoisyDeviations(LAMBDA r : Num[r[c]] * Num[r[c]], SquaredBounds(b), kind,
                                Halves * Halves, mech, measure, h)
           z == NoisyCount(mech, measure, h)
           ms == <<x, y, z>>
<1>1. NoisyStandardDeviation(c, b, mech, measure, q) = [Composed(ms) EXCEPT !.asked = q]
  BY DEF NoisyStandardDeviation, NoisyVariance, PostProcess
<1>2. NoiseFits(mech, measure, h)
  BY PartIsExact DEF NoiseFits
<1>3. Covered(x) /\ MadeHere(x, measure) /\ Covered(y) /\ MadeHere(y, measure)
  <2> HIDE DEF h
  <2> QED BY <1>2, DeviationsAreCovered, SquaredDeviationsAreCovered
<1>4. Covered(z) /\ MadeHere(z, measure)
  <2> HIDE DEF h
  <2> QED BY <1>2, CountIsCovered DEF NoiseFits, GroupsInHand
<1> HIDE DEF x, y, z
<1>5. DOMAIN ms = 1 .. 3 /\ ms[1] = x /\ ms[2] = y /\ ms[3] = z
  OBVIOUS
<1>6. \A i \in 1 .. 3 : i = 1 \/ i = 2 \/ i = 3
  OBVIOUS
<1> HIDE DEF ms
<1>7. \A i \in 1 .. 3 : /\ Covered(ms[i])
                        /\ ms[i].measure = ms[1].measure /\ ms[i].apart = ms[1].apart
  BY <1>3, <1>4, <1>5, <1>6 DEF MadeHere
<1>8. Covered(Composed(ms))
  <2>1. PICK n \in Nat \ {0} : n = 3
    OBVIOUS
  <2>2. DOMAIN ms = 1 .. n /\ \A i \in 1 .. n : /\ Covered(ms[i])
          /\ ms[i].measure = ms[1].measure /\ ms[i].apart = ms[1].apart
    BY <1>5, <1>7, <2>1
  <2> QED BY <2>2, ComposedIsCovered
<1> QED BY <1>1, <1>8, AskedIsCovered

(* Noise on one number of a table.                                         *)
LEMMA NumberIsCovered ==
  ASSUME MeasureInv, bound > 0, NEW kind, NEW s \in Nat, NEW change \in Int,
         bound \in Nat => change * change <= (s * s) * bound,
         ScaledNoise(kind, s, change)
  PROVE  Covered(made)'
<1>1. bound \in Nat \ {0}
  BY DEF MeasureInv, TableInv, TypeOK, Infinite
<1>2. PICK mech \in Mechanisms, scale \in Scales : \E measure \in SupportedMeasures(mech) :
        Number(measure, mech, scale, s, change)
  BY DEF ScaledNoise
<1>3. PICK measure \in SupportedMeasures(mech) : Number(measure, mech, scale, s, change)
  BY <1>2
<1> DEFINE square == Squared(scale)
           l1 == Abs(change)
           l2 == change * change
           m == Noisy(measure, mech, square, s, Zero, l1, l2)
           n == [m EXCEPT !.asked = m.claim]
<1>4. made' = n
  BY <1>3 DEF Number, Make
<1>5. square \in Exact /\ \E e \in Exact : square = Squared(e)
  <2>1. scale \in Exact
    BY NumbersAssumption, NumbersAreExact
  <2> QED BY <2>1, SquaredExact
<1>6. l1 \in Nat /\ l2 \in Nat /\ l1 * l1 = l2 /\ l2 <= (s * s) * bound
  <2>1. l1 \in Nat /\ l1 * l1 = l2
    BY DEF Abs
  <2>2. l2 \in Nat
    BY <2>1
  <2> QED BY <1>1, <2>1, <2>2
<1> HIDE DEF square, l1, l2
<1>7. Covered(m)
  BY <1>1, <1>5, <1>6, NoisyIsCovered
<1> HIDE DEF m
<1>8. Covered(n)
  BY <1>7, AskedIsCovered
<1> HIDE DEF n
<1> QED BY <1>4, <1>8 DEF Covered, IsMade

(* The distance of a table's neighbour, under either metric.               *)
LEMMA OneTableApart ==
  ASSUME MeasureInv, Stable, OfOneTable, bound \in Nat
  PROVE  LET L == left[<<>>]
             R == right[<<>>]
         IN /\ IsTable(L) /\ IsTable(R) /\ DOMAIN left = {<<>>} /\ DOMAIN right = {<<>>}
            /\ metric = SymmetricDifference => RowsApart(L, R) * RowsApart(L, R) <= bound
            /\ metric = HammingDistance =>
                 /\ NumRows(L) = NumRows(R)
                 /\ Cardinality(ExceptAll(L, R)) = Cardinality(ExceptAll(R, L))
                 /\ Cardinality(ExceptAll(L, R)) * Cardinality(ExceptAll(L, R)) <= bound
<1> DEFINE L == left[<<>>]
           R == right[<<>>]
<1>1. metric.over = "table"
  BY DEF OfOneTable, SymmetricDifference, HammingDistance, Metric
<1>2. /\ DOMAIN left = {<<>>} /\ DOMAIN right = {<<>>} /\ IsTable(L) /\ IsTable(R)
      /\ Comparable(metric, L, R) /\ Apart(metric, L, R) <= bound
  BY <1>1, TablesInHand DEF MeasureInv, Infinite
<1>3. ASSUME metric = SymmetricDifference PROVE RowsApart(L, R) * RowsApart(L, R) <= bound
  BY <1>2, <1>3, RowsDistance
<1>4. ASSUME metric = HammingDistance
      PROVE  /\ NumRows(L) = NumRows(R)
             /\ Cardinality(ExceptAll(L, R)) = Cardinality(ExceptAll(R, L))
             /\ Cardinality(ExceptAll(L, R)) * Cardinality(ExceptAll(L, R)) <= bound
  <2>1. metric.base = "hamming" /\ metric.by = {} /\ metric.each = {} /\ metric.agg # "l2"
    BY <1>4 DEF HammingDistance, Metric
  <2>2. NumRows(L) = NumRows(R)
    BY <1>2, <2>1 DEF Comparable
  <2>3. Cardinality(ExceptAll(L, R)) = Cardinality(ExceptAll(R, L)) /\ Cardinality(ExceptAll(L, R)) \in Nat
    BY <1>2, <2>2, RowsApartCount
  <2>4. Distance(metric, left, right) = Cardinality(ExceptAll(L, R)) * Cardinality(ExceptAll(L, R))
    <3>1. TableDistance(metric, L, R) = Cardinality(ExceptAll(L, R))
      BY <2>1, <2>2 DEF TableDistance, InnerDistance
    <3>2. TableSquare(metric, L, R) = Cardinality(ExceptAll(L, R)) * Cardinality(ExceptAll(L, R))
      <4>1. TableSquare(metric, L, R) = Square(Cardinality(ExceptAll(L, R)))
        BY <2>1, <3>1 DEF TableSquare
      <4>2. \A p \in Nat : Square(p) = p * p
        BY DEF Square, Infinite
      <4> QED BY <2>3, <4>1, <4>2
    <3> DEFINE f == [k \in DOMAIN left |-> TableSquare(metric, left[k], right[k])]
    <3>3. Distance(metric, left, right) = SumFunction(f)
      BY <1>1 DEF Distance
    <3>4. DOMAIN f = {<<>>} /\ f[<<>>] = Cardinality(ExceptAll(L, R)) * Cardinality(ExceptAll(L, R))
      BY <1>2, <3>2
    <3>5. f[<<>>] \in Int
      BY <2>3, <3>4
    <3> HIDE DEF f
    <3> QED BY <3>3, <3>4, <3>5, SumOfOne
  <2>5. Cardinality(ExceptAll(L, R)) * Cardinality(ExceptAll(L, R)) <= bound
    BY <2>4 DEF Stable, Within, Infinite
  <2> QED BY <2>2, <2>3, <2>5
<1> QED BY <1>2, <1>3, <1>4

-----------------------------------------------------------------------------
(* Measurements of one table *)

(* A number that changes by no more than s for each unit of distance.      *)
LEMMA ChangeWithin ==
  ASSUME NEW change \in Int, NEW s \in Nat, NEW a \in Nat, NEW A \in Nat,
         Abs(change) <= s * a, a * a <= A
  PROVE  change * change <= (s * s) * A
<1>1. PICK n \in Nat : n = Abs(change) /\ change * change = n * n
  <2>1. Abs(change) \in Nat /\ change * change = Abs(change) * Abs(change)
    BY DEF Abs
  <2> QED BY <2>1
<1>2. PICK m \in Nat : m = s * a
  OBVIOUS
<1>3. n * n <= m * m
  BY <1>1, <1>2, ProductOfBounds
<1>4. m * m = (s * s) * (a * a) /\ s * s \in Nat /\ a * a \in Nat /\ n * n \in Nat
  BY <1>2
<1>5. (s * s) * (a * a) <= (s * s) * A /\ (s * s) * A \in Nat
  BY <1>4, MultipliesUp
<1> QED BY <1>1, <1>3, <1>4, <1>5

(* Measurements of one number of a table, under either metric: under the   *)
(* Hamming distance two rows differ where one is replaced.                 *)
LEMMA CountIsWithin ==
  ASSUME MeasureInv, Stable, bound > 0, Count
  PROVE  Covered(made)'
<1> DEFINE L == left[<<>>]
           R == right[<<>>]
           change == NumRows(L) - NumRows(R)
           s == CountSensitivity
<1>1. OfOneTable /\ ScaledNoise("int", s, change)
  BY DEF Count
<1>2. s \in Nat
  BY DEF CountSensitivity
<1>3. IsTable(L) /\ IsTable(R)
  <2>1. metric.over = "table"
    BY <1>1 DEF OfOneTable, SymmetricDifference, HammingDistance, Metric
  <2> QED BY <2>1, TablesInHand DEF MeasureInv
<1>4. NumRows(L) \in Nat /\ NumRows(R) \in Nat /\ change \in Int
  BY <1>3, CopiesOfTable
<1>5. ASSUME bound \in Nat PROVE change * change <= (s * s) * bound
  <2>1. CASE metric = HammingDistance
    <3>1. change = 0
      BY <1>1, <1>4, <1>5, <2>1, OneTableApart
    <3>2. 0 * 0 = 0 /\ (s * s) * bound \in Nat
      BY <1>2, <1>5
    <3> QED BY <3>1, <3>2
  <2>2. CASE metric # HammingDistance
    <3>1. metric = SymmetricDifference
      BY <1>1, <2>2 DEF OfOneTable
    <3>2. PICK a \in Nat : a = RowsApart(L, R)
      BY <1>3, RowsDistance
    <3>3. a * a <= bound
      BY <1>1, <1>5, <3>1, <3>2, OneTableApart
    <3>4. Abs(change) <= 1 * a
      BY <1>3, <3>2, CountChange
    <3> HIDE DEF change
    <3>5. change * change <= (1 * 1) * bound
      BY <1>4, <1>5, <3>3, <3>4, ChangeWithin
    <3> QED BY <2>2, <3>5 DEF CountSensitivity
  <2> QED BY <2>1, <2>2
<1> HIDE DEF s, change
<1> QED BY <1>1, <1>2, <1>4, <1>5, NumberIsCovered

LEMMA CountDistinctIsWithin ==
  ASSUME MeasureInv, Stable, bound > 0, CountDistinct
  PROVE  Covered(made)'
<1> DEFINE L == left[<<>>]
           R == right[<<>>]
           change == Cardinality(BagToSet(L)) - Cardinality(BagToSet(R))
           s == CountSensitivity
<1>1. OfOneTable /\ ScaledNoise("int", s, change)
  BY DEF CountDistinct
<1>2. s \in Nat
  BY DEF CountSensitivity
<1>3. IsTable(L) /\ IsTable(R)
  <2>1. metric.over = "table"
    BY <1>1 DEF OfOneTable, SymmetricDifference, HammingDistance, Metric
  <2> QED BY <2>1, TablesInHand DEF MeasureInv
<1>4. change \in Int /\ Abs(change) <= RowsApart(L, R)
  BY <1>3, CountDistinctChange
<1>5. ASSUME bound \in Nat PROVE change * change <= (s * s) * bound
  <2>1. CASE metric = HammingDistance
    <3>1. PICK p \in Nat : p = Cardinality(ExceptAll(L, R)) /\ p = Cardinality(ExceptAll(R, L)) /\ p * p <= bound
      BY <1>1, <1>3, <1>5, <2>1, OneTableApart, RowsApartCount
    <3>2. Abs(change) <= 2 * p
      BY <1>4, <3>1 DEF RowsApart
    <3> HIDE DEF change
    <3>3. change * change <= (2 * 2) * bound
      BY <1>4, <1>5, <3>1, <3>2, ChangeWithin
    <3> QED BY <2>1, <3>3 DEF CountSensitivity
  <2>2. CASE metric # HammingDistance
    <3>1. metric = SymmetricDifference
      BY <1>1, <2>2 DEF OfOneTable
    <3>2. PICK a \in Nat : a = RowsApart(L, R)
      BY <1>3, RowsDistance
    <3>3. a * a <= bound
      BY <1>1, <1>5, <3>1, <3>2, OneTableApart
    <3>4. Abs(change) <= 1 * a
      BY <1>4, <3>2
    <3> HIDE DEF change
    <3>5. change * change <= (1 * 1) * bound
      BY <1>4, <1>5, <3>3, <3>4, ChangeWithin
    <3> QED BY <2>2, <3>5 DEF CountSensitivity
  <2> QED BY <2>1, <2>2
<1> HIDE DEF s, change
<1> QED BY <1>1, <1>2, <1>4, <1>5, NumberIsCovered

LEMMA SumIsWithin ==
  ASSUME MeasureInv, Stable, bound > 0, BoundsHoldFloats, NumericCells, Sum
  PROVE  Covered(made)'
<1>1. PICK c \in DOMAIN schema, b \in Bounds :
        /\ CanSum(c)
        /\ ValidBounds(c, b)
        /\ LET sum(T) == ClippedSum(T, LAMBDA r : Num[r[c]], b, Halves)
           IN ScaledNoise(schema[c].kind, SumSensitivity(b), sum(left[<<>>]) - sum(right[<<>>]))
  BY DEF Sum
<1> DEFINE L == left[<<>>]
           R == right[<<>>]
           sum(T) == ClippedSum(T, LAMBDA r : Num[r[c]], b, Halves)
           w == [r \in RowsInHand |-> Clipped(Num[r[c]], b, Halves)]
           change == sum(L) - sum(R)
           s == SumSensitivity(b)
<1>2. OfOneTable /\ ScaledNoise(schema[c].kind, s, change)
  BY <1>1 DEF Sum
<1>3. b \in Int \X Int /\ b[1] \in Int /\ b[2] \in Int /\ b[1] <= b[2]
  BY <1>1, NumbersAssumption DEF ValidBounds
<1>4. HoldGrid(b, Halves) /\ Halves \in Nat \ {0}
  BY <1>3 DEF BoundsHoldFloats, Halves
<1>5. Largest(b) \in Nat /\ b[2] - b[1] \in Nat
  BY <1>3, LargestBounds
<1>6. s \in Nat
  BY <1>5 DEF SumSensitivity
<1>7. IsTable(L) /\ IsTable(R) /\ DOMAIN left = {<<>>}
  <2>1. metric.over = "table"
    BY <1>2 DEF OfOneTable, SymmetricDifference, HammingDistance, Metric
  <2> QED BY <2>1, TablesInHand DEF MeasureInv
<1>8. BagToSet(L) \subseteq RowsInHand /\ BagToSet(R) \subseteq RowsInHand
  BY <1>7 DEF RowsInHand
<1>9. \A r \in RowsInHand : w[r] \in b[1] .. b[2]
  <2> SUFFICES ASSUME NEW r \in RowsInHand PROVE w[r] \in b[1] .. b[2]
    OBVIOUS
  <2>1. Num[r[c]] \in Int
    BY <1>1 DEF NumericCells
  <2>2. Clipped(Num[r[c]], b, Halves) \in b[1] .. b[2]
    BY <1>3, <1>4, <2>1, ClippedWithin
  <2> QED BY <2>2
<1>10. \A T : BagToSet(T) \subseteq RowsInHand => sum(T) = WeightOf(T, w)
  <2> SUFFICES ASSUME NEW T, BagToSet(T) \subseteq RowsInHand
               PROVE  sum(T) = WeightOf(T, w)
    OBVIOUS
  <2>1. \A r \in RowsInHand : w[r] = Clipped(Num[r[c]], b, Halves)
    OBVIOUS
  <2>2. [r \in BagToSet(T) |-> T[r] * Clipped(Num[r[c]], b, Halves)]
          = [r \in DOMAIN T |-> T[r] * w[r]]
    <3> HIDE DEF w
    <3> QED BY <2>1 DEF BagToSet
  <2> HIDE DEF w
  <2> QED BY <2>2 DEF ClippedSum, WeightOf
<1> HIDE DEF sum, w
<1>11. sum(L) = WeightOf(L, w) /\ sum(R) = WeightOf(R, w)
  BY <1>8, <1>10
<1>12. \A r \in DOMAIN L \cup DOMAIN R : w[r] \in b[1] .. b[2]
  BY <1>8, <1>9 DEF BagToSet
<1> HIDE DEF L, R, s
<1>13. /\ change \in Int
       /\ Abs(change) <= Largest(b) * RowsApart(L, R)
       /\ NumRows(L) = NumRows(R) => Abs(change) <= (b[2] - b[1]) * Cardinality(ExceptAll(L, R))
  BY <1>3, <1>7, <1>11, <1>12, SumChange
<1> HIDE DEF change
<1>14. ASSUME bound \in Nat PROVE change * change <= (s * s) * bound
  <2>1. CASE metric = HammingDistance
    <3>1. PICK p \in Nat : p = Cardinality(ExceptAll(L, R)) /\ p * p <= bound
      BY <1>2, <1>7, <1>14, <2>1, OneTableApart, RowsApartCount DEF L, R
    <3>2. s = b[2] - b[1] /\ NumRows(L) = NumRows(R)
      BY <1>2, <1>14, <2>1, OneTableApart DEF s, SumSensitivity, L, R
    <3>3. Abs(change) <= s * p
      BY <1>13, <3>1, <3>2
    <3> QED BY <1>6, <1>13, <1>14, <3>1, <3>3, ChangeWithin
  <2>2. CASE metric # HammingDistance
    <3>1. metric = SymmetricDifference /\ s = Largest(b)
      BY <1>2, <2>2 DEF OfOneTable, s, SumSensitivity
    <3>2. PICK a \in Nat : a = RowsApart(L, R)
      BY <1>7, RowsDistance
    <3>3. a * a <= bound
      BY <1>2, <1>14, <3>1, <3>2, OneTableApart DEF L, R
    <3>4. Abs(change) <= s * a
      BY <1>13, <3>1, <3>2
    <3> QED BY <1>6, <1>13, <1>14, <3>2, <3>3, <3>4, ChangeWithin
  <2> QED BY <2>1, <2>2
<1> QED BY <1>2, <1>6, <1>13, <1>14, NumberIsCovered

-----------------------------------------------------------------------------
(* Quantiles *)

(* The numbers of a table, sorted: as many as there are rows, and as many  *)
(* at most x as there are rows whose number is.                            *)
RowsUpTo(T, c, x) == {r \in DOMAIN T : Num[r[c]] <= x}

LEMMA SortedNumbers ==
  ASSUME NEW T, IsTable(T), NEW c, \A r \in DOMAIN T : Num[r[c]] \in Int
  PROVE  LET v == Numbers(T, c)
         IN /\ v \in [1 .. NumRows(T) -> Int] /\ NumRows(T) \in Nat
            /\ \A i, j \in 1 .. NumRows(T) : i < j => v[i] <= v[j]
            /\ \A x \in Int : Cardinality({i \in 1 .. NumRows(T) : v[i] <= x})
                                = Cardinality(PartCopies(T, RowsUpTo(T, c, x)))
<1> DEFINE cells == UNION {{Num[r[c]]} \X {r} \X (1 .. T[r]) : r \in BagToSet(T)}
           f == [y \in Copies(T) |-> <<Num[y[1][c]], y[1], y[2]>>]
           n == NumRows(T)
           sorted == CHOOSE s \in SetToSeqs(cells) :
                       \A i, j \in DOMAIN s : i < j => s[i][1] <= s[j][1]
           v == Numbers(T, c)
           key == [y \in cells |-> y[1]]
<1>1. v = [i \in DOMAIN sorted |-> sorted[i][1]]
  BY DEF Numbers
<1>2. \A y : y \in Copies(T) <=> \E r \in DOMAIN T : \E i \in 1 .. T[r] : y = <<r, i>>
  BY CopiesOfTable
<1>3. \A z : z \in cells <=> \E r \in DOMAIN T : \E i \in 1 .. T[r] : z = <<Num[r[c]], r, i>>
  BY DEF BagToSet
<1>4. /\ f \in [Copies(T) -> cells]
      /\ \A y, z \in Copies(T) : f[y] = f[z] => y = z
      /\ \A z \in cells : \E y \in Copies(T) : f[y] = z
  <2> HIDE DEF cells
  <2>1. \A y \in Copies(T) : f[y] \in cells /\ f[y][2] = y[1] /\ f[y][3] = y[2] /\ y = <<y[1], y[2]>>
    BY <1>2, <1>3
  <2>2. f \in [Copies(T) -> cells]
    BY <2>1
  <2>3. \A z \in cells : \E y \in Copies(T) : f[y] = z
    <3> SUFFICES ASSUME NEW z \in cells PROVE \E y \in Copies(T) : f[y] = z
      OBVIOUS
    <3>0. PICK r \in DOMAIN T : \E i \in 1 .. T[r] : z = <<Num[r[c]], r, i>>
      BY <1>3
    <3>1. PICK i \in 1 .. T[r] : z = <<Num[r[c]], r, i>>
      BY <3>0
    <3>2. <<r, i>> \in Copies(T) /\ f[<<r, i>>] = z
      BY <1>2, <3>1
    <3> QED BY <3>2
  <2>4. \A y, z \in Copies(T) : f[y] = f[z] => y = z
    <3> HIDE DEF f
    <3> QED BY <2>1
  <2> QED BY <2>2, <2>3, <2>4
<1>5. \A y \in Copies(T) : f[y][1] = Num[y[1][c]]
  OBVIOUS
<1>6. IsFiniteSet(Copies(T)) /\ n = Cardinality(Copies(T)) /\ n \in Nat
  BY CopiesOfTable, FS_CardinalityType DEF NumRows
<1>7. IsFiniteSet(cells) /\ Cardinality(cells) = n
  <2> HIDE DEF cells, f, n
  <2>1. f \in Bijection(Copies(T), cells)
    BY <1>4 DEF Bijection, Injection, Surjection, IsInjective
  <2>2. IsFiniteSet(cells)
    BY <1>6, <2>1, FS_Bijection DEF ExistsBijection
  <2>3. Cardinality(cells) = Cardinality(Copies(T))
    BY <1>6, <2>1, FS_Bijection DEF ExistsBijection
  <2> QED BY <1>6, <2>2, <2>3
<1>8. \A z \in cells : z[1] \in Int /\ key[z] = z[1]
  <2> HIDE DEF cells
  <2> QED BY <1>3
<1>9. PICK s : Ascending(s, cells, key)
  <2> HIDE DEF cells, key
  <2> QED BY <1>7, <1>8, AscendingExists
<1> HIDE DEF cells, f, n, key
<1>10. /\ sorted \in [1 .. n -> cells]
       /\ \A i, j \in 1 .. n : i # j => sorted[i] # sorted[j]
       /\ \A i, j \in 1 .. n : i < j => sorted[i][1] <= sorted[j][1]
  <2>1. /\ s \in SetToSeqs(cells)
        /\ \A i, j \in DOMAIN s : i < j => s[i][1] <= s[j][1]
    <3>1. /\ s \in [1 .. n -> cells]
          /\ \A i, j \in 1 .. n : i # j => s[i] # s[j]
          /\ \A i, j \in 1 .. n : i < j => key[s[i]] <= key[s[j]]
      BY <1>7, <1>9 DEF Ascending
    <3>2. \A i \in 1 .. n : key[s[i]] = s[i][1]
      BY <1>8, <3>1
    <3> QED BY <1>7, <3>1, <3>2 DEF SetToSeqs
  <2>2. /\ sorted \in SetToSeqs(cells)
        /\ \A i, j \in DOMAIN sorted : i < j => sorted[i][1] <= sorted[j][1]
    BY <2>1
  <2> HIDE DEF sorted
  <2>3. /\ sorted \in [1 .. n -> cells]
        /\ \A i, j \in 1 .. n : i # j => sorted[i] # sorted[j]
    BY <1>7, <2>2 DEF SetToSeqs
  <2>4. DOMAIN sorted = 1 .. n
    BY <2>3
  <2> QED BY <2>2, <2>3, <2>4
<1> HIDE DEF sorted, v
<1>11. DOMAIN v = 1 .. n /\ \A i \in 1 .. n : v[i] = sorted[i][1] /\ v[i] \in Int
  BY <1>1, <1>8, <1>10
<1>12. v \in [1 .. n -> Int]
  <2>1. v = [i \in 1 .. n |-> v[i]]
    BY <1>1, <1>10, <1>11
  <2> QED BY <1>11, <2>1
<1>13. \A z \in cells : \E i \in 1 .. n : sorted[i] = z
  <2>1. IsFiniteSet(1 .. n) /\ Cardinality(1 .. n) = n
    <3>1. n \in Nat
      BY <1>6
    <3> QED BY <3>1, IntervalCount
  <2>2. sorted \in Injection(1 .. n, cells)
    BY <1>10 DEF Injection, IsInjective
  <2>3. sorted \in Surjection(1 .. n, cells)
    BY <1>7, <2>1, <2>2, FS_Injection
  <2> QED BY <2>3 DEF Surjection
<1>14. ASSUME NEW x \in Int
       PROVE  Cardinality({i \in 1 .. n : v[i] <= x}) = Cardinality(PartCopies(T, RowsUpTo(T, c, x)))
  <2> DEFINE A == PartCopies(T, RowsUpTo(T, c, x))
             B == {i \in 1 .. n : v[i] <= x}
             C == {z \in cells : z[1] <= x}
             g == [y \in A |-> f[y]]
             h == [i \in B |-> sorted[i]]
  <2>1. \A y : y \in A <=> y \in Copies(T) /\ f[y][1] <= x
    BY <1>2, <1>5 DEF PartCopies, RowsUpTo
  <2>2. g \in Bijection(A, C)
    <3>1. g \in [A -> C]
      BY <1>4, <2>1
    <3>2. \A y, z \in A : g[y] = g[z] => y = z
      BY <1>4, <2>1
    <3>3. \A z \in C : \E y \in A : g[y] = z
      <4> SUFFICES ASSUME NEW z \in C PROVE \E y \in A : f[y] = z
        OBVIOUS
      <4>1. PICK y \in Copies(T) : f[y] = z
        BY <1>4
      <4> QED BY <2>1, <4>1
    <3> HIDE DEF g, A, C
    <3> QED BY <3>1, <3>2, <3>3 DEF Bijection, Injection, Surjection, IsInjective
  <2>3. h \in Bijection(B, C)
    <3>1. h \in [B -> C]
      BY <1>10, <1>11
    <3>2. \A i, j \in B : h[i] = h[j] => i = j
      BY <1>10
    <3>3. \A z \in C : \E i \in B : h[i] = z
      <4> SUFFICES ASSUME NEW z \in C PROVE \E i \in B : sorted[i] = z
        OBVIOUS
      <4>1. PICK i \in 1 .. n : sorted[i] = z
        BY <1>13
      <4> QED BY <1>11, <4>1
    <3> HIDE DEF h, B, C
    <3> QED BY <3>1, <3>2, <3>3 DEF Bijection, Injection, Surjection, IsInjective
  <2>4. IsFiniteSet(A) /\ IsFiniteSet(B)
    <3>1. IsFiniteSet(1 .. n)
      BY <1>6, FS_Interval
    <3>2. A \subseteq Copies(T) /\ B \subseteq 1 .. n
      BY DEF PartCopies
    <3> HIDE DEF A, B
    <3> QED BY <1>6, <3>1, <3>2, FS_Subset
  <2> HIDE DEF A, B, C, g, h
  <2>5. Cardinality(A) = Cardinality(C)
    BY <2>2, <2>4, FS_Bijection DEF ExistsBijection
  <2>6. Cardinality(B) = Cardinality(C)
    BY <2>3, <2>4, FS_Bijection DEF ExistsBijection
  <2> QED BY <2>5, <2>6 DEF A, B
<1>15. \A i, j \in 1 .. n : i < j => v[i] <= v[j]
  BY <1>10, <1>11
<1> QED BY <1>6, <1>12, <1>14, <1>15 DEF n, v

(* Whichever interval between sorted numbers x is in, its rank is how many *)
(* of the numbers are at most x; and x is in one of the intervals.         *)
LEMMA IntervalRank ==
  ASSUME NEW n \in Nat, NEW v \in [1 .. n -> Int],
         \A i, j \in 1 .. n : i < j => v[i] <= v[j],
         NEW b \in Int \X Int, NEW x \in Int, b[1] <= x, x < b[2]
  PROVE  /\ \E at \in Intervals(v, b) : at.lower <= x /\ x < at.upper
         /\ \A at \in Intervals(v, b) :
              at.lower <= x /\ x < at.upper
                => at.rank = Cardinality({i \in 1 .. n : v[i] <= x})
<1> DEFINE upTo == {i \in 1 .. n : v[i] <= x}
           under(y) == {i \in 1 .. n : v[i] < y}
           r == Cardinality(upTo)
           first == Below(v, b[1])
           last == Below(v, b[2])
           ends == {i \in first + 1 .. last :
                      v[i] > IF i = first + 1 THEN b[1] ELSE v[i - 1]}
           starts(i) == {b[1]} \cup {v[j] : j \in {e \in ends : e < i}}
           start(i) == Max(starts(i))
<1>0. b[1] \in Int /\ b[2] \in Int
  OBVIOUS
<1>1. upTo = 1 .. r /\ r \in 0 .. n
  <2>1. upTo \in SUBSET (1 .. n) /\ \A i \in upTo, j \in 1 .. n : j < i => j \in upTo
    OBVIOUS
  <2> HIDE DEF upTo
  <2> QED BY <2>1, DownwardClosed
<1>2. \A y \in Int : under(y) = 1 .. Below(v, y) /\ Below(v, y) \in 0 .. n
  <2> SUFFICES ASSUME NEW y \in Int
               PROVE  under(y) = 1 .. Below(v, y) /\ Below(v, y) \in 0 .. n
    OBVIOUS
  <2>1. under(y) \in SUBSET (1 .. n) /\ \A i \in under(y), j \in 1 .. n : j < i => j \in under(y)
    OBVIOUS
  <2>2. Below(v, y) = Cardinality(under(y))
    BY DEF Below
  <2> HIDE DEF under
  <2> QED BY <2>1, <2>2, DownwardClosed
<1>3. /\ first \in 0 .. n /\ last \in 0 .. n
      /\ \A i \in 1 .. n : /\ v[i] < b[1] <=> i <= first
                           /\ v[i] < b[2] <=> i <= last
                           /\ v[i] <= x <=> i <= r
  <2>1. under(b[1]) = 1 .. first /\ first \in 0 .. n
    BY <1>0, <1>2
  <2>2. under(b[2]) = 1 .. last /\ last \in 0 .. n
    BY <1>0, <1>2
  <2> HIDE DEF first, last, r
  <2>3. \A i \in 1 .. n : v[i] < b[1] <=> i \in 1 .. first
    BY <2>1
  <2>4. \A i \in 1 .. n : v[i] < b[2] <=> i \in 1 .. last
    BY <2>2
  <2>5. \A i \in 1 .. n : v[i] <= x <=> i \in 1 .. r
    BY <1>1
  <2> HIDE DEF under, upTo
  <2> QED BY <1>1, <2>1, <2>2, <2>3, <2>4, <2>5
<1>4. Intervals(v, b) =
        {[rank |-> i - 1, lower |-> start(i), upper |-> v[i]] : i \in ends}
          \cup {[rank |-> last, lower |-> start(last + 1), upper |-> b[2]]}
  BY DEF Intervals
<1>5. r \in 0 .. n
  BY <1>1
<1> HIDE DEF first, last, r, upTo, under
<1>6. first <= r /\ r <= last
  <2>1. ASSUME first > r PROVE FALSE
    <3>1. first \in 1 .. n /\ v[first] < b[1] /\ v[first] \in Int
      BY <1>3, <1>5, <2>1
    <3>2. v[first] <= x
      BY <1>0, <3>1
    <3> QED BY <1>3, <1>5, <2>1, <3>1, <3>2
  <2>2. ASSUME r > last PROVE FALSE
    <3>1. r \in 1 .. n /\ v[r] <= x /\ v[r] \in Int
      BY <1>3, <1>5, <2>2
    <3>2. v[r] < b[2]
      BY <1>0, <3>1
    <3> QED BY <1>3, <1>5, <2>2, <3>1, <3>2
  <2> QED BY <1>3, <1>5, <2>1, <2>2
<1>7. \A i \in ends : i \in first + 1 .. last /\ i \in 1 .. n /\ v[i] \in Int
  BY <1>3
<1>8. \A i \in 1 .. last : i \in first + 1 .. last /\ (i = first + 1 => v[i] > b[1])
                           /\ (i # first + 1 => v[i] > v[i - 1]) => i \in ends
  BY <1>3
<1> HIDE DEF ends
<1>9. ASSUME NEW i \in Int
      PROVE  /\ start(i) \in starts(i) /\ start(i) \in Int
             /\ \A y \in starts(i) : y <= start(i)
  <2>1. starts(i) \in SUBSET Int /\ starts(i) # {}
    BY <1>0, <1>7
  <2>2. \A y \in starts(i) : y <= b[2]
    <3>1. b[1] <= b[2]
      BY <1>0
    <3>2. \A j \in ends : v[j] <= b[2]
      BY <1>0, <1>3, <1>7
    <3> QED BY <3>1, <3>2
  <2> HIDE DEF starts
  <2>3. \E m \in starts(i) : \A y \in starts(i) : y <= m
    BY <1>0, <2>1, <2>2, LargestExists
  <2>4. start(i) \in starts(i) /\ \A y \in starts(i) : start(i) >= y
    <3>1. \E m \in starts(i) : \A y \in starts(i) : m >= y
      BY <2>1, <2>3
    <3> QED BY <3>1 DEF Max
  <2> QED BY <2>1, <2>4
<1>10. ASSUME NEW k \in first + 1 .. last
       PROVE  v[k] <= start(k + 1)
  <2>0. k \in 1 .. n /\ v[k] \in Int
    BY <1>3
  <2> DEFINE same == {j \in first + 1 .. last : v[j] = v[k]}
  <2>1. PICK j \in same : \A e \in same : j <= e
    <3>1. same \in SUBSET Int /\ k \in same /\ \A e \in same : first + 1 <= e
      BY <1>3
    <3>2. first + 1 \in Int
      BY <1>3
    <3> HIDE DEF same
    <3> QED BY <3>1, <3>2, LeastExists
  <2>2. j \in 1 .. n /\ j \in first + 1 .. last /\ v[j] = v[k] /\ j <= k
    BY <1>3, <2>1
  <2>3. CASE j \in ends
    <3>1. v[j] \in starts(k + 1)
      BY <2>2, <2>3
    <3>2. k + 1 \in Int
      BY <2>0
    <3> HIDE DEF start, starts
    <3> QED BY <1>9, <2>2, <3>1, <3>2
  <2>4. CASE j \notin ends
    <3>1. v[k] <= b[1]
      <4>1. CASE j = first + 1
        BY <1>0, <1>3, <1>8, <2>0, <2>2, <2>4, <4>1
      <4>2. CASE j # first + 1
        <5>1. j - 1 \in first + 1 .. last /\ j - 1 \in 1 .. n /\ j - 1 < j
          BY <1>3, <2>2, <4>2
        <5>2. v[j - 1] <= v[j] /\ v[j - 1] \in Int
          BY <2>2, <5>1
        <5>3. ~ v[j] > v[j - 1]
          BY <1>3, <1>8, <2>2, <2>4, <4>2
        <5>4. v[j - 1] = v[k]
          BY <2>0, <2>2, <5>2, <5>3
        <5>5. j - 1 \in same
          BY <5>1, <5>4
        <5> QED BY <2>1, <2>2, <5>1, <5>5
      <4> QED BY <4>1, <4>2
    <3>2. b[1] \in starts(k + 1)
      OBVIOUS
    <3>3. k + 1 \in Int
      BY <2>0
    <3> HIDE DEF start, starts
    <3>4. b[1] <= start(k + 1) /\ start(k + 1) \in Int
      BY <1>9, <3>2, <3>3
    <3> QED BY <1>0, <2>0, <3>1, <3>4
  <2> QED BY <2>3, <2>4
<1>11. ASSUME NEW i \in Int, i >= 1, i - 1 <= r
       PROVE  start(i) <= x
  <2>1. \A y \in starts(i) : y <= x
    <3>1. \A j \in ends : j < i => v[j] <= x
      BY <1>3, <1>5, <1>7, <1>11
    <3> QED BY <3>1
  <2> HIDE DEF start, starts
  <2> QED BY <1>9, <2>1
<1>12. ASSUME NEW i \in first + 1 .. last + 1, start(i) <= x
       PROVE  i - 1 <= r
  <2>1. CASE i = first + 1
    BY <1>3, <1>5, <1>6, <2>1
  <2>2. CASE i # first + 1
    <3>1. i - 1 \in first + 1 .. last /\ i - 1 \in 1 .. n /\ i \in Int
      BY <1>3, <2>2
    <3>2. v[i - 1] <= start((i - 1) + 1)
      BY <1>10, <3>1
    <3>3. (i - 1) + 1 = i
      BY <3>1
    <3>4. v[i - 1] <= start(i) /\ start(i) \in Int
      BY <1>9, <3>1, <3>2, <3>3
    <3>5. v[i - 1] \in Int
      BY <3>1
    <3> HIDE DEF start
    <3>6. v[i - 1] <= x
      BY <1>12, <3>4, <3>5
    <3> QED BY <1>3, <3>1, <3>6
  <2> QED BY <2>1, <2>2
<1> HIDE DEF start, starts
<1>13. \E at \in Intervals(v, b) : at.lower <= x /\ x < at.upper
  <2>1. CASE r = last
    <3> DEFINE at == [rank |-> last, lower |-> start(last + 1), upper |-> b[2]]
    <3>1. at \in Intervals(v, b)
      BY <1>4
    <3>2. start(last + 1) <= x
      BY <1>3, <1>11, <2>1
    <3> QED BY <3>1, <3>2
  <2>2. CASE r # last
    <3>1. /\ r + 1 \in first + 1 .. last /\ r + 1 \in 1 .. n /\ r + 1 \in 1 .. last
          /\ r + 1 \in Int /\ r + 1 >= 1 /\ (r + 1) - 1 <= r
      BY <1>3, <1>5, <1>6, <2>2
    <3>2. ~ v[r + 1] <= x /\ v[r + 1] \in Int
      BY <1>3, <1>5, <3>1
    <3>3. x < v[r + 1]
      BY <3>2
    <3>4. r + 1 # first + 1 => v[r + 1] > v[(r + 1) - 1]
      <4> SUFFICES ASSUME r + 1 # first + 1 PROVE v[r + 1] > v[(r + 1) - 1]
        OBVIOUS
      <4>1. r \in 1 .. n /\ (r + 1) - 1 = r
        BY <1>3, <1>5, <1>6
      <4>2. v[r] <= x /\ v[r] \in Int
        BY <1>3, <1>5, <4>1
      <4>3. v[r + 1] > v[r]
        BY <3>2, <3>3, <4>2
      <4> QED BY <4>1, <4>3
    <3>5. v[r + 1] > b[1]
      BY <1>0, <3>2, <3>3
    <3>6. r + 1 \in ends
      BY <1>8, <3>1, <3>4, <3>5
    <3> DEFINE at == [rank |-> (r + 1) - 1, lower |-> start(r + 1), upper |-> v[r + 1]]
    <3>7. at \in Intervals(v, b)
      BY <1>4, <3>6
    <3>8. start(r + 1) <= x
      BY <1>11, <3>1
    <3> QED BY <3>3, <3>7, <3>8
  <2> QED BY <2>1, <2>2
<1>14. ASSUME NEW at \in Intervals(v, b), at.lower <= x, x < at.upper
       PROVE  at.rank = r
  <2>1. CASE \E i \in ends : at = [rank |-> i - 1, lower |-> start(i), upper |-> v[i]]
    <3>1. PICK i \in ends : at = [rank |-> i - 1, lower |-> start(i), upper |-> v[i]]
      BY <2>1
    <3>2. at.rank = i - 1 /\ start(i) <= x /\ x < v[i]
      BY <1>14, <3>1
    <3>3. i \in first + 1 .. last + 1 /\ i \in 1 .. n /\ v[i] \in Int
      BY <1>3, <1>7
    <3>4. i - 1 <= r
      BY <1>12, <3>2, <3>3
    <3>5. ~ i <= r
      BY <1>3, <3>2, <3>3
    <3> QED BY <1>5, <3>2, <3>3, <3>4, <3>5
  <2>2. CASE at = [rank |-> last, lower |-> start(last + 1), upper |-> b[2]]
    <3>1. at.rank = last /\ start(last + 1) <= x
      BY <1>14, <2>2
    <3>2. last + 1 \in first + 1 .. last + 1 /\ (last + 1) - 1 = last
      BY <1>3, <1>5, <1>6
    <3>3. (last + 1) - 1 <= r
      BY <1>12, <3>1, <3>2
    <3> QED BY <1>3, <1>5, <1>6, <3>1, <3>2, <3>3
  <2> QED BY <1>4, <2>1, <2>2
<1>15. \A at \in Intervals(v, b) : at.lower <= x /\ x < at.upper => at.rank = r
  BY <1>14
<1> QED BY <1>13, <1>15 DEF r, upTo

(* How far the rank at x is from the target: as many rows as have a number *)
(* up to x, and as many as there are.                                      *)
LEMMA RankErrorCounts ==
  ASSUME NEW T, IsTable(T), NEW c, \A r \in DOMAIN T : Num[r[c]] \in Int,
         NEW b \in Int \X Int, NEW x \in Int, b[1] <= x, x < b[2], NEW q
  PROVE  RankError(T, c, b, q, x)
           = Abs(Cardinality(PartCopies(T, RowsUpTo(T, c, x))) * q[2] - q[1] * NumRows(T))
<1> DEFINE v == Numbers(T, c)
           n == NumRows(T)
           at == CHOOSE i \in Intervals(v, b) : i.lower <= x /\ x < i.upper
<1>1. /\ v \in [1 .. n -> Int] /\ n \in Nat
      /\ \A i, j \in 1 .. n : i < j => v[i] <= v[j]
      /\ Cardinality({i \in 1 .. n : v[i] <= x}) = Cardinality(PartCopies(T, RowsUpTo(T, c, x)))
  BY SortedNumbers
<1>2. RankError(T, c, b, q, x) = Abs(at.rank * q[2] - q[1] * Len(v))
  BY DEF RankError
<1> HIDE DEF v, n
<1>3. at \in Intervals(v, b) /\ at.lower <= x /\ x < at.upper
  <2>1. \E i \in Intervals(v, b) : i.lower <= x /\ x < i.upper
    BY <1>1, IntervalRank
  <2> QED BY <2>1
<1> HIDE DEF at
<1>4. at.rank = Cardinality({i \in 1 .. n : v[i] <= x})
  BY <1>1, <1>3, IntervalRank
<1>5. Len(v) = n
  BY <1>1
<1>6. at.rank = Cardinality(PartCopies(T, RowsUpTo(T, c, x)))
  BY <1>1, <1>4
<1> QED BY <1>2, <1>5, <1>6 DEF n

(* One row more, or less, moves the error by no more than the sensitivity. *)
LEMMA RankErrorsDiffer ==
  ASSUME NEW L, IsTable(L), NEW R, IsTable(R),
         NEW c, \A r \in DOMAIN L \cup DOMAIN R : Num[r[c]] \in Int,
         NEW b \in Int \X Int, NEW x \in Int, b[1] <= x, x < b[2],
         NEW q \in Nat \X (Nat \ {0}), q[1] <= q[2]
  PROVE  /\ RankError(L, c, b, q, x) - RankError(R, c, b, q, x) \in Int
         /\ RankError(L, c, b, q, x) - RankError(R, c, b, q, x)
              <= QuantileSensitivity(q) * RowsApart(L, R)
         /\ -(QuantileSensitivity(q) * RowsApart(L, R))
              <= RankError(L, c, b, q, x) - RankError(R, c, b, q, x)
         /\ QuantileSensitivity(q) \in Nat /\ RowsApart(L, R) \in Nat
<1> DEFINE S == {r \in DOMAIN L \cup DOMAIN R : Num[r[c]] <= x}
           s == QuantileSensitivity(q)
           u == q[2] - q[1]
<1>0. q[1] \in Nat /\ q[2] \in Nat /\ u \in Nat
  OBVIOUS
<1>1. /\ PartCopies(L, RowsUpTo(L, c, x)) = PartCopies(L, S)
      /\ PartCopies(R, RowsUpTo(R, c, x)) = PartCopies(R, S)
  <2>1. /\ \A y \in Copies(L) : y[1] \in DOMAIN L
        /\ \A y \in Copies(R) : y[1] \in DOMAIN R
    <3>1. /\ \A y : y \in Copies(L) <=> \E r \in DOMAIN L : \E i \in 1 .. L[r] : y = <<r, i>>
          /\ \A y : y \in Copies(R) <=> \E r \in DOMAIN R : \E i \in 1 .. R[r] : y = <<r, i>>
      BY CopiesOfTable
    <3> QED BY <3>1
  <2> QED BY <2>1 DEF PartCopies, RowsUpTo
<1> HIDE DEF S
<1>2. PICK d, e, f, g \in Nat :
        /\ Cardinality(PartCopies(L, S)) - Cardinality(PartCopies(R, S)) = d - e
        /\ NumRows(L) - NumRows(R) = (d + f) - (e + g)
        /\ RowsApart(L, R) = (d + f) + (e + g)
  <2>1. PICK d, e, f, g \in Nat : DifferBy(L, R, S, d, e, f, g)
    BY CopiesInDiffer
  <2> QED BY <2>1 DEF DifferBy
<1>3. /\ NumRows(L) \in Nat /\ NumRows(R) \in Nat
      /\ Cardinality(PartCopies(L, S)) \in Nat /\ Cardinality(PartCopies(R, S)) \in Nat
  <2>1. NumRows(L) \in Nat /\ NumRows(R) \in Nat /\ IsFiniteSet(Copies(L)) /\ IsFiniteSet(Copies(R))
    BY CopiesOfTable, FS_CardinalityType DEF NumRows
  <2>2. PartCopies(L, S) \subseteq Copies(L) /\ PartCopies(R, S) \subseteq Copies(R)
    BY DEF PartCopies
  <2> QED BY <2>1, <2>2, FS_Subset, FS_CardinalityType
<1>4. PICK k, n, l, m \in Int :
        /\ k = Cardinality(PartCopies(L, S)) /\ n = NumRows(L)
        /\ l = Cardinality(PartCopies(R, S)) /\ m = NumRows(R)
  BY <1>3
<1>5. /\ RankError(L, c, b, q, x) = Abs(k * q[2] - q[1] * n)
      /\ RankError(R, c, b, q, x) = Abs(l * q[2] - q[1] * m)
  BY <1>1, <1>4, RankErrorCounts
<1>6. /\ k = l + (d - e) /\ n = m + ((d + f) - (e + g))
  BY <1>2, <1>4
<1>7. s \in Nat /\ q[1] <= s /\ u <= s
  BY <1>0 DEF QuantileSensitivity, Larger
<1>8. /\ s * RowsApart(L, R) = s * d + s * f + s * e + s * g
      /\ RowsApart(L, R) \in Nat
  BY <1>2, <1>7
<1> HIDE DEF s
<1>9. PICK p \in Nat, h \in Nat : p = q[1] /\ h = q[2] /\ u = h - p /\ p <= h
  BY <1>0
<1> HIDE DEF u
<1>10. (k * h - p * n) - (l * h - p * m) = u * d - u * e - p * f + p * g
  <2>1. k * h = l * h + d * h - e * h
    <3>1. (l + (d - e)) * h = l * h + d * h - e * h
      OBVIOUS
    <3> QED BY <1>6, <3>1
  <2>2. p * n = p * m + p * d + p * f - p * e - p * g
    <3>1. p * (m + ((d + f) - (e + g))) = p * m + p * d + p * f - p * e - p * g
      OBVIOUS
    <3> QED BY <1>6, <3>1
  <2>3. u * d = h * d - p * d /\ u * e = h * e - p * e
    BY <1>9
  <2>4. k * h \in Int /\ l * h \in Int /\ p * n \in Int /\ p * m \in Int
        /\ d * h \in Int /\ e * h \in Int /\ p * d \in Int /\ p * e \in Int
        /\ p * f \in Int /\ p * g \in Int /\ h * d = d * h /\ h * e = e * h
    OBVIOUS
  <2> QED BY <2>1, <2>2, <2>3, <2>4
<1>11. /\ u * d <= s * d /\ u * e <= s * e /\ p * f <= s * f /\ p * g <= s * g
       /\ u * d \in Nat /\ u * e \in Nat /\ p * f \in Nat /\ p * g \in Nat
       /\ s * d \in Nat /\ s * e \in Nat /\ s * f \in Nat /\ s * g \in Nat
  <2>1. \A i, j, t \in Nat : i <= j => i * t <= j * t /\ i * t \in Nat /\ j * t \in Nat
    OBVIOUS
  <2> QED BY <1>0, <1>7, <1>9, <2>1
<1>12. PICK y \in Int, z \in Int : y = k * h - p * n /\ z = l * h - p * m
  OBVIOUS
<1>13. PICK D, E, F, G \in Nat : D = s * d /\ E = s * e /\ F = s * f /\ G = s * g
  BY <1>11
<1>14. y - z <= D + E + F + G /\ z - y <= D + E + F + G
  BY <1>10, <1>11, <1>12, <1>13
<1>15. /\ Abs(y) - Abs(z) \in Int /\ Abs(y) - Abs(z) <= D + E + F + G
       /\ -(D + E + F + G) <= Abs(y) - Abs(z)
  BY <1>14 DEF Abs
<1>16. /\ RankError(L, c, b, q, x) = Abs(y) /\ RankError(R, c, b, q, x) = Abs(z)
  BY <1>5, <1>9, <1>12
<1>17. s * RowsApart(L, R) = D + E + F + G
  BY <1>8, <1>13
<1> QED BY <1>7, <1>8, <1>15, <1>16, <1>17 DEF s

(* A quantile of a group, between bounds.                                  *)
LEMMA QuantileChanges ==
  ASSUME NEW k, IsTable(left[k]), IsTable(right[k]),
         NEW c, \A r \in DOMAIN left[k] \cup DOMAIN right[k] : Num[r[c]] \in Int,
         NEW b \in Int \X Int, b[1] <= b[2],
         NEW q \in Nat \X (Nat \ {0}), q[1] <= q[2]
  PROVE  /\ QuantileChange(c, b, q, k) \in Int
         /\ Abs(QuantileChange(c, b, q, k))
              <= (2 * QuantileSensitivity(q)) * RowsApart(left[k], right[k])
<1> DEFINE changes == {RankError(left[k], c, b, q, x) - RankError(right[k], c, b, q, x) :
                         x \in b[1] .. b[2] - 1}
           s == QuantileSensitivity(q)
           a == RowsApart(left[k], right[k])
<1>0. b[1] \in Int /\ b[2] \in Int
  OBVIOUS
<1>1. s \in Nat /\ a \in Nat
  <2>1. s \in Nat
    BY DEF QuantileSensitivity, Larger
  <2> QED BY <2>1, RowsDistance
<1>2. PICK t \in Nat : t = s * a /\ (2 * s) * a = 2 * t
  BY <1>1
<1>3. CASE b[1] = b[2]
  <2>1. QuantileChange(c, b, q, k) = 0
    BY <1>3 DEF QuantileChange
  <2> QED BY <1>2, <2>1 DEF Abs
<1>4. CASE b[1] # b[2]
  <2>1. QuantileChange(c, b, q, k) = Max(changes) - Min(changes)
    BY <1>4 DEF QuantileChange
  <2>2. \A y \in changes : y \in Int /\ y <= t /\ -t <= y
    <3> SUFFICES ASSUME NEW x \in b[1] .. b[2] - 1
                 PROVE  LET y == RankError(left[k], c, b, q, x) - RankError(right[k], c, b, q, x)
                        IN y \in Int /\ y <= t /\ -t <= y
      OBVIOUS
    <3>1. x \in Int /\ b[1] <= x /\ x < b[2]
      BY <1>0
    <3> QED BY <1>2, <3>1, RankErrorsDiffer
  <2>3. changes # {}
    <3>1. b[1] \in b[1] .. b[2] - 1
      BY <1>0, <1>4
    <3> QED BY <3>1
  <2> HIDE DEF changes, s, a
  <2>4. /\ \E m \in changes : \A y \in changes : m >= y
        /\ \E m \in changes : \A y \in changes : m <= y
    <3>1. changes \in SUBSET Int /\ t \in Int /\ -t \in Int
      BY <2>2
    <3>2. \E m \in changes : \A y \in changes : y <= m
      BY <2>2, <2>3, <3>1, LargestExists
    <3>3. \E m \in changes : \A y \in changes : m <= y
      BY <2>2, <2>3, <3>1, LeastExists
    <3> QED BY <3>1, <3>2, <3>3
  <2>5. /\ Max(changes) \in changes /\ \A y \in changes : Max(changes) >= y
        /\ Min(changes) \in changes /\ \A y \in changes : Min(changes) <= y
    BY <2>4 DEF Max, Min
  <2>6. PICK hi \in Int, lo \in Int : hi = Max(changes) /\ lo = Min(changes)
    BY <2>2, <2>5
  <2>7. lo <= hi /\ hi <= t /\ -t <= lo
    BY <2>2, <2>5, <2>6
  <2>8. hi - lo \in Int /\ Abs(hi - lo) <= 2 * t
    BY <2>7 DEF Abs
  <2> QED BY <1>2, <2>1, <2>6, <2>8 DEF s, a
<1> QED BY <1>3, <1>4

(* Pure quantiles are asked for of groups whose distances add up.          *)
QuantilesOfSums == QuantileOver \subseteq {"sum"}

(* A quantile of groups, of numbers between the bounds.                    *)
LEMMA QuantileIsCovered ==
  ASSUME GroupsInHand, NumericCells, QuantilesOfSums, CreateQuantileMeasurement
  PROVE  Covered(made)'
<1>1. PICK q \in Budgets, b \in Bounds, quantile \in Quantiles, measure \in {"pure", "approx", "rho"} :
        \E c \in DOMAIN schema \ GroupColumns :
          /\ IsGrouped
          /\ measure # "rho" => metric.over \in QuantileOver
          /\ CanSum(c)
          /\ b[1] <= b[2]
          /\ Make(NoisyQuantile(c, b, quantile, measure, q))
  BY DEF CreateQuantileMeasurement
<1>2. PICK c \in DOMAIN schema \ GroupColumns :
        /\ IsGrouped
        /\ measure # "rho" => metric.over \in QuantileOver
        /\ CanSum(c)
        /\ b[1] <= b[2]
        /\ Make(NoisyQuantile(c, b, quantile, measure, q))
  BY <1>1
<1> DEFINE change == [k \in DOMAIN left |-> QuantileChange(c, b, quantile, k)]
           s == 2 * QuantileSensitivity(quantile)
           mech == IF measure = "rho" THEN "gaussian" ELSE "laplace"
           m == NoisyQuantile(c, b, quantile, measure, q)
<1>3. m = NoisyChanges(change, s, mech, measure, q)
  BY DEF NoisyQuantile, PostProcess
<1>4. quantile \in Nat \X (Nat \ {0}) /\ quantile[1] <= quantile[2] /\ b \in Int \X Int /\ q \in Exact
  BY NumbersAssumption, NumbersAreExact
<1>5. s \in Nat
  <2>1. quantile[1] \in Nat /\ quantile[2] \in Nat /\ quantile[2] - quantile[1] \in Nat
    BY <1>4
  <2> QED BY <2>1 DEF QuantileSensitivity, Larger
<1>6. /\ mech \in Mechanisms /\ measure \in SupportedMeasures(mech)
      /\ metric.over # "table" /\ (mech \in PureMechanisms => metric.over = "sum")
  BY <1>2 DEF Mechanisms, PureMechanisms, SupportedMeasures, QuantilesOfSums, IsGrouped
<1>7. \A k \in DOMAIN left : /\ change[k] \in Int
                             /\ Abs(change[k]) <= s * RowsApart(left[k], right[k])
  <2> SUFFICES ASSUME NEW k \in DOMAIN left
               PROVE  /\ QuantileChange(c, b, quantile, k) \in Int
                      /\ Abs(QuantileChange(c, b, quantile, k)) <= s * RowsApart(left[k], right[k])
    OBVIOUS
  <2>1. IsTable(left[k]) /\ IsTable(right[k])
    BY <1>6, GroupsApartWithin DEF GroupsInHand
  <2>2. BagToSet(left[k]) \cup BagToSet(right[k]) \subseteq RowsInHand
    BY DEF RowsInHand
  <2>3. \A r \in DOMAIN left[k] \cup DOMAIN right[k] : Num[r[c]] \in Int
    BY <1>2, <2>2 DEF BagToSet, NumericCells
  <2> QED BY <1>2, <1>4, <2>1, <2>3, QuantileChanges
<1>8. DOMAIN change = DOMAIN left
  OBVIOUS
<1> HIDE DEF change, s, mech, m
<1>9. Covered(m)
  BY <1>3, <1>4, <1>5, <1>6, <1>7, <1>8, ChangesAreCoveredUnder DEF GroupsInHand
<1>10. made' = m
  BY <1>2 DEF Make, m
<1> QED BY <1>9, <1>10 DEF Covered, IsMade

-----------------------------------------------------------------------------
(* Bounds *)

(* By how much the rows up to a bucket change: by what the neighbour has   *)
(* more of, at most, or less of.                                           *)
LEMMA PrefixChanges ==
  ASSUME NEW L, IsTable(L), NEW R, IsTable(R), NEW c
  PROVE  \E x, y \in Nat :
           /\ RowsApart(L, R) = x + y
           /\ \A i : /\ PrefixSum(L, c, i) \in Nat /\ PrefixSum(R, c, i) \in Nat
                     /\ PrefixSum(R, c, i) - PrefixSum(L, c, i) \in -y .. x
<1> DEFINE x == Cardinality(ExceptAll(R, L))
           y == Cardinality(ExceptAll(L, R))
<1>1. x \in Nat /\ y \in Nat /\ RowsApart(L, R) = x + y
  BY RowsApartCount DEF RowsApart
<1>2. NumRows(L) - NumRows(R) = y - x /\ NumRows(L) \in Nat /\ NumRows(R) \in Nat
  BY RowsDiffer, CopiesOfTable
<1> HIDE DEF x, y
<1>3. ASSUME NEW i
      PROVE  /\ PrefixSum(L, c, i) \in Nat /\ PrefixSum(R, c, i) \in Nat
             /\ PrefixSum(R, c, i) - PrefixSum(L, c, i) \in -y .. x
  <2> DEFINE S == {r \in DOMAIN L \cup DOMAIN R : Bucket(c, Num[r[c]]) <= i}
             p == PrefixSum(L, c, i)
             q == PrefixSum(R, c, i)
  <2>1. \A T \in {L, R} :
          PrefixSum(T, c, i) = NumRows(Restrict(T, {r \in DOMAIN T : Bucket(c, Num[r[c]]) <= i}))
    BY DEF PrefixSum, Where, RestrictDomain
  <2>2. ASSUME NEW T \in {L, R}
        PROVE  PrefixSum(T, c, i) = Cardinality(PartCopies(T, S)) /\ PrefixSum(T, c, i) \in Nat
    <3> DEFINE Q == {r \in DOMAIN T : Bucket(c, Num[r[c]]) <= i}
    <3>1. IsTable(T) /\ Q \in SUBSET DOMAIN T /\ Q = DOMAIN T \cap S
      OBVIOUS
    <3>2. PrefixSum(T, c, i) = NumRows(Restrict(T, Q))
      BY <2>1
    <3> HIDE DEF Q, S
    <3>3. IsTable(Restrict(T, Q)) /\ Copies(Restrict(T, Q)) = PartCopies(T, S)
      BY <3>1, CopiesOfPart
    <3>4. NumRows(Restrict(T, Q)) \in Nat
      BY <3>3, CopiesOfTable
    <3>5. NumRows(Restrict(T, Q)) = Cardinality(PartCopies(T, S))
      BY <3>3, Zenon DEF NumRows
    <3> QED BY <3>2, <3>4, <3>5
  <2> HIDE DEF S
  <2>3. /\ p = Cardinality(PartCopies(L, S)) /\ p \in Nat
        /\ q = Cardinality(PartCopies(R, S)) /\ q \in Nat
    BY <2>2
  <2>4. PICK d, e, f, g \in Nat : DifferBy(L, R, S, d, e, f, g)
    BY CopiesInDiffer
  <2>5. /\ p - q = d - e
        /\ NumRows(L) - NumRows(R) = (d + f) - (e + g)
        /\ RowsApart(L, R) = (d + f) + (e + g)
    BY <2>3, <2>4 DEF DifferBy
  <2> HIDE DEF p, q
  <2>6. q - p \in -y .. x
    BY <1>1, <1>2, <2>3, <2>5
  <2> QED BY <2>3, <2>6 DEF p, q
<1> QED BY <1>1, <1>3

(* Noise is shifted by no more, for any bucket, than 4 for each row that   *)
(* is added or removed.                                                    *)
LEMMA AlignmentWithin ==
  ASSUME NEW L, IsTable(L), NEW R, IsTable(R), NEW c,
         NEW ranks \in SUBSET Int,
         NEW fraction \in Nat \X (Nat \ {0}), fraction[1] <= fraction[2],
         NEW i \in ranks
  PROVE  /\ Alignment(L, R, c, fraction, ranks, i) \in Nat
         /\ Alignment(L, R, c, fraction, ranks, i) <= 4 * RowsApart(L, R)
<1> DEFINE change(j) == PrefixSum(R, c, j) - PrefixSum(L, c, j)
           threshold(T) == (PrefixSum(T, c, Max(ranks)) * fraction[1]) \div fraction[2]
           moved == threshold(L) - threshold(R)
           before == {j \in ranks : j < i}
           shift == IF before = {} THEN 0 ELSE moved + Max({change(j) : j \in before})
           bucket == IF i = Max(ranks) THEN 0 ELSE shift - moved - change(i)
<1>1. Alignment(L, R, c, fraction, ranks, i) = 2 * Abs(shift) + Abs(bucket)
  BY DEF Alignment
<1>2. PICK x, y \in Nat :
        /\ RowsApart(L, R) = x + y
        /\ \A j : /\ PrefixSum(L, c, j) \in Nat /\ PrefixSum(R, c, j) \in Nat
                  /\ PrefixSum(R, c, j) - PrefixSum(L, c, j) \in -y .. x
  BY PrefixChanges
<1>3. \A j : change(j) \in -y .. x
  BY <1>2
<1>4. moved \in -x .. y
  <2>1. PICK a \in Nat, b \in Nat, p \in Nat, q \in Nat \ {0} :
          /\ a = PrefixSum(L, c, Max(ranks)) /\ b = PrefixSum(R, c, Max(ranks))
          /\ p = fraction[1] /\ q = fraction[2] /\ p <= q
    BY <1>2
  <2>2. a <= b + y /\ b <= a + x
    <3>1. b - a \in -y .. x
      BY <1>2, <2>1
    <3> QED BY <3>1
  <2>3. (a * p) \div q <= (b * p) \div q + y /\ (b * p) \div q <= (a * p) \div q + x
    BY <2>1, <2>2, FractionMoves
  <2>4. (a * p) \div q \in Nat /\ (b * p) \div q \in Nat
    <3>1. a * p \in Nat /\ b * p \in Nat
      OBVIOUS
    <3> QED BY <3>1, DivisionSteps
  <2>5. moved = (a * p) \div q - (b * p) \div q
    BY <2>1
  <2> HIDE DEF moved
  <2> QED BY <2>3, <2>4, <2>5
<1> HIDE DEF moved
<1>5. shift \in -(x + y) .. x + y /\ shift - moved \in -y .. x
  <2>1. CASE before = {}
    BY <1>4, <2>1
  <2>2. CASE before # {}
    <3> DEFINE C == {change(j) : j \in before}
    <3>1. C \in SUBSET Int /\ C # {} /\ \A t \in C : t <= x /\ -y <= t
      <4>1. \A t \in C : t \in -y .. x
        BY <1>3
      <4>2. C # {}
        BY <2>2
      <4> HIDE DEF C
      <4> QED BY <4>1, <4>2
    <3> HIDE DEF C
    <3>2. \E m \in C : \A t \in C : t <= m
      <4>1. x \in Int /\ \A t \in C : t <= x
        BY <3>1
      <4> QED BY <3>1, <4>1, LargestExists
    <3>3. Max(C) \in C
      <4>1. \E m \in C : \A t \in C : m >= t
        BY <3>1, <3>2
      <4> QED BY <4>1 DEF Max
    <3>4. shift = moved + Max(C)
      BY <2>2 DEF C
    <3> HIDE DEF shift, before
    <3>5. Max(C) \in Int /\ Max(C) <= x /\ -y <= Max(C)
      BY <3>1, <3>3
    <3> QED BY <1>4, <2>2, <3>4, <3>5
  <2> QED BY <2>1, <2>2
<1>6. bucket \in -(x + y) .. x + y
  <2>1. change(i) \in -y .. x
    BY <1>3
  <2>2. bucket = 0 \/ bucket = shift - moved - change(i)
    OBVIOUS
  <2> HIDE DEF bucket, shift, before, change
  <2>3. CASE bucket = 0
    BY <2>3
  <2>4. CASE bucket = shift - moved - change(i)
    BY <1>5, <2>1, <2>4
  <2> QED BY <2>2, <2>3, <2>4
<1> HIDE DEF shift, bucket
<1>7. Abs(shift) \in 0 .. x + y /\ Abs(bucket) \in 0 .. x + y
  BY <1>5, <1>6 DEF Abs
<1> QED BY <1>1, <1>2, <1>7

(* How far apart the rows of each group are, and a measurement that is     *)
(* accounted for at another distance.                                      *)
EachApart(A, B) == [k \in DOMAIN A |-> RowsApart(A[k], B[k])]
AccountedAt(m, apart) == [m EXCEPT !.apart = apart]

(* The rows of groups, of which some are left out, are no further apart    *)
(* together than the tables.                                               *)
LEMMA GroupsTogether ==
  ASSUME NEW L, IsTable(L), NEW R, IsTable(R), NEW K, NEW values, IsFiniteSet(values),
         NEW A, DOMAIN A = values, NEW B, DOMAIN B = values,
         NEW S, \A k \in values : \A r \in S[k] : Restrict(r, K) = k,
         \A k \in values : /\ IsTable(A[k]) /\ Copies(A[k]) = PartCopies(L, S[k])
                           /\ IsTable(B[k]) /\ Copies(B[k]) = PartCopies(R, S[k])
  PROVE  /\ \A k \in values : RowsApart(A[k], B[k]) \in Nat
         /\ SumFunction(EachApart(A, B)) \in Nat
         /\ SumFunction(EachApart(A, B)) <= RowsApart(L, R)
<1> DEFINE apart == [k \in values |-> RowsApart(A[k], B[k])]
           X(k) == ExceptAll(A[k], B[k])
           Y(k) == ExceptAll(B[k], A[k])
           D == [k \in values |-> Sides(X(k), Y(k))]
           T == Sides(ExceptAll(L, R), ExceptAll(R, L))
           h == [e \in InParts(D) |-> e[2]]
<1>1. \A k \in values : /\ IsFiniteSet(X(k)) /\ IsFiniteSet(Y(k))
                        /\ Cardinality(X(k)) \in Nat /\ Cardinality(Y(k)) \in Nat
                        /\ RowsApart(A[k], B[k]) = Cardinality(X(k)) + Cardinality(Y(k))
  BY RowsApartCount DEF RowsApart
<1>2. \A k \in values : /\ IsFiniteSet(D[k]) /\ Cardinality(D[k]) = RowsApart(A[k], B[k])
                        /\ RowsApart(A[k], B[k]) \in Nat
  BY <1>1, SidesCount
<1>3. IsFiniteSet(T) /\ Cardinality(T) = RowsApart(L, R)
  <2>1. IsFiniteSet(ExceptAll(L, R)) /\ IsFiniteSet(ExceptAll(R, L))
    BY RowsApartCount
  <2> QED BY <2>1, SidesCount DEF RowsApart
<1>4. \A k \in values : \A d \in D[k] : d \in T /\ d[2][1] \in S[k]
  <2> SUFFICES ASSUME NEW k \in values, NEW d \in Sides(X(k), Y(k))
               PROVE  d \in T /\ d[2][1] \in S[k]
    OBVIOUS
  <2>1. Copies(A[k]) = PartCopies(L, S[k]) /\ Copies(B[k]) = PartCopies(R, S[k])
    OBVIOUS
  <2>2. \/ d[2] \in X(k) /\ d = <<1, d[2]>>
        \/ d[2] \in Y(k) /\ d = <<2, d[2]>>
    BY DEF Sides
  <2>3. /\ \A z \in X(k) : z \in ExceptAll(L, R) /\ z[1] \in S[k]
        /\ \A z \in Y(k) : z \in ExceptAll(R, L) /\ z[1] \in S[k]
    BY <2>1 DEF ExceptAll, PartCopies
  <2> QED BY <2>2, <2>3 DEF Sides
<1>5. DOMAIN D = values
  OBVIOUS
<1> HIDE DEF D, T, apart
<1>6. \A e : e \in InParts(D) <=> \E k \in values : \E d \in D[k] : e = <<k, d>>
  BY <1>5 DEF InParts
<1>7. h \in [InParts(D) -> T]
  BY <1>4, <1>6
<1>8. \A d, e \in InParts(D) : h[d] = h[e] => d = e
  <2> SUFFICES ASSUME NEW d \in InParts(D), NEW e \in InParts(D), d[2] = e[2]
               PROVE  d = e
    OBVIOUS
  <2>1. PICK j \in values : \E x \in D[j] : d = <<j, x>>
    BY <1>6
  <2>2. PICK k \in values : \E x \in D[k] : e = <<k, x>>
    BY <1>6
  <2>3. PICK x \in D[j] : d = <<j, x>>
    BY <2>1
  <2>4. e = <<k, x>> /\ x \in D[k]
    BY <2>2, <2>3
  <2>5. x[2][1] \in S[j] /\ x[2][1] \in S[k]
    BY <1>4, <2>4
  <2>6. j = k
    BY <2>5
  <2> QED BY <2>3, <2>4, <2>6
<1>9. apart = [k \in DOMAIN D |-> Cardinality(D[k])]
  BY <1>2, <1>5 DEF apart
<1> HIDE DEF h
<1>10. SumFunction(apart) \in Nat /\ SumFunction(apart) <= Cardinality(T)
  <2>1. IsFiniteSet(DOMAIN D) /\ \A k \in DOMAIN D : IsFiniteSet(D[k])
    BY <1>2, <1>5
  <2> QED BY <1>3, <1>7, <1>8, <1>9, <2>1, SumOverParts
<1>11. EachApart(A, B) = apart
  BY DEF EachApart, apart
<1> QED BY <1>2, <1>3, <1>10, <1>11

(* Noise that is accounted for at another distance.                        *)
LEMMA NoisyIsCoveredAt ==
  ASSUME bound \in Nat \ {0}, NEW mech \in Mechanisms,
         NEW measure \in SupportedMeasures(mech), NEW apart \in Nat \ {0},
         NEW scale \in Exact, measure # "rho" => \E e \in Exact : scale = Squared(e),
         NEW s \in Nat, NEW l1 \in Nat, NEW l2 \in Nat, NEW asked,
         mech \in PureMechanisms => l1 * l1 <= (s * s) * apart,
         mech \notin PureMechanisms => l2 <= (s * s) * apart
  PROVE  Covered(AccountedAt(Noisy(measure, mech, scale, s, asked, l1, l2), apart))
<1> DEFINE claim == Lost(measure, mech, s, s * s, scale)
           loss == Lost(measure, mech, l1, l2, scale)
           m == AccountedAt(Noisy(measure, mech, scale, s, asked, l1, l2), apart)
<1>1. Noisy(measure, mech, scale, s, asked, l1, l2) = Measurement(measure, bound, asked, claim, loss)
  BY DEF Noisy, Lost
<1>2. /\ WithinClaim(measure, loss, claim, apart)
      /\ loss \in Exact /\ claim \in Exact
  BY NoiseCovers
<1> HIDE DEF claim, loss
<1>3. m = Measurement(measure, apart, asked, claim, loss)
  BY <1>1 DEF Measurement, AccountedAt
<1>4. measure \in Measures
  BY SupportedIsMeasure
<1> HIDE DEF m
<1>5. IsMade(m)
  BY <1>3, <1>4, MeasurementIsMade
<1>6. m.measure = measure /\ m.apart = apart /\ m.claim = claim /\ m.loss = loss
      /\ m.delta = Zero /\ m.leak = Zero
  BY <1>3 DEF Measurement
<1>7. Covered(m)
  BY <1>2, <1>5, <1>6, NothingWithinNothing DEF Covered
<1> QED BY <1>7 DEF m

(* The numbers that are bucketed in a group, and what noise has to make up *)
(* for there.                                                              *)
InBuckets(T, K, k, c) ==
  Where(Group(T, K, k), LAMBDA r : Bucket(c, Num[r[c]]) \in Ranks[schema[c].kind])
WorstOf(K, k, c, fraction) ==
  Max({Alignment(InBuckets(left[<<>>], K, k, c), InBuckets(right[<<>>], K, k, c), c, fraction,
                 Ranks[schema[c].kind], i) : i \in Ranks[schema[c].kind]})

(* The rows of a group that are bucketed, as copies of rows of the table.  *)
LEMMA BucketedRows ==
  ASSUME NEW T, IsTable(T), NEW K, NEW k, NEW c,
         NEW S, \A r \in DOMAIN T : r \in S <=> /\ Restrict(r, K) = k
                                                /\ Bucket(c, Num[r[c]]) \in Ranks[schema[c].kind]
  PROVE  /\ IsTable(InBuckets(T, K, k, c))
         /\ Copies(InBuckets(T, K, k, c)) = PartCopies(T, S)
<1> DEFINE G == Group(T, K, k)
           in(r) == Bucket(c, Num[r[c]]) \in Ranks[schema[c].kind]
           Q == {r \in DOMAIN G : in(r)}
           P == {r \in DOMAIN T : Restrict(r, K) = k /\ in(r)}
<1>1. InBuckets(T, K, k, c) = Restrict(G, Q)
  BY DEF InBuckets, Where, RestrictDomain
<1>2. /\ IsTable(G) /\ \A x : x \in DOMAIN G <=> x \in DOMAIN T /\ Restrict(x, K) = k
      /\ \A x \in DOMAIN G : G[x] = T[x]
  BY GroupIsTable
<1> HIDE DEF G
<1>3. Q = P /\ P \in SUBSET DOMAIN T
  BY <1>2
<1>4. P = DOMAIN T \cap S
  OBVIOUS
<1>5. Restrict(G, Q) = Restrict(T, P)
  <2>1. \A r \in P : G[r] = T[r]
    BY <1>2, <1>3
  <2> HIDE DEF P, Q
  <2> QED BY <1>3, <2>1 DEF Restrict
<1> HIDE DEF P, Q
<1> QED BY <1>1, <1>3, <1>4, <1>5, CopiesOfPart

(* In the worst bucket, as in any, noise is shifted by no more than 4 for  *)
(* each row that differs.                                                  *)
LEMMA WorstWithin ==
  ASSUME NEW K, NEW k, NEW c, schema[c].kind \in {"int", "float"}, NEW fraction \in Fractions,
         IsTable(InBuckets(left[<<>>], K, k, c)), IsTable(InBuckets(right[<<>>], K, k, c))
  PROVE  LET a == RowsApart(InBuckets(left[<<>>], K, k, c), InBuckets(right[<<>>], K, k, c))
         IN WorstOf(K, k, c, fraction) \in Nat /\ WorstOf(K, k, c, fraction) <= 4 * a
<1> DEFINE L == InBuckets(left[<<>>], K, k, c)
           R == InBuckets(right[<<>>], K, k, c)
           ranks == Ranks[schema[c].kind]
           C == {Alignment(L, R, c, fraction, ranks, i) : i \in ranks}
<1>1. ranks \in SUBSET Int /\ ranks # {}
  BY NumbersAssumption
<1>2. fraction \in Nat \X (Nat \ {0}) /\ fraction[1] <= fraction[2]
  BY NumbersAssumption
<1>3. WorstOf(K, k, c, fraction) = Max(C)
  BY DEF WorstOf
<1>a. IsTable(L) /\ IsTable(R)
  OBVIOUS
<1> HIDE DEF L, R, ranks
<1>4. \A t \in C : t \in Nat /\ t <= 4 * RowsApart(L, R)
  <2> SUFFICES ASSUME NEW i \in ranks
               PROVE  /\ Alignment(L, R, c, fraction, ranks, i) \in Nat
                      /\ Alignment(L, R, c, fraction, ranks, i) <= 4 * RowsApart(L, R)
    OBVIOUS
  <2> QED BY <1>a, <1>1, <1>2, AlignmentWithin
<1>5. C # {}
  BY <1>1
<1>6. 4 * RowsApart(L, R) \in Int
  <2>1. RowsApart(L, R) \in Nat
    BY <1>a, RowsApartCount DEF RowsApart
  <2> QED BY <2>1
<1> HIDE DEF C
<1>7. \E m \in C : \A t \in C : t <= m
  <2>1. C \in SUBSET Int /\ \A t \in C : t <= 4 * RowsApart(L, R)
    BY <1>4
  <2> QED BY <1>5, <1>6, <2>1, LargestExists
<1>8. Max(C) \in C
  <2>1. \E m \in C : \A t \in C : m >= t
    BY <1>4, <1>7
  <2> QED BY <2>1 DEF Max
<1> QED BY <1>3, <1>4, <1>8 DEF L, R

(* Bounds of groups: the groups differ in other rows each, so that what    *)
(* noise makes up for adds up to no more than the sparse vector technique  *)
(* is given.                                                               *)
LEMMA BoundsAreCovered ==
  ASSUME MeasureInv, Stable, CreateBoundsMeasurement
  PROVE  Covered(made)'
<1>1. PICK q \in Budgets, K \in SUBSET DOMAIN schema, fraction \in Fractions,
           measure \in {"pure", "approx", "rho"} :
        \E c \in DOMAIN schema \ K :
          /\ metric = SymmetricDifference \/ (metric.by # {} /\ metric.each = {})
          /\ metric.over = "table" /\ metric.base = "rows"
          /\ schema[c].kind \in {"int", "float"}
          /\ \E values \in KeyChoices(K) : Make(NoisyBounds(c, K, values, fraction, measure, q))
  BY DEF CreateBoundsMeasurement
<1>2. PICK c \in DOMAIN schema \ K :
        /\ metric = SymmetricDifference \/ (metric.by # {} /\ metric.each = {})
        /\ metric.over = "table" /\ metric.base = "rows"
        /\ schema[c].kind \in {"int", "float"}
        /\ \E values \in KeyChoices(K) : Make(NoisyBounds(c, K, values, fraction, measure, q))
  BY <1>1
<1>3. PICK values \in KeyChoices(K) : Make(NoisyBounds(c, K, values, fraction, measure, q))
  BY <1>2
<1> DEFINE L == left[<<>>]
           R == right[<<>>]
           change == [k \in values |-> WorstOf(K, k, c, fraction)]
           A == [k \in values |-> InBuckets(L, K, k, c)]
           B == [k \in values |-> InBuckets(R, K, k, c)]
           S == [k \in values |-> {r \in DOMAIN L \cup DOMAIN R :
                                     /\ Restrict(r, K) = k
                                     /\ Bucket(c, Num[r[c]]) \in Ranks[schema[c].kind]}]
           apart == IF metric.agg = "l2" THEN Square(bound) ELSE bound
           together == EachApart(A, B)
           sizes == [k \in values |-> Abs(change[k])]
           squares == [k \in values |-> change[k] * change[k]]
           scale == NoiseScale(SparseVectorEpsilon, q, measure)
           l1 == Total(change)
           l2 == TotalOfSquares(change)
           m == NoisyBounds(c, K, values, fraction, measure, q)
           s == SparseVectorEpsilon
<1>4. m = AccountedAt(NoisyChanges(change, s, "geometric", measure, q), apart)
  BY DEF NoisyBounds, AccountedAt, PostProcess, WorstOf, InBuckets
<1>5. NoisyChanges(change, s, "geometric", measure, q)
        = Noisy(measure, "geometric", scale, s, q, l1, l2)
  BY DEF NoisyChanges
<1>6. made' = m /\ bound \in Nat \ {0}
  BY <1>3 DEF Make, MeasureInv, TableInv, TypeOK, Infinite
<1>7. IsFiniteSet(values)
  BY DEF KeyChoices
<1>8. IsTable(L) /\ IsTable(R) /\ Apart(metric, L, R) <= bound /\ IsMetric(metric)
  <2>1. IsMetric(metric)
    BY DEF MeasureInv, TableInv
  <2> QED BY <1>2, <1>6, <2>1, TablesInHand DEF MeasureInv, Infinite
<1>9. /\ apart \in Nat \ {0} /\ RowsApart(L, R) \in Nat
      /\ RowsApart(L, R) * RowsApart(L, R) <= apart
  <2>1. metric.each = {}
    BY <1>2 DEF SymmetricDifference, Metric
  <2>2. Apart(SymmetricDifference, L, R) <= IF metric.agg = "l2" THEN bound * bound ELSE bound
    <3> HIDE DEF L, R
    <3> QED BY <1>2, <1>6, <1>8, <2>1, UnwrappedApart
  <2>3. apart = IF metric.agg = "l2" THEN bound * bound ELSE bound
    BY <1>6 DEF Square, Infinite
  <2>4. bound * bound \in Nat \ {0}
    BY <1>6
  <2> HIDE DEF apart, L, R
  <2> QED BY <1>6, <1>8, <2>2, <2>3, <2>4, RowsDistance
<1>10. \A k \in values : /\ IsTable(A[k]) /\ Copies(A[k]) = PartCopies(L, S[k])
                         /\ IsTable(B[k]) /\ Copies(B[k]) = PartCopies(R, S[k])
  <2> SUFFICES ASSUME NEW k \in values
               PROVE  /\ IsTable(InBuckets(L, K, k, c)) /\ Copies(InBuckets(L, K, k, c)) = PartCopies(L, S[k])
                      /\ IsTable(InBuckets(R, K, k, c)) /\ Copies(InBuckets(R, K, k, c)) = PartCopies(R, S[k])
    OBVIOUS
  <2>1. \A r \in DOMAIN L \cup DOMAIN R :
          r \in S[k] <=> Restrict(r, K) = k /\ Bucket(c, Num[r[c]]) \in Ranks[schema[c].kind]
    OBVIOUS
  <2> HIDE DEF S, L, R
  <2> QED BY <1>8, <2>1, BucketedRows
<1>11. \A k \in values : \A r \in S[k] : Restrict(r, K) = k
  OBVIOUS
<1>12. DOMAIN A = values /\ DOMAIN B = values
  OBVIOUS
<1>13. \A k \in values : change[k] \in Nat /\ change[k] <= 4 * RowsApart(A[k], B[k])
  <2> SUFFICES ASSUME NEW k \in values
               PROVE  /\ WorstOf(K, k, c, fraction) \in Nat
                      /\ WorstOf(K, k, c, fraction) <= 4 * RowsApart(A[k], B[k])
    OBVIOUS
  <2>1. A[k] = InBuckets(left[<<>>], K, k, c) /\ B[k] = InBuckets(right[<<>>], K, k, c)
    OBVIOUS
  <2>2. IsTable(A[k]) /\ IsTable(B[k])
    BY <1>10
  <2> HIDE DEF A, B, S, L, R
  <2> QED BY <1>2, <2>1, <2>2, WorstWithin
<1>14. DOMAIN change = values
  OBVIOUS
<1> HIDE DEF A, B, S, L, R, change, apart
<1>15. /\ \A k \in values : RowsApart(A[k], B[k]) \in Nat
       /\ SumFunction(together) \in Nat /\ SumFunction(together) <= RowsApart(L, R)
  <2>1. /\ IsTable(L) /\ IsTable(R) /\ IsFiniteSet(values)
        /\ DOMAIN A = values /\ DOMAIN B = values
        /\ \A k \in values : \A r \in S[k] : Restrict(r, K) = k
    BY <1>7, <1>8, <1>11, <1>12
  <2> QED BY <1>10, <2>1, GroupsTogether
<1>16. l1 = SumFunction(sizes) /\ l2 = SumFunction(squares)
  BY <1>14 DEF Total, TotalOfSquares
<1>17. \A k \in values : /\ sizes[k] \in Nat /\ sizes[k] <= 4 * together[k] /\ together[k] \in Nat
                         /\ squares[k] \in Nat
  BY <1>12, <1>13, <1>15 DEF Abs, EachApart
<1>18. DOMAIN sizes = values /\ DOMAIN squares = values /\ DOMAIN together = values
  BY <1>12 DEF EachApart
<1> HIDE DEF sizes, squares, together, l1, l2
<1>19. l1 \in Nat /\ l2 \in Nat /\ l1 <= 4 * SumFunction(together)
  <2>1. SumFunction(sizes) \in Nat /\ SumFunction(squares) \in Nat
    BY <1>7, <1>17, <1>18, SumIsNat
  <2>2. PICK n \in Nat : n = 4
    OBVIOUS
  <2>3. \A k \in values : sizes[k] \in Int /\ together[k] \in Int /\ sizes[k] <= n * together[k]
    BY <1>17, <2>2
  <2>4. SumFunction(sizes) <= n * SumFunction(together)
    BY <1>7, <1>18, <2>3, SumsCompare
  <2> QED BY <1>16, <2>1, <2>2, <2>4
<1>20. s \in Nat /\ s = 4
  BY DEF SparseVectorEpsilon
<1> HIDE DEF s
<1>21. l1 * l1 <= (s * s) * apart
  <2>1. PICK a \in Nat, n \in Nat, t \in Nat : a = RowsApart(L, R) /\ n = s * a /\ t = apart
    BY <1>9, <1>20
  <2>2. l1 <= n
    BY <1>15, <1>19, <1>20, <2>1
  <2>3. l1 * l1 <= n * n /\ l1 * l1 \in Nat
    BY <1>19, <2>2, ProductOfBounds
  <2>4. n * n = (s * s) * (a * a) /\ a * a \in Nat /\ s * s \in Nat
    BY <1>20, <2>1
  <2>5. (s * s) * (a * a) <= (s * s) * t /\ (s * s) * t \in Nat /\ (s * s) * (a * a) \in Nat
    BY <1>9, <2>1, <2>4, MultipliesUp
  <2> QED BY <2>1, <2>3, <2>4, <2>5
<1>22. /\ "geometric" \in Mechanisms /\ "geometric" \in PureMechanisms
       /\ measure \in SupportedMeasures("geometric")
  BY DEF Mechanisms, PureMechanisms, SupportedMeasures
<1>23. scale \in Exact /\ (measure # "rho" => \E e \in Exact : scale = Squared(e))
  <2>1. q \in Exact
    BY NumbersAssumption, NumbersAreExact
  <2> QED BY <1>20, <1>22, <2>1, ScaleSpends DEF s
<1>24. m = AccountedAt(Noisy(measure, "geometric", scale, s, q, l1, l2), apart)
  BY <1>4, <1>5
<1> HIDE DEF scale, m
<1>25. Covered(m)
  <2>1. Covered(AccountedAt(Noisy(measure, "geometric", scale, s, q, l1, l2), apart))
    <3>1. bound \in Nat \ {0} /\ apart \in Nat \ {0} /\ s \in Nat /\ l1 \in Nat /\ l2 \in Nat
      BY <1>6, <1>9, <1>19, <1>20
    <3> QED BY <1>21, <1>22, <1>23, <3>1, NoisyIsCoveredAt
  <2> QED BY <1>24, <2>1
<1> QED BY <1>6, <1>25 DEF Covered, IsMade

-----------------------------------------------------------------------------
(* Distances that are whole numbers *)

IsSquare(b) == b = Infinite \/ \E d \in Nat : b = d * d

(* A bound is kept squared, and is a square unless squares were added up.  *)
WholeDistances == metric.over = "table" /\ metric.agg # "l2" => IsSquare(bound)

(* Squares of distances that are whole numbers stay such.                  *)
LEMMA SquaresStay ==
  /\ \A x \in Int : IsSquare(Square(x))
  /\ \A b, n \in Int : IsSquare(b) => IsSquare(Scaled(b, n * n))
<1>1. ASSUME NEW x \in Int PROVE IsSquare(Square(x))
  <2>1. CASE x = Infinite
    BY <2>1 DEF IsSquare, Square
  <2>2. CASE x # Infinite
    <3>1. Square(x) = x * x /\ x * x = (-x) * (-x) /\ (x \in Nat \/ -x \in Nat)
      BY <2>2 DEF Square
    <3> QED BY <3>1 DEF IsSquare
  <2> QED BY <2>1, <2>2
<1>2. ASSUME NEW b \in Int, NEW n \in Int, IsSquare(b) PROVE IsSquare(Scaled(b, n * n))
  <2>1. CASE b = Infinite
    BY <2>1 DEF IsSquare, Scaled
  <2>2. CASE b # Infinite
    <3>1. PICK d \in Nat : b = d * d
      BY <1>2, <2>2 DEF IsSquare
    <3>2. Scaled(b, n * n) = (d * n) * (d * n) /\ (d * n) * (d * n) = (-(d * n)) * (-(d * n))
      BY <2>2, <3>1 DEF Scaled
    <3>3. d * n \in Nat \/ -(d * n) \in Nat
      OBVIOUS
    <3> QED BY <3>2, <3>3 DEF IsSquare
  <2> QED BY <2>1, <2>2
<1> QED BY <1>1, <1>2

(* What a transformation announces.                                        *)
Announced ==
  \/ metric'.agg = "l2"
  \/ metric.agg # "l2" /\ \E n \in Int : bound' \in {bound, Infinite, Scaled(bound, n * n)}
  \/ bound' = Square(bound)

(* Every transformation of a table announces one of these.                 *)
LEMMA StepAnnounces ==
  ASSUME Next, ~ GroupBy, ~ PartitionByKeys
  PROVE  Announced
<1>1. /\ SymmetricDifference.agg = "none" /\ HammingDistance.agg = "none"
      /\ \A C : IfGroupedBy(C).agg = "none"
      /\ \A C, agg, each : IfGroupedByAgg(C, agg, each).agg = agg
  BY DEF SymmetricDifference, HammingDistance, IfGroupedBy, IfGroupedByAgg, Metric
<1>2. \A n \in Thresholds : n \in Int
  BY BoundsAssumption
<1>3. metric' = metric /\ bound' = bound => Announced
  BY DEF Announced
<1>4. CASE Filter
  <2>1. metric' = metric /\ bound' = bound
    BY <1>4 DEF Filter, Chain, ChainParts, Announce
  <2> QED BY <1>3, <2>1
<1>5. CASE Select
  <2>1. metric' = metric /\ bound' = bound
    BY <1>5 DEF Select, Chain, ChainParts, Announce
  <2> QED BY <1>3, <2>1
<1>6. CASE Rename
  BY <1>6 DEF Announced, Rename, Chain, ChainParts, Announce, RenamedMetric
<1>7. CASE Map
  <2>1. metric' = metric /\ bound' = bound
    BY <1>7 DEF Map, Chain, ChainParts, Announce
  <2> QED BY <1>3, <2>1
<1>8. CASE FlatMap
  <2>1. PICK max \in Thresholds \cup {Infinite} : metric' = metric /\ bound' = FlatMapBound(max)
    BY <1>8 DEF FlatMap, Chain, ChainParts, Announce
  <2> QED BY <1>2, <2>1 DEF Announced, FlatMapBound
<1>9. CASE GroupingFlatMap
  <2>1. PICK max \in Thresholds, agg \in {"sum", "l2"} :
          /\ metric = SymmetricDifference /\ \E C : metric' = IfGroupedByAgg(C, agg, {})
          /\ bound' = Scaled(bound, IF agg = "sum" THEN max * max ELSE max)
    BY <1>9 DEF GroupingFlatMap, Chain, ChainParts, Announce
  <2> QED BY <1>1, <1>2, <2>1 DEF Announced
<1>10. CASE FlatMapByKey
  <2>1. PICK key : metric = IfGroupedBy({key}) /\ bound' = bound
    BY <1>10 DEF FlatMapByKey, Chain, ChainParts, Announce
  <2> QED BY <1>1, <2>1 DEF Announced
<1>11. CASE DropInfs \/ DropNaNs \/ DropNulls
  <2>1. ASSUME NEW what, DropRows(what) PROVE metric' = metric /\ bound' = bound
    BY <2>1 DEF DropRows, Chain, ChainParts, Announce
  <2> QED BY <1>3, <1>11, <2>1 DEF DropInfs, DropNaNs, DropNulls
<1>12. CASE ReplaceInfs \/ ReplaceNaNs \/ ReplaceNulls
  <2>1. ASSUME NEW what, NEW c, NEW with, ReplaceCells(what, c, with)
        PROVE  metric' = metric /\ bound' = bound
    BY <2>1 DEF ReplaceCells, Chain, ChainParts, Announce
  <2> QED BY <1>3, <1>12, <2>1 DEF ReplaceInfs, ReplaceNaNs, ReplaceNulls
<1>13. CASE LimitRowsPerGroup
  <2>1. PICK n \in Thresholds :
          (\E C : metric = IfGroupedBy(C)) /\ bound' \in {bound, Scaled(bound, n * n)}
    BY <1>13 DEF LimitRowsPerGroup, Chain, ChainParts, Announce
  <2> QED BY <1>1, <1>2, <2>1 DEF Announced
<1>14. CASE LimitKeys
  <2>1. PICK n \in Thresholds : /\ \E C : metric = IfGroupedBy(C)
                               /\ bound' = LimitKeysPerGroupBound(metric', n)
    BY <1>14 DEF LimitKeys, Chain, ChainParts, Announce
  <2>2. bound' \in {bound, Scaled(bound, n * n)} \/ metric'.agg = "l2"
    BY <2>1 DEF LimitKeysPerGroupBound
  <2> QED BY <1>1, <1>2, <2>1, <2>2 DEF Announced
<1>15. CASE LimitRowsPerKeyPerGroup
  <2>1. PICK n \in Thresholds, C \in SUBSET DOMAIN schema, key \in DOMAIN schema :
          /\ metric \in {IfGroupedBy(C), IfGroupedByAgg({key}, "sum", C), IfGroupedByAgg({key}, "l2", C)}
          /\ metric' = RowsPerKeyMetric(C, key)
          /\ bound' = IF metric = IfGroupedBy(C) THEN bound ELSE Scaled(bound, n * n)
    <3>1. PICK n \in Thresholds, C \in SUBSET DOMAIN schema, key \in DOMAIN schema :
            /\ metric \in {IfGroupedBy(C), IfGroupedByAgg({key}, "sum", C), IfGroupedByAgg({key}, "l2", C)}
            /\ \E rank : Announce(schema, RowsPerKeyMetric(C, key),
                                 IF metric = IfGroupedBy(C) THEN bound ELSE Scaled(bound, n * n))
      BY <1>15 DEF LimitRowsPerKeyPerGroup, Chain, ChainParts
    <3> QED BY <3>1 DEF Announce
  <2> QED BY <1>1, <1>2, <2>1 DEF Announced, RowsPerKeyMetric
<1>16. CASE AddUniqueColumn
  BY <1>1, <1>16 DEF Announced, AddUniqueColumn, Chain, ChainParts, Announce
<1>17. CASE PublicJoin
  <2>0. PICK p \in PublicTables : \E nulls \in BOOLEAN, on \in SUBSET (DOMAIN schema \cap DOMAIN p.schema) :
          /\ ValidateJoin(schema, p.schema, on)
          /\ bound' = Scaled(bound, JoinStability(p, on, nulls) * JoinStability(p, on, nulls))
          /\ metric' = metric
    BY <1>17 DEF PublicJoin, PublicJoinAs, Chain, ChainParts, Announce
  <2>1. PICK nulls \in BOOLEAN, on \in SUBSET (DOMAIN schema \cap DOMAIN p.schema) :
          /\ ValidateJoin(schema, p.schema, on)
          /\ bound' = Scaled(bound, JoinStability(p, on, nulls) * JoinStability(p, on, nulls))
          /\ metric' = metric
    BY <2>0
  <2>2. JoinStability(p, on, nulls) \in Int
    BY <2>1, JoinStabilityType
  <2>3. metric.agg = "l2" \/ \E n \in Int : bound' = Scaled(bound, n * n)
    BY <2>1, <2>2
  <2> QED BY <2>1, <2>3 DEF Announced
<1>18. CASE Identity
  BY <1>18 DEF Announced, Identity, Chain, ChainParts, Announce
<1>19. CASE UnwrapIfGroupedBy
  BY <1>19 DEF Announced, UnwrapIfGroupedBy, Chain, ChainParts, Announce
<1>20. CASE HammingDistanceToSymmetricDifference
  <2>1. metric = HammingDistance /\ bound' = Scaled(bound, 2 * 2)
    BY <1>20 DEF HammingDistanceToSymmetricDifference, Chain, ChainParts, Announce
  <2> QED BY <1>1, <2>1 DEF Announced
<1> QED
  BY <1>4, <1>5, <1>6, <1>7, <1>8, <1>9, <1>10, <1>11, <1>12, <1>13, <1>14, <1>15, <1>16,
     <1>17, <1>18, <1>19, <1>20 DEF Next

(* So distances stay whole numbers along a chain.                          *)
LEMMA WholeStep ==
  ASSUME TableInv, WholeDistances, Next
  PROVE  WholeDistances'
<1>1. bound \in Int
  BY DEF TableInv, TypeOK, Infinite
<1>2. metric.over = "table"
  <2>1. \E s, m, d : Announce(s, m, d)
    BY DEF Next, Filter, Select, Rename, Map, FlatMap, GroupingFlatMap, FlatMapByKey, DropInfs,
       DropNaNs, DropNulls, DropRows, ReplaceInfs, ReplaceNaNs, ReplaceNulls, ReplaceCells,
       LimitRowsPerGroup, LimitKeys, LimitRowsPerKeyPerGroup, AddUniqueColumn, PublicJoin,
       PublicJoinAs, Identity, UnwrapIfGroupedBy, HammingDistanceToSymmetricDifference,
       PartitionByKeys, GroupBy, Chain, ChainParts
  <2> QED BY <2>1 DEF Announce
<1>3. CASE GroupBy \/ PartitionByKeys
  <2>1. CASE GroupBy
    <3>1. PICK agg \in {"sum", "l2"} : metric' = Over(agg, SymmetricDifference)
      BY <2>1 DEF GroupBy, ChainParts, Announce
    <3> QED BY <3>1 DEF Over, SymmetricDifference, Metric, WholeDistances
  <2>2. CASE PartitionByKeys
    BY <2>2, NoListsAssumption DEF PartitionByKeys
  <2> QED BY <1>3, <2>1, <2>2
<1>4. CASE ~ GroupBy /\ ~ PartitionByKeys
  <2>1. Announced
    BY <1>4, StepAnnounces
  <2>2. metric.agg # "l2" => IsSquare(bound)
    BY <1>2 DEF WholeDistances
  <2>3. CASE metric'.agg = "l2"
    BY <2>3 DEF WholeDistances
  <2>4. CASE metric.agg # "l2" /\ \E n \in Int : bound' \in {bound, Infinite, Scaled(bound, n * n)}
    <3>1. IsSquare(bound) /\ IsSquare(Infinite)
      BY <2>2, <2>4 DEF IsSquare
    <3>2. IsSquare(bound')
      BY <1>1, <2>4, <3>1, SquaresStay
    <3> QED BY <3>2 DEF WholeDistances, IsSquare
  <2>5. CASE bound' = Square(bound)
    <3>1. IsSquare(bound')
      BY <1>1, <2>5, SquaresStay
    <3> QED BY <3>1 DEF WholeDistances, IsSquare
  <2> QED BY <2>1, <2>3, <2>4, <2>5 DEF Announced
<1> QED BY <1>3, <1>4

LEMMA InitialWhole ==
  ASSUME Init
  PROVE  WholeDistances
<1>1. TableInv
  BY InitialTables
<1>2. PICK in \in Inputs : /\ metric = in.metric
                           /\ bound = Distance(metric, left, right)
                           /\ bound \in 0 .. in.apart
  BY DEF Init
<1>3. bound \in Nat /\ metric.over = "table" /\ IsMetric(metric)
  BY <1>2, InputsAssumption
<1>4. bound # Infinite /\ Stable
  BY <1>2, <1>3, InitialStable DEF Infinite
<1>5. /\ DOMAIN left = {<<>>} /\ IsTable(left[<<>>]) /\ IsTable(right[<<>>])
      /\ Comparable(metric, left[<<>>], right[<<>>])
  BY <1>1, <1>3, <1>4, TablesInHand
<1>6. SUFFICES ASSUME metric.agg # "l2" PROVE IsSquare(bound)
  BY DEF WholeDistances
<1> DEFINE D == Differences(metric, left[<<>>], right[<<>>])
           f == [k \in DOMAIN left |-> TableSquare(metric, left[k], right[k])]
<1>7. TableDistance(metric, left[<<>>], right[<<>>]) = Cardinality(D) /\ Cardinality(D) \in Int
  BY <1>3, <1>5, <1>6, DistanceCounts, DifferencesFinite, FS_CardinalityType DEF Comparable
<1>8. f[<<>>] = Square(Cardinality(D))
  BY <1>5, <1>6, <1>7 DEF TableSquare
<1>9. f[<<>>] \in Int /\ DOMAIN f = {<<>>}
  BY <1>5, <1>7, <1>8 DEF Square, Infinite
<1>10. bound = SumFunction(f)
  BY <1>2, <1>3 DEF Distance
<1> HIDE DEF f
<1>11. bound = Square(Cardinality(D))
  BY <1>8, <1>9, <1>10, SumOfOne
<1> QED BY <1>7, <1>11, SquaresStay

(* The rows of two tables, by how they differ: a row of both by copies of  *)
(* it, a row of one by all of them, and each by no more than the distance. *)
LEMMA RowsThatDiffer ==
  ASSUME NEW L, IsTable(L), NEW R, IsTable(R),
         NEW f, DOMAIN f = DOMAIN L \cap DOMAIN R,
         \A x \in DOMAIN f : f[x] = IF L[x] < R[x] THEN R[x] - L[x] ELSE L[x] - R[x]
  PROVE  LET one == (DOMAIN L \cup DOMAIN R) \ DOMAIN f
         IN /\ RowsApart(L, R) \in Nat
            /\ SumFunction(f) \in Nat /\ SumFunction(f) <= RowsApart(L, R)
            /\ IsFiniteSet(one) /\ Cardinality(one) \in Nat /\ Cardinality(one) <= RowsApart(L, R)
            /\ \A x \in one : (IF x \in DOMAIN L THEN L[x] ELSE R[x]) \in 1 .. RowsApart(L, R)
<1> DEFINE one == (DOMAIN L \cup DOMAIN R) \ DOMAIN f
           E == ExceptAll(L, R) \cup ExceptAll(R, L)
           copies(x) == IF x \in DOMAIN L THEN L[x] ELSE R[x]
           low(x) == IF L[x] < R[x] THEN L[x] ELSE R[x]
           high(x) == IF L[x] < R[x] THEN R[x] ELSE L[x]
           P(x) == ({x} \X (1 .. high(x))) \ ({x} \X (1 .. low(x)))
           first == [x \in one |-> {<<x, 1>>}]
           ones == [x \in one |-> 1]
           parts == [x \in DOMAIN f |-> P(x)]
<1>1. /\ IsFiniteSet(DOMAIN L) /\ \A x \in DOMAIN L : L[x] \in Nat \ {0}
      /\ IsFiniteSet(DOMAIN R) /\ \A x \in DOMAIN R : R[x] \in Nat \ {0}
  BY DEF IsTable, IsABag, BagToSet
<1>2. IsFiniteSet(DOMAIN L \cup DOMAIN R)
  BY <1>1, FS_Union
<1>3. IsFiniteSet(DOMAIN f) /\ IsFiniteSet(one) /\ Cardinality(one) \in Nat
  BY <1>2, FS_Subset, FS_CardinalityType
<1>4. IsFiniteSet(E) /\ Cardinality(E) \in Nat /\ Cardinality(E) <= RowsApart(L, R)
      /\ RowsApart(L, R) \in Nat
  <2>1. /\ IsFiniteSet(ExceptAll(L, R)) /\ IsFiniteSet(ExceptAll(R, L))
        /\ Cardinality(ExceptAll(L, R)) \in Nat /\ Cardinality(ExceptAll(R, L)) \in Nat
    BY RowsApartCount
  <2>2. IsFiniteSet(ExceptAll(L, R) \cap ExceptAll(R, L))
    BY <2>1, FS_Subset
  <2>3. Cardinality(ExceptAll(L, R) \cap ExceptAll(R, L)) \in Nat
    BY <2>2, FS_CardinalityType
  <2>4. IsFiniteSet(E) /\ Cardinality(E) \in Nat
    BY <2>1, FS_Union, FS_CardinalityType
  <2>5. Cardinality(E) = Cardinality(ExceptAll(L, R)) + Cardinality(ExceptAll(R, L))
                           - Cardinality(ExceptAll(L, R) \cap ExceptAll(R, L))
    BY <2>1, FS_Union
  <2> HIDE DEF E
  <2> QED BY <2>1, <2>3, <2>4, <2>5 DEF RowsApart
<1>5. /\ \A x : x \in Copies(L) <=> \E r \in DOMAIN L : \E i \in 1 .. L[r] : x = <<r, i>>
      /\ \A x : x \in Copies(R) <=> \E r \in DOMAIN R : \E i \in 1 .. R[r] : x = <<r, i>>
  BY CopiesOfTable
<1>6. \A x \in one : \A i \in 1 .. copies(x) : <<x, i>> \in E
  BY <1>5 DEF ExceptAll
<1>7. \A x \in DOMAIN f : P(x) \subseteq E
  <2> SUFFICES ASSUME NEW x \in DOMAIN f, NEW y \in P(x) PROVE y \in E
    OBVIOUS
  <2>1. PICK i \in 1 .. high(x) : y = <<x, i>>
    OBVIOUS
  <2>2. i \notin 1 .. low(x)
    BY <2>1
  <2>3. x \in DOMAIN L /\ x \in DOMAIN R
    OBVIOUS
  <2>4. CASE L[x] < R[x]
    <3>1. i \in 1 .. R[x] /\ i \notin 1 .. L[x]
      BY <2>1, <2>2, <2>4
    <3>2. y \in Copies(R) /\ y \notin Copies(L)
      BY <1>5, <2>1, <2>3, <3>1
    <3> QED BY <3>2 DEF ExceptAll
  <2>5. CASE ~ (L[x] < R[x])
    <3>1. i \in 1 .. L[x] /\ i \notin 1 .. R[x]
      BY <2>1, <2>2, <2>5
    <3>2. y \in Copies(L) /\ y \notin Copies(R)
      BY <1>5, <2>1, <2>3, <3>1
    <3> QED BY <3>2 DEF ExceptAll
  <2> QED BY <2>4, <2>5
<1> HIDE DEF E
<1>8. ASSUME NEW x \in one PROVE copies(x) \in 1 .. RowsApart(L, R)
  <2>1. copies(x) \in Nat \ {0}
    BY <1>1
  <2>2. {x} \X (1 .. copies(x)) \subseteq E
    BY <1>6
  <2> HIDE DEF copies
  <2>3. IsFiniteSet({x} \X (1 .. copies(x))) /\ Cardinality({x} \X (1 .. copies(x))) = copies(x)
    BY <2>1, CopiesOfRow
  <2>4. copies(x) <= Cardinality(E)
    BY <1>4, <2>2, <2>3, FS_Subset
  <2> QED BY <1>4, <2>1, <2>4
<1>9. Cardinality(one) <= RowsApart(L, R)
  <2>1. \A x \in one : <<x, 1>> \in E
    <3>1. \A x \in one : 1 \in 1 .. copies(x)
      BY <1>8
    <3> HIDE DEF copies
    <3> QED BY <1>6, <3>1
  <2> DEFINE g == [x \in one |-> <<x, 1>>]
  <2>2. g \in Injection(one, E)
    BY <2>1 DEF Injection, IsInjective
  <2> HIDE DEF g, one
  <2>3. Cardinality(one) <= Cardinality(E)
    BY <1>4, <2>2, FS_Injection
  <2> QED BY <1>3, <1>4, <2>3
<1>10. ASSUME NEW x \in DOMAIN f
       PROVE  IsFiniteSet(P(x)) /\ f[x] = Cardinality(P(x)) /\ f[x] \in Nat
  <2>1. low(x) \in Nat /\ high(x) \in Nat /\ low(x) <= high(x) /\ f[x] = high(x) - low(x)
    BY <1>1
  <2> HIDE DEF low, high
  <2>2. /\ IsFiniteSet({x} \X (1 .. high(x))) /\ Cardinality({x} \X (1 .. high(x))) = high(x)
        /\ Cardinality({x} \X (1 .. low(x))) = low(x)
    BY <2>1, CopiesOfRow
  <2>3. ({x} \X (1 .. high(x))) \cap ({x} \X (1 .. low(x))) = {x} \X (1 .. low(x))
    <3>1. 1 .. low(x) \subseteq 1 .. high(x)
      BY <2>1
    <3> QED BY <3>1
  <2>4. IsFiniteSet(P(x)) /\ Cardinality(P(x)) = high(x) - low(x)
    <3> DEFINE A == {x} \X (1 .. high(x))
               B == {x} \X (1 .. low(x))
    <3>1. IsFiniteSet(A) /\ Cardinality(A) = high(x) /\ A \cap B = B /\ Cardinality(B) = low(x)
      BY <2>2, <2>3
    <3> HIDE DEF A, B
    <3>2. IsFiniteSet(A \ B) /\ Cardinality(A \ B) = high(x) - low(x)
      BY <3>1, FS_Difference
    <3> QED BY <3>2 DEF A, B
  <2> QED BY <2>1, <2>4
<1>11. SumFunction(f) \in Nat /\ SumFunction(f) <= RowsApart(L, R)
  <2>1. \A x \in DOMAIN f : IsFiniteSet(parts[x]) /\ f[x] = Cardinality(parts[x])
    BY <1>10
  <2>2. \A x, y \in DOMAIN f : x # y => parts[x] \cap parts[y] = {}
    <3>1. \A x \in DOMAIN f : \A z \in P(x) : z[1] = x
      OBVIOUS
    <3> HIDE DEF P
    <3>2. \A x \in DOMAIN f : \A z \in parts[x] : z[1] = x
      BY <3>1
    <3> HIDE DEF parts
    <3> QED BY <3>2
  <2>3. UNION {parts[x] : x \in DOMAIN f} \subseteq E
    BY <1>7
  <2> HIDE DEF parts
  <2>4. SumFunction(f) = Cardinality(UNION {parts[x] : x \in DOMAIN f})
    <3>1. ASSUME NEW Q,
                 \A k \in DOMAIN f : IsFiniteSet(Q[k]) /\ f[k] = Cardinality(Q[k]),
                 \A j, k \in DOMAIN f : j # k => Q[j] \cap Q[k] = {}
          PROVE  SumFunction(f) = Cardinality(UNION {Q[k] : k \in DOMAIN f})
      <4>1. IsFiniteSet(DOMAIN f)
        BY <1>3
      <4> QED BY ONLY <3>1, <4>1, SumOfParts
    <3> QED BY <2>1, <2>2, <3>1
  <2>5. /\ IsFiniteSet(UNION {parts[x] : x \in DOMAIN f})
        /\ Cardinality(UNION {parts[x] : x \in DOMAIN f}) <= Cardinality(E)
    BY <1>4, <2>3, FS_Subset
  <2>6. Cardinality(UNION {parts[x] : x \in DOMAIN f}) \in Nat
    BY <2>5, FS_CardinalityType
  <2> QED BY <1>4, <2>4, <2>5, <2>6
<1> QED BY <1>3, <1>4, <1>8, <1>9, <1>11

-----------------------------------------------------------------------------
(* Chances of partition selection *)

(* e ^ (k / alpha) is a power.                                             *)
LEMMA GrowthPowers == PowersOf(GrowthTo, Growth)
<1> DEFINE G(h) == [k \in Nat |-> IF k = 0 THEN 1 ELSE Growth * h[k - 1]]
<1>1. PICK g : g = G(g)
  BY GrowthAssumption, PowersExist
<1>2. GrowthTo = CHOOSE h : h = G(h)
  BY DEF GrowthTo
<1>3. GrowthTo = G(GrowthTo)
  BY <1>1, <1>2
<1>4. \A k \in Nat : G(GrowthTo)[k] = IF k = 0 THEN 1 ELSE Growth * GrowthTo[k - 1]
  OBVIOUS
<1> HIDE DEF G
<1>5. \A k \in Nat : GrowthTo[k] = IF k = 0 THEN 1 ELSE Growth * GrowthTo[k - 1]
  BY <1>3, <1>4
<1>6. \A k \in Nat : k + 1 \in Nat /\ k + 1 # 0 /\ (k + 1) - 1 = k
  OBVIOUS
<1> QED BY <1>5, <1>6 DEF PowersOf

(* The chance that the noise is at least k is ChancePart(k) of             *)
(* ChanceOver(k).                                                          *)
ChancePart(k) == TailPart(GrowthTo, Growth, k)
ChanceOver(k) == TailOver(GrowthTo, Growth, k)

LEMMA OneMinusRatio ==
  ASSUME NEW p \in Nat, NEW q \in Nat \ {0}, p <= q
  PROVE  /\ OneMinus(Ratio(p, q)) = Ratio(q - p, q)
         /\ q - p \in Nat
<1>1. PICK g \in Nat \ {0}, a \in Nat, b \in Nat \ {0} :
        p = g * a /\ q = g * b /\ Ratio(p, q) = [n |-> a, d |-> b]
  BY FiniteTerms
<1>2. a <= b
  <2>1. a * g <= b * g
    BY <1>1
  <2> QED BY <2>1, FactorCancels
<1>3. OneMinus(Ratio(p, q)) = Ratio(b - a, b)
  BY <1>1 DEF OneMinus
<1>4. (b - a) * q = (q - p) * b
  BY <1>1
<1>5. b - a \in Nat /\ q - p \in Nat /\ b # 0 /\ q # 0
  BY <1>2
<1> QED BY <1>3, <1>4, <1>5, RatiosEqual

(* They are chances, and what Beyond calculates.                           *)
LEMMA ChancesAreRatios ==
  ASSUME NEW k \in Int
  PROVE  /\ ChancePart(k) \in Nat \ {0} /\ ChanceOver(k) \in Nat \ {0}
         /\ ChancePart(k) < ChanceOver(k)
         /\ Beyond(k) = Ratio(ChancePart(k), ChanceOver(k))
<1>1. /\ ChancePart(k) \in Nat \ {0} /\ ChanceOver(k) \in Nat \ {0}
      /\ ChancePart(k) < ChanceOver(k)
  BY GrowthPowers, GrowthAssumption, TailsAreChances DEF ChancePart, ChanceOver
<1>2. CASE k >= 1
  <2>1. ChancePart(k) = 1
    BY <1>2 DEF ChancePart, TailPart
  <2>2. Beyond(k) = Ratio(1, ChanceOver(k))
    BY <1>2 DEF Beyond, ChanceOver, TailOver
  <2> QED BY <1>1, <2>1, <2>2
<1>3. CASE ~ (k >= 1)
  <2>1. ChancePart(k) = ChanceOver(k) - 1
    BY <1>3 DEF ChancePart, ChanceOver, TailPart
  <2>2. Beyond(k) = OneMinus(Ratio(1, ChanceOver(k)))
    BY <1>3 DEF Beyond, ChanceOver, TailOver
  <2> QED BY <1>1, <2>1, <2>2, OneMinusRatio
<1> QED BY <1>1, <1>2, <1>3

(* The chance that the noise of one k[x] at least is that much, when each  *)
(* has a chance of no more than s / w.                                     *)
LEMMA SomeChance ==
  ASSUME NEW D, IsFiniteSet(D), NEW k, \A x \in D : k[x] \in Int,
         NEW s \in Nat, NEW w \in Nat \ {0},
         \A x \in D : ChancePart(k[x]) * w <= s * ChanceOver(k[x])
  PROVE  \E i \in Nat, j \in Nat \ {0} :
           /\ OneMinus(FoldFunction(Times, Whole(1), [x \in D |-> OneMinus(Beyond(k[x]))]))
                = Ratio(i, j)
           /\ i <= j /\ i * w <= (Cardinality(D) * s) * j
<1> DEFINE f == [x \in D |-> OneMinus(Beyond(k[x]))]
           u == [x \in D |-> ChancePart(k[x])]
           v == [x \in D |-> ChanceOver(k[x])]
<1>1. \A x \in D : /\ u[x] \in Nat /\ v[x] \in Nat \ {0} /\ u[x] <= v[x] /\ v[x] - u[x] \in Nat
                   /\ u[x] * w <= s * v[x] /\ f[x] = Ratio(v[x] - u[x], v[x])
  BY ChancesAreRatios, OneMinusRatio
<1>2. DOMAIN f = D
  OBVIOUS
<1> HIDE DEF f, u, v
<1>3. \A x \in D : f[x] \in Exact /\ f[x] # Infinity
  BY <1>1, FiniteRatio
<1>4. PICK it : /\ it[{}] = Whole(1)
                /\ \A t \in SUBSET D :
                     /\ it[t] \in Exact /\ it[t] # Infinity
                     /\ t # {} => /\ FoldedFirst(t) \in t
                                  /\ it[t] = Times(f[FoldedFirst(t)], it[t \ {FoldedFirst(t)}])
                /\ it[D] = FoldFunctionOnSet(Times, Whole(1), f, D)
  BY <1>3, TimesStepwise
<1> DEFINE p == [t \in SUBSET D |-> it[t].n]
           q == [t \in SUBSET D |-> it[t].d]
<1>5. \A t \in SUBSET D : /\ p[t] \in Nat /\ q[t] \in Nat \ {0} /\ it[t] = Ratio(p[t], q[t])
                          /\ it[t].n = p[t] /\ it[t].d = q[t]
  BY <1>4, ExactIsRatio
<1>6. p[{}] = q[{}]
  <2>1. Whole(1) = Ratio(1, 1)
    BY ExactNumbers
  <2> DEFINE one == 1
  <2>2. one \in Nat \ {0} /\ it[{}] = Ratio(one, one)
    BY <1>4, <2>1
  <2> HIDE DEF one
  <2>3. PICK g \in Nat \ {0}, a \in Nat, b \in Nat \ {0} :
          one = g * a /\ one = g * b /\ Ratio(one, one) = [n |-> a, d |-> b]
    BY <2>2, FiniteTerms
  <2>4. a = b
    BY <2>3
  <2>5. it[{}].n = a /\ it[{}].d = b /\ {} \in SUBSET D
    BY <2>2, <2>3
  <2> QED BY <2>4, <2>5
<1> HIDE DEF p, q
<1>7. ASSUME NEW t \in SUBSET D, t # {}
      PROVE  LET x == FoldedFirst(t)
                 rest == t \ {x}
             IN p[t] * (v[x] * q[rest]) = q[t] * ((v[x] - u[x]) * p[rest])
  <2> DEFINE x == FoldedFirst(t)
             rest == t \ {x}
  <2>1. x \in D /\ rest \in SUBSET D /\ it[t] = Times(f[x], it[rest])
    BY <1>4, <1>7
  <2> HIDE DEF x, rest
  <2>2. PICK n \in Nat, d \in Nat \ {0} : n = v[x] - u[x] /\ d = v[x] /\ f[x] = Ratio(n, d)
    BY <1>1, <2>1
  <2>3. PICK a \in Nat, b \in Nat \ {0} : a = p[rest] /\ b = q[rest] /\ it[rest] = Ratio(a, b)
    BY <1>5, <2>1
  <2>4. d * b \in Nat \ {0} /\ n * a \in Nat
    OBVIOUS
  <2>5. it[t] = Ratio(n * a, d * b)
    <3>1. Times(Ratio(n, d), Ratio(a, b)) = Ratio(n * a, d * b)
      <4>1. d \in Nat /\ b \in Nat /\ d # 0 /\ b # 0 /\ d * b # 0
        BY <2>4
      <4> QED BY <4>1, TimesRatios
    <3> QED BY <2>1, <2>2, <2>3, <3>1
  <2>6. PICK g \in Nat \ {0}, y \in Nat, z \in Nat \ {0} :
          n * a = g * y /\ d * b = g * z /\ Ratio(n * a, d * b) = [n |-> y, d |-> z]
    BY <2>4, FiniteTerms
  <2>7. p[t] = y /\ q[t] = z
    BY <1>5, <2>5, <2>6
  <2>8. y * (g * z) = z * (g * y)
    OBVIOUS
  <2>9. p[t] * (d * b) = q[t] * (n * a)
    BY <2>6, <2>7, <2>8
  <2> QED BY <2>2, <2>3, <2>9 DEF x, rest
<1>8. p[D] <= q[D] /\ (q[D] - p[D]) * w <= (Cardinality(D) * s) * q[D]
  <2>1. \A x \in D : /\ u[x] \in Nat /\ v[x] \in Nat \ {0}
                     /\ u[x] <= v[x] /\ u[x] * w <= s * v[x]
    BY <1>1
  <2>2. \A t \in SUBSET D : p[t] \in Nat /\ q[t] \in Nat \ {0}
    BY <1>5
  <2> QED BY <1>6, <1>7, <2>1, <2>2, ChancesAddUp
<1>9. D \in SUBSET D
  OBVIOUS
<1>10. FoldFunction(Times, Whole(1), f) = Ratio(p[D], q[D])
  BY <1>2, <1>4, <1>5, <1>9 DEF FoldFunction
<1>11. OneMinus(FoldFunction(Times, Whole(1), f)) = Ratio(q[D] - p[D], q[D]) /\ q[D] - p[D] \in Nat
  BY <1>5, <1>8, <1>9, <1>10, OneMinusRatio
<1>12. q[D] - p[D] <= q[D] /\ q[D] \in Nat \ {0}
  BY <1>5, <1>9
<1> QED BY <1>8, <1>11, <1>12 DEF f

(* What a threshold claims for a distance d covers a chance that d rows,   *)
(* of at most d copies, give away.                                         *)
LEMMA ClaimedDeltaCovers ==
  ASSUME NEW t \in Int, NEW d \in Nat \ {0}, NEW i \in Nat, NEW j \in Nat \ {0}, i <= j,
         i * ChanceOver(t - 1) <= (d * (GrowthTo[d - 1] * ChancePart(t - 1))) * j
  PROVE  ChanceWithin(Ratio(i, j), ClaimedDelta(t, d))
<1> DEFINE N == ChancePart(t - 1)
           W == ChanceOver(t - 1)
           G == GrowthTo[d]
           H == GrowthTo[d - 1]
<1>1. N \in Nat \ {0} /\ W \in Nat \ {0} /\ BaseDelta(t) = Ratio(N, W)
  <2>1. t - 1 \in Int
    OBVIOUS
  <2> QED BY <2>1, ChancesAreRatios DEF BaseDelta
<1>2. G \in Nat \ {0} /\ H \in Nat \ {0} /\ H <= G
  BY GrowthPowers, GrowthAssumption, PowersGrow
<1>3. i * W <= (d * (H * N)) * j
  OBVIOUS
<1>4. CASE d = 1
  <2>1. H = 1
    BY <1>4, GrowthPowers DEF PowersOf
  <2>2. i * W <= N * j
    BY <1>1, <1>3, <1>4, <2>1
  <2> HIDE DEF N, W
  <2>3. ChanceWithin(Ratio(i, j), Ratio(N, W))
    BY <1>1, <2>2, ChanceWithinRatios
  <2> QED BY <1>1, <1>4, <2>3 DEF ClaimedDelta
<1>5. CASE d # 1
  <2> HIDE DEF N, W, G, H
  <2> DEFINE c == d * G
             delta == Times(Whole(c), Ratio(N, W))
  <2>1. c \in Nat \ {0} /\ c * N \in Nat
    BY <1>1, <1>2
  <2>2. delta = Ratio(c * N, 1 * W)
    <3> HIDE DEF c
    <3>1. c \in Nat /\ 1 \in Nat /\ N \in Nat /\ W \in Nat /\ W # 0 /\ 1 # 0 /\ 1 * W # 0
      BY <1>1, <2>1
    <3> QED BY <3>1, ExactNumbers, TimesRatios
  <2>3. delta = Ratio(c * N, W)
    BY <1>1, <2>2
  <2>4. i * W <= (c * N) * j
    <3>1. d * (H * N) <= d * (G * N)
      <4>1. H * N <= G * N
        BY <1>1, <1>2
      <4>2. H * N \in Nat /\ G * N \in Nat
        BY <1>1, <1>2
      <4> QED BY <4>1, <4>2
    <3>2. d * (H * N) \in Nat /\ d * (G * N) \in Nat /\ d * (G * N) = c * N
      BY <1>1, <1>2
    <3>3. (d * (H * N)) * j <= (c * N) * j
      BY <3>1, <3>2
    <3> QED BY <1>1, <1>3, <2>1, <3>2, <3>3
  <2> HIDE DEF c
  <2>5. ChanceWithin(Ratio(i, j), Ratio(c * N, W))
    BY <1>1, <2>1, <2>4, ChanceWithinRatios
  <2>6. ChanceWithin(Ratio(i, j), Ratio(1, 1))
    <3>1. i * 1 <= 1 * j
      OBVIOUS
    <3> QED BY <3>1, ChanceWithinRatios
  <2>7. ClaimedDelta(t, d) = IF AtMost(Whole(1), delta) THEN Whole(1) ELSE delta
    BY <1>1, <1>5 DEF ClaimedDelta, c, G
  <2> QED BY <2>3, <2>5, <2>6, <2>7, ExactNumbers
<1> QED BY <1>4, <1>5

(* Selected rows lose no more epsilon than 1 for each row that differs,    *)
(* and no more delta than the threshold claims for the distance.           *)
LEMMA SelectedIsCovered ==
  ASSUME MeasureInv, Stable, WholeDistances, bound \in Nat \ {0}, metric = SymmetricDifference,
         NEW threshold \in Int, NEW asked, NEW deltaAsked
  PROVE  LET m == Selected(threshold, asked, deltaAsked)
         IN /\ m.loss \in Exact /\ m.claim \in Exact /\ m.measure = "approx" /\ m.apart = bound
            /\ WithinClaim("approx", m.loss, m.claim, bound)
            /\ ChanceWithin(m.leak, m.delta)
<1> DEFINE L == left[<<>>]
           R == right[<<>>]
           a == RowsApart(L, R)
           both == BagToSet(L) \cap BagToSet(R)
           one == (BagToSet(L) \cup BagToSet(R)) \ both
           f == [x \in both |-> Abs(L[x] - R[x])]
           copies(x) == IF x \in BagToSet(L) THEN L[x] ELSE R[x]
           k == [x \in one |-> threshold - copies(x)]
           unseen == [x \in one |-> OneMinus(Beyond(threshold - copies(x)))]
           m == Selected(threshold, asked, deltaAsked)
<1>1. IsTable(L) /\ IsTable(R) /\ a * a <= bound
  BY OneTableApart DEF OfOneTable
<1>2. PICK d \in Nat \ {0} : bound = d * d
  <2>1. metric.over = "table" /\ metric.agg # "l2" /\ bound # Infinite
    BY DEF SymmetricDifference, Metric, Infinite
  <2> QED BY <2>1 DEF WholeDistances, IsSquare
<1>3. SquareRoot(Whole(bound)).n = d
  BY <1>2, WholeTerms
<1>4. /\ a \in Nat /\ SumFunction(f) \in Nat /\ SumFunction(f) <= a
      /\ IsFiniteSet(one) /\ Cardinality(one) \in Nat /\ Cardinality(one) <= a
      /\ \A x \in one : copies(x) \in 1 .. a
  <2>1. /\ DOMAIN f = DOMAIN L \cap DOMAIN R
        /\ BagToSet(L) = DOMAIN L /\ BagToSet(R) = DOMAIN R
    BY DEF BagToSet
  <2>2. \A x \in DOMAIN f : f[x] = IF L[x] < R[x] THEN R[x] - L[x] ELSE L[x] - R[x]
    <3>1. \A x \in DOMAIN f : L[x] \in Int /\ R[x] \in Int
      BY <1>1, <2>1 DEF IsTable, IsABag
    <3>2. \A x, y \in Int : Abs(x - y) = IF x < y THEN y - x ELSE x - y
      BY DEF Abs
    <3>3. \A x \in DOMAIN f : f[x] = Abs(L[x] - R[x])
      OBVIOUS
    <3> HIDE DEF f
    <3> QED BY <3>1, <3>2, <3>3
  <2>3. one = (DOMAIN L \cup DOMAIN R) \ DOMAIN f
    BY <2>1
  <2>4. \A x : copies(x) = IF x \in DOMAIN L THEN L[x] ELSE R[x]
    BY <2>1
  <2> HIDE DEF f, one, L, R, copies
  <2> QED BY <1>1, <2>1, <2>2, <2>3, <2>4, RowsThatDiffer DEF a
<1>5. a <= d
  BY <1>1, <1>2, <1>4, RootsMonotone
<1>6. m = [Measurement("approx", bound, asked, Whole(1), Whole(SumFunction(f))) EXCEPT
             !.delta = ClaimedDelta(threshold, d), !.deltaAsked = deltaAsked,
             !.leak = OneMinus(FoldFunction(Times, Whole(1), unseen))]
  BY <1>3 DEF Selected
<1>7. unseen = [x \in one |-> OneMinus(Beyond(k[x]))]
  OBVIOUS
<1>8. \A x \in one : k[x] = threshold - copies(x)
  OBVIOUS
<1> HIDE DEF L, R, a, f, one, copies, k, unseen, m
<1> DEFINE N == ChancePart(threshold - 1)
           W == ChanceOver(threshold - 1)
           s == GrowthTo[d - 1] * N
<1>9. N \in Nat \ {0} /\ W \in Nat \ {0} /\ GrowthTo[d - 1] \in Nat \ {0} /\ s \in Nat
  <2>1. threshold - 1 \in Int /\ d - 1 \in Nat
    OBVIOUS
  <2>2. N \in Nat \ {0} /\ W \in Nat \ {0}
    BY <2>1, ChancesAreRatios
  <2>3. GrowthTo[d - 1] \in Nat \ {0}
    BY <2>1, GrowthPowers, GrowthAssumption, PowersGrow
  <2> HIDE DEF N
  <2> QED BY <2>2, <2>3
<1>10. \A x \in one : k[x] \in Int /\ ChancePart(k[x]) * W <= s * ChanceOver(k[x])
  <2> SUFFICES ASSUME NEW x \in one
               PROVE  k[x] \in Int /\ ChancePart(k[x]) * W <= s * ChanceOver(k[x])
    OBVIOUS
  <2>1. PICK c \in Nat : copies(x) = c + 1 /\ c <= d - 1
    <3>1. copies(x) \in Nat /\ copies(x) >= 1 /\ copies(x) - 1 \in Nat /\ copies(x) - 1 <= d - 1
      BY <1>4, <1>5
    <3> QED BY <3>1
  <2>2. k[x] = (threshold - 1) - c /\ k[x] \in Int /\ threshold - 1 \in Int
    BY <1>8, <2>1
  <2>3. TailPart(GrowthTo, Growth, (threshold - 1) - c) * TailOver(GrowthTo, Growth, threshold - 1)
          <= (GrowthTo[c] * TailPart(GrowthTo, Growth, threshold - 1))
               * TailOver(GrowthTo, Growth, (threshold - 1) - c)
    BY <2>2, GrowthPowers, GrowthAssumption, TailsFar
  <2>4. ChancePart(k[x]) * W <= (GrowthTo[c] * N) * ChanceOver(k[x])
    BY <2>2, <2>3 DEF ChancePart, ChanceOver
  <2>5. GrowthTo[c] \in Nat /\ GrowthTo[c] <= GrowthTo[d - 1]
    BY <2>1, GrowthPowers, GrowthAssumption, PowersGrow
  <2>6. ChanceOver(k[x]) \in Nat /\ ChancePart(k[x]) \in Nat
    BY <2>2, ChancesAreRatios
  <2> HIDE DEF N, W
  <2>7. GrowthTo[c] * N <= GrowthTo[d - 1] * N /\ GrowthTo[c] * N \in Nat
    BY <1>9, <2>5
  <2>8. (GrowthTo[c] * N) * ChanceOver(k[x]) <= s * ChanceOver(k[x])
    BY <1>9, <2>6, <2>7
  <2>9. ChancePart(k[x]) * W \in Nat /\ (GrowthTo[c] * N) * ChanceOver(k[x]) \in Nat
        /\ s * ChanceOver(k[x]) \in Nat
    BY <1>9, <2>6, <2>7
  <2> HIDE DEF s
  <2> QED BY <2>2, <2>4, <2>8, <2>9
<1>11. PICK i \in Nat, j \in Nat \ {0} :
         /\ OneMinus(FoldFunction(Times, Whole(1), unseen)) = Ratio(i, j)
         /\ i <= j /\ i * W <= (Cardinality(one) * s) * j
  <2> HIDE DEF s, W
  <2> QED BY <1>4, <1>7, <1>9, <1>10, SomeChance
<1>12. i * W <= (d * s) * j
  <2> HIDE DEF s, W
  <2>1. Cardinality(one) * s <= d * s /\ Cardinality(one) * s \in Nat /\ d * s \in Nat
    BY <1>4, <1>5, <1>9
  <2>2. (Cardinality(one) * s) * j <= (d * s) * j /\ (Cardinality(one) * s) * j \in Nat
        /\ (d * s) * j \in Nat /\ i * W \in Nat
    BY <1>9, <2>1
  <2> QED BY <1>11, <2>2
<1>13. ChanceWithin(Ratio(i, j), ClaimedDelta(threshold, d))
  BY <1>11, <1>12, ClaimedDeltaCovers
<1>14. /\ m.loss = Whole(SumFunction(f)) /\ m.claim = Whole(1) /\ m.measure = "approx"
       /\ m.apart = bound /\ m.delta = ClaimedDelta(threshold, d) /\ m.leak = Ratio(i, j)
  BY <1>6, <1>11 DEF Measurement
<1>15. WithinClaim("approx", Whole(SumFunction(f)), Whole(1), bound)
  <2> DEFINE l == SumFunction(f)
  <2>0. l \in Nat /\ l <= a
    BY <1>4
  <2> HIDE DEF l
  <2>1. (l * 1) * (l * 1) <= ((1 * 1) * (1 * 1)) * bound
    <3>1. l * l <= a * a
      <4>1. l * l <= a * l /\ a * l <= a * a
        BY <1>4, <2>0
      <4>2. l * l \in Nat /\ a * l \in Nat /\ a * a \in Nat
        BY <1>4, <2>0
      <4> QED BY <4>1, <4>2
    <3>2. (l * 1) * (l * 1) = l * l /\ ((1 * 1) * (1 * 1)) * bound = bound
          /\ l * l \in Nat /\ a * a \in Nat
      BY <1>4, <2>0
    <3> QED BY <1>1, <3>1, <3>2
  <2>2. WithinClaim("approx", Ratio(l, 1), Ratio(1, 1), bound)
    BY <2>0, <2>1, WithinByRatios
  <2> QED BY <2>0, <2>2, ExactNumbers DEF l
<1>16. m.loss \in Exact /\ m.claim \in Exact
  BY <1>4, <1>14, ExactNumbers
<1> QED BY <1>13, <1>14, <1>15, <1>16 DEF m

(* The least k that the noise exceeds with at most a chance of delta.      *)
LEMMA InverseExists ==
  ASSUME NEW n \in Nat \ {0}, NEW c \in Nat \ {0}, n < c, NEW delta, delta = Ratio(n, c)
  PROVE  LET k == InverseCMF(delta)
         IN k \in Int /\ ChancePart(k + 1) * c <= n * ChanceOver(k + 1)
<1>1. PICK g \in Nat \ {0}, a \in Nat, b \in Nat \ {0} :
        n = g * a /\ c = g * b /\ delta = [n |-> a, d |-> b]
  <2>1. \E g \in Nat \ {0}, a \in Nat, b \in Nat \ {0} :
          n = g * a /\ c = g * b /\ Ratio(n, c) = [n |-> a, d |-> b]
    BY FiniteTerms
  <2> QED BY <2>1
<1>2. a \in Nat \ {0} /\ a < b
  <2>1. a # 0
    BY <1>1
  <2>2. b <= a => g * b <= g * a
    BY MultipliesUp
  <2> QED BY <1>1, <2>1, <2>2
<1> DEFINE N == Logarithm(b)
<1>3. N \in Nat /\ GrowthTo[N] \in Nat /\ GrowthTo[N] >= b
  <2>1. \A k \in Nat : GrowthTo[k] \in Nat \ {0} /\ k < GrowthTo[k]
    BY GrowthPowers, GrowthAssumption, PowersGrow
  <2>2. b \in 0 .. b /\ GrowthTo[b] >= b
    BY <2>1
  <2>3. N \in 0 .. b /\ GrowthTo[N] >= b
    BY <2>2 DEF Logarithm
  <2> QED BY <2>1, <2>3
<1> HIDE DEF N
<1>4. \A k \in Int : AtMost(Beyond(k), delta) <=> ChancePart(k) * b <= a * ChanceOver(k)
  <2> SUFFICES ASSUME NEW k \in Int
               PROVE  AtMost(Beyond(k), delta) <=> ChancePart(k) * b <= a * ChanceOver(k)
    OBVIOUS
  <2>1. /\ ChancePart(k) \in Nat /\ ChanceOver(k) \in Nat \ {0}
        /\ Beyond(k) = Ratio(ChancePart(k), ChanceOver(k))
    BY ChancesAreRatios
  <2>2. delta = Ratio(a, b)
    <3>1. n * b = a * c
      BY <1>1
    <3> QED BY <3>1, RatiosEqual
  <2>3. AtMost(Ratio(ChancePart(k), ChanceOver(k)), Ratio(a, b))
          <=> ChancePart(k) * b <= a * ChanceOver(k)
    BY <2>1, AtMostRatios
  <2> QED BY <2>1, <2>2, <2>3
<1> DEFINE most == GrowthTo[N] * (Growth + 1)
<1>5. most \in Nat /\ b < most
  <2>1. GrowthTo[N] * 1 < GrowthTo[N] * (Growth + 1)
    BY <1>3, GrowthAssumption
  <2> QED BY <1>3, <2>1, GrowthAssumption
<1>6. ChanceOver(-N) = most /\ ChancePart(-N) = most - 1
      /\ ChanceOver(N + 1) = most /\ ChancePart(N + 1) = 1
  BY <1>3 DEF ChanceOver, ChancePart, TailOver, TailPart
<1> HIDE DEF most
<1>7. ~ AtMost(Beyond(-N), delta)
  <2>1. a * most <= (b - 1) * most
    BY <1>2, <1>5
  <2>2. (b - 1) * most = b * most - most /\ (most - 1) * b = b * most - b
    BY <1>5
  <2>3. a * most \in Nat /\ b * most \in Nat
    BY <1>5
  <2>4. ~ ((most - 1) * b <= a * most)
    BY <1>5, <2>1, <2>2, <2>3
  <2> QED BY <1>3, <1>4, <1>6, <2>4
<1>8. AtMost(Beyond(N + 1), delta)
  <2>1. 1 * b <= a * most
    <3>1. 1 * most <= a * most
      BY <1>2, <1>5
    <3>2. a * most \in Nat
      BY <1>5
    <3> QED BY <1>5, <3>1, <3>2
  <2> QED BY <1>3, <1>4, <1>6, <2>1
<1> DEFINE S == {k \in -N .. N : ~ AtMost(Beyond(k), delta)}
<1>9. PICK k \in S : \A x \in S : x <= k
  <2>1. S \in SUBSET Int /\ -N \in S /\ N \in Int /\ \A x \in S : x <= N
    BY <1>3, <1>7
  <2> HIDE DEF S
  <2> QED BY <2>1, LargestExists
<1>10. k \in -N .. N /\ ~ AtMost(Beyond(k), delta) /\ AtMost(Beyond(k + 1), delta)
  <2>1. CASE k = N
    BY <1>3, <1>8, <2>1
  <2>2. CASE k # N
    <3>1. k + 1 \in -N .. N /\ k + 1 \notin S
      BY <1>3, <1>9, <2>2
    <3> QED BY <3>1
  <2> QED BY <2>1, <2>2
<1> DEFINE found == InverseCMF(delta)
<1>11. found \in -N .. N /\ AtMost(Beyond(found + 1), delta)
  <2>1. delta.d = b
    BY <1>1
  <2> QED BY <1>10, <2>1 DEF InverseCMF, N
<1> HIDE DEF found
<1>12. found \in Int /\ found + 1 \in Int
  BY <1>3, <1>11
<1> DEFINE p == ChancePart(found + 1)
           q == ChanceOver(found + 1)
<1>13. p \in Nat /\ q \in Nat /\ p * b <= a * q
  BY <1>4, <1>11, <1>12, ChancesAreRatios
<1> HIDE DEF p, q
<1>14. p * c <= n * q
  <2>1. g * (p * b) <= g * (a * q)
    <3>1. p * b \in Nat /\ a * q \in Nat
      BY <1>13
    <3> QED BY <1>13, <3>1, MultipliesUp
  <2>2. g * (p * b) = p * (g * b) /\ g * (a * q) = (g * a) * q
    BY <1>13
  <2> QED BY <1>1, <2>1, <2>2
<1> QED BY <1>12, <1>14 DEF p, q, found

(* The threshold that a delta is asked for with, at a distance d.          *)
AskedThreshold(delta, d) ==
  InverseCMF(IF d = 1 THEN delta ELSE Divided(delta, Whole(d * GrowthTo[d]))) + 2

(* It claims no more than that delta.                                      *)
LEMMA ThresholdSpends ==
  ASSUME NEW delta \in PartitionDeltas, NEW d \in Nat \ {0}
  PROVE  /\ AskedThreshold(delta, d) \in Int
         /\ ChanceWithin(ClaimedDelta(AskedThreshold(delta, d), d), delta)
<1>1. PICK n \in Nat \ {0}, b \in Nat \ {0} : n < b /\ delta = Ratio(n, b)
  <2>1. delta \in Exact /\ delta # Zero /\ delta.n < delta.d
    BY SelectionAssumption, NumbersAreExact
  <2>2. delta.n \in Nat /\ delta.d \in Nat \ {0} /\ delta = Ratio(delta.n, delta.d)
    <3>1. delta # Infinity
      BY <2>1 DEF Infinity
    <3> QED BY <2>1, <3>1, ExactIsRatio
  <2>3. ASSUME delta.n = 0 PROVE FALSE
    <3>1. Ratio(0, delta.d) = Ratio(0, 1)
      BY <2>2, RatiosEqual
    <3> QED BY <2>1, <2>2, <2>3, <3>1, ExactNumbers
  <2> QED BY <2>1, <2>2, <2>3
<1> DEFINE c == IF d = 1 THEN 1 ELSE d * GrowthTo[d]
           base == IF d = 1 THEN delta ELSE Divided(delta, Whole(d * GrowthTo[d]))
           k == InverseCMF(base)
           t == AskedThreshold(delta, d)
           p == ChancePart(k + 1)
           q == ChanceOver(k + 1)
<1>2. c \in Nat \ {0}
  <2>1. GrowthTo[d] \in Nat \ {0}
    BY GrowthPowers, GrowthAssumption, PowersGrow
  <2>2. d * GrowthTo[d] \in Nat \ {0}
    BY <2>1
  <2> QED BY <2>2
<1>3. base = Ratio(n, b * c)
  <2>1. CASE d = 1
    BY <1>1, <2>1
  <2>2. CASE d # 1
    <3>1. base = Divided(Ratio(n, b), Ratio(c, 1))
      BY <1>1, <1>2, <2>2, ExactNumbers
    <3> HIDE DEF c
    <3>2. n * 1 # 0 /\ n * 1 = n /\ c # 0
      BY <1>2
    <3>3. Divided(Ratio(n, b), Ratio(c, 1)) = Ratio(n * 1, b * c)
      BY <1>2, <3>2, DividedRatios
    <3> QED BY <3>1, <3>2, <3>3
  <2> QED BY <2>1, <2>2
<1> HIDE DEF c
<1>4. b * c \in Nat \ {0} /\ n < b * c
  <2>1. b * 1 <= b * c
    BY <1>2
  <2> QED BY <1>1, <1>2, <2>1
<1>5. k \in Int /\ p * (b * c) <= n * q
  <2> HIDE DEF base
  <2> QED BY <1>3, <1>4, InverseExists
<1>6. t = k + 2 /\ t \in Int /\ t - 1 = k + 1
  BY <1>5 DEF AskedThreshold
<1>7. p \in Nat \ {0} /\ q \in Nat \ {0} /\ BaseDelta(t) = Ratio(p, q)
  <2>1. k + 1 \in Int
    BY <1>5
  <2> HIDE DEF k, t
  <2> QED BY <1>6, <2>1, ChancesAreRatios DEF BaseDelta
<1> HIDE DEF k, t, base, p, q
<1>8. (c * p) * b <= n * q
  BY <1>2, <1>5, <1>7
<1>9. c * p \in Nat /\ ChanceWithin(Ratio(c * p, q), Ratio(n, b))
  <2>1. c * p \in Nat
    BY <1>2, <1>7
  <2> QED BY <1>7, <1>8, <2>1, ChanceWithinRatios
<1>10. CASE d = 1
  <2>1. c * p = p
    BY <1>7, <1>10 DEF c
  <2> QED BY <1>1, <1>6, <1>7, <1>9, <1>10, <2>1 DEF ClaimedDelta, t
<1>11. CASE d # 1
  <2> DEFINE x == Times(Whole(d * GrowthTo[d]), BaseDelta(t))
  <2>1. x = Ratio(c * p, q)
    <3>1. x = Times(Ratio(c, 1), Ratio(p, q))
      BY <1>2, <1>7, <1>11, ExactNumbers DEF c
    <3>2. c \in Nat /\ p \in Nat /\ q \in Nat /\ q # 0 /\ 1 * q # 0 /\ 1 # 0 /\ 1 * q = q
      BY <1>2, <1>7
    <3>3. Times(Ratio(c, 1), Ratio(p, q)) = Ratio(c * p, 1 * q)
      BY <3>2, TimesRatios
    <3> QED BY <3>1, <3>2, <3>3
  <2>2. ClaimedDelta(t, d) = IF AtMost(Whole(1), x) THEN Whole(1) ELSE x
    BY <1>11 DEF ClaimedDelta
  <2> HIDE DEF x
  <2>3. AtMost(Whole(1), x) => ChanceWithin(Whole(1), Ratio(n, b))
    <3>1. AtMost(Ratio(1, 1), Ratio(c * p, q)) <=> 1 * q <= (c * p) * 1
      BY <1>7, <1>9, AtMostRatios
    <3>2. ASSUME q <= c * p PROVE FALSE
      <4>1. q * b <= (c * p) * b
        BY <1>7, <1>9, <3>2
      <4>2. q * b <= n * q
        <5>1. q * b \in Nat /\ (c * p) * b \in Nat /\ n * q \in Nat
          BY <1>7, <1>9
        <5> QED BY <1>8, <4>1, <5>1
      <4>3. b * q <= n * q
        BY <1>7, <4>2
      <4>4. b <= n
        BY <1>7, <4>3, FactorCancels
      <4> QED BY <1>1, <4>4
    <3> QED BY <1>7, <1>9, <2>1, <3>1, <3>2, ExactNumbers
  <2> QED BY <1>1, <1>6, <1>9, <2>1, <2>2, <2>3 DEF t
<1> QED BY <1>10, <1>11

(* The measurements that partition selection makes.                        *)
LEMMA SelectionsMade ==
  ASSUME GeometricPartitionSelection \/ CreatePartitionSelectionMeasurement,
         MeasureInv, WholeDistances
  PROVE  /\ metric = SymmetricDifference /\ bound \in Nat \ {0}
         /\ \E threshold \in Int : \E deltaAsked :
              LET m == Selected(threshold, Whole(1), deltaAsked)
              IN /\ Make(m)
                 /\ m.claim = m.asked /\ m.deltaAsked = deltaAsked
                 /\ ChanceWithin(m.delta, deltaAsked)
<1>1. metric = SymmetricDifference /\ bound \in Nat \ {0}
  BY DEF GeometricPartitionSelection, CreatePartitionSelectionMeasurement, CanSelect,
     MeasureInv, TableInv, TypeOK, Infinite
<1>2. PICK d \in Nat \ {0} : bound = d * d
  <2>1. metric.over = "table" /\ metric.agg # "l2" /\ bound # Infinite
    BY <1>1 DEF SymmetricDifference, Metric, Infinite
  <2> QED BY <1>1, <2>1 DEF WholeDistances, IsSquare
<1>3. SquareRoot(Whole(bound)).n = d
  BY <1>2, WholeTerms
<1>4. \A threshold, x : /\ Selected(threshold, Whole(1), x).delta = ClaimedDelta(threshold, d)
                       /\ Selected(threshold, Whole(1), x).deltaAsked = x
                       /\ Selected(threshold, Whole(1), x).claim = Whole(1)
                       /\ Selected(threshold, Whole(1), x).asked = Whole(1)
                       /\ [Selected(threshold, Whole(1), Zero) EXCEPT !.deltaAsked = x]
                            = Selected(threshold, Whole(1), x)
  <2> TAKE threshold, x
  <2> DEFINE l == left[<<>>]
             r == right[<<>>]
             both == BagToSet(l) \cap BagToSet(r)
             one == (BagToSet(l) \cup BagToSet(r)) \ both
             copies(z) == IF z \in BagToSet(l) THEN l[z] ELSE r[z]
             M == Measurement("approx", bound, Whole(1), Whole(1),
                              Whole(SumFunction([z \in both |-> Abs(l[z] - r[z])])))
             D == ClaimedDelta(threshold, d)
             K == OneMinus(FoldFunction(Times, Whole(1),
                                        [z \in one |-> OneMinus(Beyond(threshold - copies(z)))]))
  <2>1. \A y : Selected(threshold, Whole(1), y)
               = [M EXCEPT !.delta = D, !.deltaAsked = y, !.leak = K]
    BY <1>3 DEF Selected
  <2>2. DOMAIN M = Fields /\ M.claim = Whole(1) /\ M.asked = Whole(1)
    BY DEF Measurement, Fields
  <2> HIDE DEF M, D, K
  <2>3. /\ [M EXCEPT !.delta = D, !.deltaAsked = x, !.leak = K].delta = D
        /\ [M EXCEPT !.delta = D, !.deltaAsked = x, !.leak = K].deltaAsked = x
        /\ [M EXCEPT !.delta = D, !.deltaAsked = x, !.leak = K].claim = M.claim
        /\ [M EXCEPT !.delta = D, !.deltaAsked = x, !.leak = K].asked = M.asked
    BY <2>2 DEF Fields
  <2>4. [[M EXCEPT !.delta = D, !.deltaAsked = Zero, !.leak = K] EXCEPT !.deltaAsked = x]
          = [M EXCEPT !.delta = D, !.deltaAsked = x, !.leak = K]
    BY <2>2 DEF Fields
  <2>5. /\ Selected(threshold, Whole(1), x) = [M EXCEPT !.delta = D, !.deltaAsked = x, !.leak = K]
        /\ Selected(threshold, Whole(1), Zero) = [M EXCEPT !.delta = D, !.deltaAsked = Zero, !.leak = K]
    BY <2>1
  <2>6. /\ Selected(threshold, Whole(1), x).delta = D
        /\ Selected(threshold, Whole(1), x).deltaAsked = x
        /\ Selected(threshold, Whole(1), x).claim = Whole(1)
        /\ Selected(threshold, Whole(1), x).asked = Whole(1)
    BY <2>2, <2>3, <2>5
  <2> QED BY <2>4, <2>5, <2>6 DEF D
<1>5. CASE GeometricPartitionSelection
  <2>1. PICK threshold \in Int : LET m == Selected(threshold, Whole(1), Zero)
                                IN Make([m EXCEPT !.deltaAsked = m.delta])
    BY <1>5, SelectionAssumption DEF GeometricPartitionSelection
  <2> DEFINE x == ClaimedDelta(threshold, d)
  <2>2. Make(Selected(threshold, Whole(1), x))
    BY <1>4, <2>1
  <2>3. ChanceWithin(x, x)
    <3>1. /\ ChanceOver(threshold - 1) \in Nat /\ ChancePart(threshold - 1) \in Nat
          /\ GrowthTo[d - 1] \in Nat
      BY ChancesAreRatios, GrowthPowers, GrowthAssumption, PowersGrow
    <3>2. 0 * ChanceOver(threshold - 1)
            <= (d * (GrowthTo[d - 1] * ChancePart(threshold - 1))) * 1
      BY <3>1
    <3>3. ChanceWithin(Ratio(0, 1), x)
      BY <3>2, ClaimedDeltaCovers
    <3> QED BY <3>3, ChanceReflexive DEF ChanceWithin
  <2> HIDE DEF x
  <2> QED BY <1>1, <1>4, <2>2, <2>3 DEF x
<1>6. CASE CreatePartitionSelectionMeasurement
  <2>1. PICK delta \in PartitionDeltas :
          Make(Selected(AskedThreshold(delta, d), Whole(1), delta))
    BY <1>3, <1>6 DEF CreatePartitionSelectionMeasurement, AskedThreshold
  <2>2. AskedThreshold(delta, d) \in Int
        /\ ChanceWithin(ClaimedDelta(AskedThreshold(delta, d), d), delta)
    BY ThresholdSpends
  <2> QED BY <1>1, <1>4, <2>1, <2>2
<1> QED BY <1>1, <1>5, <1>6

-----------------------------------------------------------------------------
(* Chains that end in a measurement *)

LEMMA MakesCovered ==
  ASSUME NEW m, Make(m), Covered(m)
  PROVE  Covered(made)'
BY DEF Make, Covered, IsMade

LEMMA RemakesCovered ==
  ASSUME NEW m, Remake(m), Covered(m)
  PROVE  Covered(made)'
BY DEF Remake, Covered, IsMade

LEMMA MadeInHand ==
  ASSUME MeasureInv, GroupsKnown, Stable, NEW m, Make(m)
  PROVE  GroupsInHand
BY DEF GroupsInHand, Make, MeasureInv, TableInv, TypeOK, Infinite

LEMMA BudgetFits ==
  ASSUME NEW mech \in Mechanisms, NEW kind, NEW measure, NEW q \in Budgets,
         CanAddNoise(mech, kind, measure, q)
  PROVE  NoiseFits(mech, measure, q)
<1>1. q \in Exact
  BY NumbersAssumption, NumbersAreExact
<1> QED BY <1>1 DEF NoiseFits, CanAddNoise

(* Measurements of groups: the budget is an exact number, the mechanism    *)
(* fits the metric.                                                        *)
LEMMA GroupsAreWithin ==
  ASSUME MeasureInv, GroupsKnown, Stable, BoundsHoldFloats, NumericCells,
         \/ CreateCountMeasurement \/ CreateCountDistinctMeasurement \/ CreateSumMeasurement
  PROVE  Covered(made)'
<1>1. CASE CreateCountMeasurement
  <2>1. PICK mech \in Mechanisms, q \in Budgets : \E measure \in SupportedMeasures(mech) :
          CanAddNoise(mech, "int", measure, q) /\ Make(NoisyCount(mech, measure, q))
    BY <1>1 DEF CreateCountMeasurement
  <2>2. PICK measure \in SupportedMeasures(mech) :
          CanAddNoise(mech, "int", measure, q) /\ Make(NoisyCount(mech, measure, q))
    BY <2>1
  <2>3. NoiseFits(mech, measure, q)
    BY <2>2, BudgetFits
  <2>4. GroupsInHand
    BY <2>2, MadeInHand
  <2>5. Covered(NoisyCount(mech, measure, q))
    BY <2>3, <2>4, CountIsCovered DEF NoiseFits, GroupsInHand
  <2> QED BY <2>2, <2>5, MakesCovered
<1>2. CASE CreateCountDistinctMeasurement
  <2>1. PICK mech \in Mechanisms, q \in Budgets : \E measure \in SupportedMeasures(mech) :
          CanAddNoise(mech, "int", measure, q) /\ Make(NoisyCountDistinct(mech, measure, q))
    BY <1>2 DEF CreateCountDistinctMeasurement
  <2>2. PICK measure \in SupportedMeasures(mech) :
          CanAddNoise(mech, "int", measure, q) /\ Make(NoisyCountDistinct(mech, measure, q))
    BY <2>1
  <2>3. NoiseFits(mech, measure, q)
    BY <2>2, BudgetFits
  <2>4. GroupsInHand
    BY <2>2, MadeInHand
  <2>5. Covered(NoisyCountDistinct(mech, measure, q))
    BY <2>3, <2>4, CountDistinctIsCovered DEF NoiseFits, GroupsInHand
  <2> QED BY <2>2, <2>5, MakesCovered
<1>3. CASE CreateSumMeasurement
  <2>1. PICK mech \in Mechanisms, q \in Budgets, b \in Bounds :
          \E measure \in SupportedMeasures(mech), c \in MeasureColumns(b) :
            /\ CanAddNoise(mech, schema[c].kind, measure, q)
            /\ Make(NoisySum(LAMBDA r : Num[r[c]], b, Halves, mech, measure, q))
    BY <1>3 DEF CreateSumMeasurement
  <2>2. PICK measure \in SupportedMeasures(mech), c \in MeasureColumns(b) :
          /\ CanAddNoise(mech, schema[c].kind, measure, q)
          /\ Make(NoisySum(LAMBDA r : Num[r[c]], b, Halves, mech, measure, q))
    BY <2>1
  <2> DEFINE m == NoisySum(LAMBDA r : Num[r[c]], b, Halves, mech, measure, q)
  <2>3. NoiseFits(mech, measure, q)
    BY <2>2, BudgetFits
  <2>4. GroupsInHand
    <3>1. Make(m)
      BY <2>2
    <3> HIDE DEF m
    <3> QED BY <3>1, MadeInHand
  <2>5. Covered(m)
    BY <2>3, <2>4, RowSumIsCovered DEF NoiseFits, GroupsInHand
  <2>6. Make(m)
    BY <2>2
  <2> HIDE DEF m
  <2> QED BY <2>5, <2>6, MakesCovered
<1> QED BY <1>1, <1>2, <1>3

LEMMA AveragesAreWithin ==
  ASSUME MeasureInv, GroupsKnown, Stable, BoundsHoldFloats, NumericCells,
         CreateAverageMeasurement \/ CreateVarianceMeasurement
  PROVE  Covered(made)'
<1>1. CASE CreateAverageMeasurement
  <2>1. PICK mech \in Mechanisms, q \in Budgets, b \in Bounds :
          \E measure \in SupportedMeasures(mech), c \in MeasureColumns(b) :
            /\ CanAddNoise(mech, schema[c].kind, measure, q)
            /\ Make(NoisyAverage(c, b, mech, measure, q))
    BY <1>1 DEF CreateAverageMeasurement
  <2>2. PICK measure \in SupportedMeasures(mech), c \in MeasureColumns(b) :
          /\ CanAddNoise(mech, schema[c].kind, measure, q)
          /\ Make(NoisyAverage(c, b, mech, measure, q))
    BY <2>1
  <2>3. NoiseFits(mech, measure, q)
    BY <2>2, BudgetFits
  <2>4. GroupsInHand
    BY <2>2, MadeInHand
  <2>5. Covered(NoisyAverage(c, b, mech, measure, q))
    BY <2>3, <2>4, AverageIsCovered
  <2> QED BY <2>2, <2>5, MakesCovered
<1>2. CASE CreateVarianceMeasurement
  <2>1. PICK mech \in Mechanisms, q \in Budgets, b \in Bounds :
          \E measure \in SupportedMeasures(mech), c \in MeasureColumns(b) :
            /\ CanAddNoise(mech, schema[c].kind, measure, q)
            /\ Make(NoisyStandardDeviation(c, b, mech, measure, q))
    BY <1>2 DEF CreateVarianceMeasurement
  <2>2. PICK measure \in SupportedMeasures(mech), c \in MeasureColumns(b) :
          /\ CanAddNoise(mech, schema[c].kind, measure, q)
          /\ Make(NoisyStandardDeviation(c, b, mech, measure, q))
    BY <2>1
  <2>3. NoiseFits(mech, measure, q)
    BY <2>2, BudgetFits
  <2>4. GroupsInHand
    BY <2>2, MadeInHand
  <2>5. Covered(NoisyStandardDeviation(c, b, mech, measure, q))
    BY <2>3, <2>4, VarianceIsCovered
  <2> QED BY <2>2, <2>5, MakesCovered
<1> QED BY <1>1, <1>2

(* What partition selection makes loses no more than it claims.            *)
LEMMA SelectionIsWithin ==
  ASSUME MeasureInv, Stable, WholeDistances,
         GeometricPartitionSelection \/ CreatePartitionSelectionMeasurement
  PROVE  Covered(made)' /\ UNCHANGED vars
<1>1. metric = SymmetricDifference /\ bound \in Nat \ {0}
  BY SelectionsMade
<1>2. PICK threshold \in Int : \E deltaAsked : Make(Selected(threshold, Whole(1), deltaAsked))
  BY SelectionsMade
<1>3. PICK deltaAsked : Make(Selected(threshold, Whole(1), deltaAsked))
  BY <1>2
<1> DEFINE m == Selected(threshold, Whole(1), deltaAsked)
<1>4. IsMade(m)
  BY <1>1, SelectedIsMade
<1>5. /\ m.loss \in Exact /\ m.claim \in Exact /\ m.measure = "approx" /\ m.apart = bound
      /\ WithinClaim("approx", m.loss, m.claim, bound)
      /\ ChanceWithin(m.leak, m.delta)
  BY <1>1, SelectedIsCovered
<1> HIDE DEF m
<1>6. Covered(m)
  BY <1>4, <1>5 DEF Covered
<1>7. Make(m)
  BY <1>3 DEF m
<1> QED BY <1>6, <1>7, MakesCovered DEF Make

(* What is made of a measurement that loses no more than it claims.        *)
LEMMA RemakingIsWithin ==
  ASSUME made # Nothing => Covered(made), PureDPToRhoZCDP \/ PureDPToApproxDP \/ Composition
  PROVE  Covered(made)'
<1>1. CASE PureDPToRhoZCDP
  <2> DEFINE rho(eps) == Divided(Squared(eps), Whole(2))
             m == [made EXCEPT !.measure = "rho", !.claim = rho(made.claim),
                               !.asked = rho(made.asked), !.loss = rho(made.loss)]
  <2>1. Remake(m) /\ made.measure = "pure"
    BY <1>1 DEF PureDPToRhoZCDP
  <2>2. Covered(made)
    BY <2>1 DEF Remake
  <2>3. made.apart \in Nat /\ DOMAIN made = Fields
    BY <2>2 DEF Covered, IsMade
  <2>4. /\ m.measure = "rho" /\ m.claim = rho(made.claim) /\ m.loss = rho(made.loss)
        /\ m.apart = made.apart /\ m.delta = made.delta /\ m.leak = made.leak
        /\ DOMAIN m = Fields
    BY <2>3 DEF Fields
  <2>5. made.claim \in Exact /\ made.loss \in Exact
        /\ WithinClaim("pure", made.loss, made.claim, made.apart)
    BY <2>1, <2>2 DEF Covered
  <2>6. rho(made.claim) \in Exact /\ rho(made.loss) \in Exact
    BY <2>5, HalfOfSquare
  <2>7. WithinClaim("rho", rho(made.loss), rho(made.claim), made.apart)
    BY <2>3, <2>5, HalvesOfSquaresWithin
  <2> HIDE DEF m, rho
  <2>8. IsMade(m)
    <3>1. IsMade(made)
      BY <2>2 DEF Covered
    <3> QED BY <2>1, <2>4, <3>1 DEF IsMade, Measures
  <2>9. Covered(m)
    BY <2>2, <2>4, <2>6, <2>7, <2>8 DEF Covered
  <2> QED BY <2>1, <2>9, RemakesCovered
<1>2. CASE PureDPToApproxDP
  <2> DEFINE m == [made EXCEPT !.measure = "approx"]
  <2>1. Remake(m) /\ made.measure = "pure"
    BY <1>2 DEF PureDPToApproxDP
  <2>2. Covered(made)
    BY <2>1 DEF Remake
  <2>3. DOMAIN made = Fields
    BY <2>2 DEF Covered, IsMade
  <2>4. /\ m.measure = "approx" /\ m.claim = made.claim /\ m.loss = made.loss
        /\ m.apart = made.apart /\ m.delta = made.delta /\ m.leak = made.leak
        /\ DOMAIN m = Fields
    BY <2>3 DEF Fields
  <2> HIDE DEF m
  <2>5. IsMade(m)
    BY <2>2, <2>4 DEF Covered, IsMade, Measures
  <2>6. WithinClaim(m.measure, m.loss, m.claim, m.apart)
    BY <2>1, <2>2, <2>4 DEF Covered, WithinClaim
  <2>7. Covered(m)
    BY <2>2, <2>4, <2>5, <2>6 DEF Covered
  <2> QED BY <2>1, <2>7, RemakesCovered
<1>3. CASE Composition
  <2>1. PICK n \in 2 .. MaxParts \div made.parts : Remake(Composed([i \in 1 .. n |-> made]))
    BY <1>3 DEF Composition
  <2> DEFINE ms == [i \in 1 .. n |-> made]
  <2>2. Covered(made)
    BY <1>3 DEF Composition
  <2>3. n \in Nat \ {0}
    BY <2>1
  <2>4. DOMAIN ms = 1 .. n /\ (\A i \in 1 .. n : ms[i] = made) /\ Remake(Composed(ms))
    BY <2>1
  <2> HIDE DEF ms
  <2>5. 1 \in 1 .. n
    BY <2>3
  <2>6. \A i \in 1 .. n : /\ Covered(ms[i])
                          /\ ms[i].measure = ms[1].measure /\ ms[i].apart = ms[1].apart
    BY <2>2, <2>4, <2>5
  <2>7. Covered(Composed(ms))
    BY <2>3, <2>4, <2>6, ComposedIsCovered
  <2> QED BY <2>4, <2>7, RemakesCovered
<1> QED BY <1>1, <1>2, <1>3

(* The steps that MeasuredLossWithinClaim is about: those whose chain is   *)
(* careful (ChainStable), and that measure nothing else where a number is  *)
(* expected.                                                               *)
CarefulStep ==
  /\ TransformStep => Careful
  /\ TransformStep \/ NumericCells

(* The inductive invariant: the chain is stable, and what was made at its  *)
(* end loses no more than it claims.  LossWithinClaim alone says nothing   *)
(* about the tables that are yet to be measured.                           *)
LossInv ==
  /\ MeasureInv /\ GroupsKnown /\ Stable /\ WholeDistances
  /\ made # Nothing => Covered(made)

LEMMA CoveredLoses ==
  ASSUME Covered(made)
  PROVE  LossWithinClaim
<1>1. AtMost(made.leak, made.delta)
  BY ChanceAtMost DEF Covered
<1> QED BY <1>1 DEF LossWithinClaim, Covered, WithinClaim

LEMMA InitialLoss ==
  ASSUME MeasureInit
  PROVE  LossInv
BY InitialStable, InitialTables, InitialGroups, InitialWhole DEF MeasureInit, LossInv, MeasureInv

(* What is made at the end of a stable chain is covered.                   *)
LEMMA MeasuredIsCovered ==
  ASSUME LossInv, BoundsHoldFloats, QuantilesOfSums, NumericCells,
         \/ Count \/ CountDistinct \/ Sum
         \/ CreateCountMeasurement \/ CreateCountDistinctMeasurement \/ CreateSumMeasurement
         \/ CreateAverageMeasurement \/ CreateVarianceMeasurement
         \/ CreateQuantileMeasurement \/ CreateBoundsMeasurement
  PROVE  Covered(made)' /\ UNCHANGED vars
<1>1. CASE Count \/ CountDistinct \/ Sum
  <2>1. PICK kind, s, change : ScaledNoise(kind, s, change)
    BY <1>1 DEF Count, CountDistinct, Sum
  <2>2. bound > 0 /\ UNCHANGED vars
    BY <2>1 DEF ScaledNoise, Number, Make
  <2> QED BY <1>1, <2>2, CountIsWithin, CountDistinctIsWithin, SumIsWithin DEF LossInv
<1>2. CASE \/ CreateCountMeasurement \/ CreateCountDistinctMeasurement \/ CreateSumMeasurement
           \/ CreateAverageMeasurement \/ CreateVarianceMeasurement
  <2>1. \E m : Make(m)
    BY <1>2 DEF CreateCountMeasurement, CreateCountDistinctMeasurement, CreateSumMeasurement,
       CreateAverageMeasurement, CreateVarianceMeasurement
  <2>2. UNCHANGED vars
    BY <2>1 DEF Make
  <2> QED BY <1>2, <2>2, GroupsAreWithin, AveragesAreWithin DEF LossInv
<1>3. CASE CreateQuantileMeasurement
  <2>1. PICK m : Make(m)
    BY <1>3 DEF CreateQuantileMeasurement
  <2>2. GroupsInHand
    BY <2>1, MadeInHand DEF LossInv
  <2> QED BY <1>3, <2>1, <2>2, QuantileIsCovered DEF Make
<1>4. CASE CreateBoundsMeasurement
  <2>1. PICK m : Make(m)
    BY <1>4 DEF CreateBoundsMeasurement
  <2> QED BY <1>4, <2>1, BoundsAreCovered DEF LossInv, Make
<1> QED BY <1>1, <1>2, <1>3, <1>4

LEMMA StillInHand ==
  ASSUME GroupsKnown, Stable, WholeDistances, UNCHANGED vars
  PROVE  GroupsKnown' /\ Stable' /\ WholeDistances'
<1>1. GroupsKnown'
  BY DEF GroupsKnown, vars
<1>2. Stable'
  BY DEF Stable, vars
<1>3. WholeDistances'
  BY DEF WholeDistances, IsSquare, vars
<1> QED BY <1>1, <1>2, <1>3

(* LossInv is inductive.                                                   *)
LEMMA LossStepKeepsInv ==
  ASSUME UserFunctions, PublicRows, UnwrapsRows, BoundsHoldFloats, QuantilesOfSums,
         LossInv, [MeasureNext]_measureVars, [CarefulStep]_measureVars
  PROVE  LossInv'
<1>1. MeasureInv'
  BY MeasureStepKeepsInv DEF LossInv
<1>2. CASE UNCHANGED measureVars
  <2>1. UNCHANGED vars /\ made' = made
    BY <1>2 DEF measureVars, vars
  <2>2. (made # Nothing => Covered(made))'
    BY <2>1 DEF LossInv, Covered, IsMade
  <2> QED BY <1>1, <2>1, <2>2, StillInHand DEF LossInv
<1>3. CASE TransformStep /\ Careful
  <2>1. Next /\ made = Nothing /\ made' = made
    BY <1>3 DEF TransformStep
  <2>2. GroupsKnown' /\ Stable' /\ WholeDistances'
    BY <1>3, <2>1, StepKeepsGroups, StepIsStable, WholeStep DEF LossInv, MeasureInv
  <2> QED BY <1>1, <2>1, <2>2 DEF LossInv
<1>4. CASE /\ NumericCells
           /\ \/ Count \/ CountDistinct \/ Sum
              \/ CreateCountMeasurement \/ CreateCountDistinctMeasurement \/ CreateSumMeasurement
              \/ CreateAverageMeasurement \/ CreateVarianceMeasurement
              \/ CreateQuantileMeasurement \/ CreateBoundsMeasurement
  BY <1>1, <1>4, MeasuredIsCovered, StillInHand DEF LossInv
<1>5. CASE GeometricPartitionSelection \/ CreatePartitionSelectionMeasurement
  BY <1>1, <1>5, SelectionIsWithin, StillInHand DEF LossInv
<1>6. CASE PureDPToRhoZCDP \/ PureDPToApproxDP \/ Composition
  <2>1. Covered(made)'
    BY <1>6, RemakingIsWithin DEF LossInv
  <2>2. \E m : Remake(m)
    BY <1>6 DEF PureDPToRhoZCDP, PureDPToApproxDP, Composition
  <2>3. UNCHANGED vars
    BY <2>2 DEF Remake
  <2> QED BY <1>1, <2>1, <2>3, StillInHand DEF LossInv
<1> QED BY <1>2, <1>3, <1>4, <1>5, <1>6 DEF CarefulStep, MeasureNext

(* The privacy guarantee: at the end of any careful chain of               *)
(* transformations, for any neighbouring tables, bounds that hold a float, *)
(* budgets, scales, thresholds and numbers of groups, every measurement,   *)
(* and what is composed and converted of it, loses no more than its        *)
(* privacy function says (privacy_function of Measurement, Composition and *)
(* the converters), of delta as well.  Pure quantiles are asked for of     *)
(* groups whose distances add up: of groups whose squares do they lose     *)
(* more (QuantilesOfSums).                                                 *)
THEOREM MeasuredLossWithinClaim ==
  ASSUME UserFunctions, PublicRows, UnwrapsRows, BoundsHoldFloats, QuantilesOfSums
  PROVE  MeasureSpec /\ [][CarefulStep]_measureVars => []LossWithinClaim
<1>1. MeasureInit => LossInv
  BY InitialLoss
<1>2. LossInv /\ [MeasureNext]_measureVars /\ [CarefulStep]_measureVars => LossInv'
  BY LossStepKeepsInv
<1>3. LossInv => LossWithinClaim
  <2>1. CASE made = Nothing
    BY <2>1 DEF LossWithinClaim
  <2>2. CASE LossInv /\ made # Nothing
    BY <2>2, CoveredLoses DEF LossInv
  <2> QED BY <2>1, <2>2
<1> QED BY <1>1, <1>2, <1>3, PTL DEF MeasureSpec

-----------------------------------------------------------------------------
(* Measurements that spend what was asked for *)

(* A measurement that claims what was asked for, and no more delta, and    *)
(* one that claims the whole of a budget.                                  *)
AsAsked(m) ==
  /\ DOMAIN m = Fields
  /\ m.claim = m.asked /\ ChanceWithin(m.delta, m.deltaAsked)
Spends(m, q) == AsAsked(m) /\ m.claim = q

(* The scale is calculated from what is asked for, and what the noise      *)
(* claims from the scale.                                                  *)
LEMMA ChangesSpend ==
  ASSUME NEW mech \in Mechanisms, NEW measure \in SupportedMeasures(mech), NEW q \in Exact,
         NEW s \in Nat \ {0}, NEW change
  PROVE  Spends(NoisyChanges(change, s, mech, measure, q), q)
<1> DEFINE scale == NoiseScale(s, q, measure)
           claim == Converted(measure, mech, Spent(mech, s, s * s, scale))
           m == NoisyChanges(change, s, mech, measure, q)
<1>1. claim = q
  BY ScaleSpends DEF Lost
<1>2. PICK loss : m = Measurement(measure, bound, q, claim, loss)
  BY DEF NoisyChanges, Noisy
<1> HIDE DEF claim, m
<1>3. Spends(m, q)
  BY <1>1, <1>2, NothingWithinNothing DEF Measurement, Spends, AsAsked, Fields
<1> QED BY <1>3 DEF m

(* The sum of n copies of a fraction.                                      *)
LEMMA CopiesOfRatio ==
  ASSUME NEW n \in Nat \ {0}, NEW i \in Nat, NEW b \in Nat \ {0}, NEW it, NEW f,
         \A x \in 1 .. n : f[x] = Ratio(i, b), Sums(it, f, 1 .. n)
  PROVE  it[1 .. n] = Ratio(n * i, b)
<1>0. IsFiniteSet(1 .. n) /\ Cardinality(1 .. n) = n /\ n \in Nat
  BY FS_Interval
<1> DEFINE P == {s \in SUBSET (1 .. n) : it[s] = Ratio(Cardinality(s) * i, b)}
<1>1. {} \in P
  <2>1. Cardinality({}) * i = 0
    BY FS_EmptySet
  <2>2. Ratio(0, 1) = Ratio(0, b)
    BY RatiosEqual
  <2>3. it[{}] = Ratio(0, 1)
    BY ExactNumbers DEF Sums
  <2> QED BY <2>1, <2>2, <2>3
<1>2. ASSUME NEW s \in SUBSET (1 .. n), s # {}, s \ {FoldedFirst(s)} \in P
      PROVE  s \in P
  <2> DEFINE x == FoldedFirst(s)
             t == s \ {x}
  <2>1. x \in s /\ it[s] = Plus(f[x], it[t])
    BY <1>2 DEF Sums
  <2>2. f[x] = Ratio(i, b)
    BY <2>1
  <2>3. PICK k \in Nat : k = Cardinality(t) /\ Cardinality(s) = k + 1
    <3>1. IsFiniteSet(s) /\ IsFiniteSet(t)
      BY <1>0, FS_Subset
    <3>2. Cardinality(t) = Cardinality(s) - 1 /\ Cardinality(t) \in Nat /\ Cardinality(s) \in Nat
      BY <2>1, <3>1, FS_RemoveElement, FS_CardinalityType
    <3> QED BY <3>2
  <2>4. it[t] = Ratio(k * i, b)
    BY <1>2, <2>3
  <2>5. Plus(Ratio(i, b), Ratio(k * i, b)) = Ratio(i * b + (k * i) * b, b * b)
    <3>1. k * i \in Nat
      BY <2>3
    <3> QED BY <3>1, PlusRatios
  <2>6. Ratio(i * b + (k * i) * b, b * b) = Ratio((k + 1) * i, b)
    <3>1. (i * b + (k * i) * b) * b = ((k + 1) * i) * (b * b)
          /\ i * b + (k * i) * b \in Nat /\ (k + 1) * i \in Nat /\ b * b \in Nat \ {0}
      <4>1. PICK u \in Nat : u = k * i
        BY <2>3
      <4>2. (k + 1) * i = u + i
        BY <2>3, <4>1
      <4>3. (i * b + u * b) * b = (u + i) * (b * b)
        BY <4>1
      <4>4. i * b + u * b \in Nat /\ b * b \in Nat \ {0} /\ u + i \in Nat
        BY <4>1
      <4> QED BY <4>1, <4>2, <4>3, <4>4
    <3> QED BY <3>1, RatiosEqual
  <2> QED BY <2>1, <2>2, <2>3, <2>4, <2>5, <2>6
<1>3. 1 .. n \in P
  <2>1. IsFiniteSet(1 .. n) /\ n \in Nat
    BY <1>0
  <2> HIDE DEF P
  <2>2. \A s \in SUBSET (1 .. n) : s # {} /\ s \ {FoldedFirst(s)} \in P => s \in P
    BY <1>2
  <2>3. SUBSET (1 .. n) \subseteq P
    BY ONLY <1>1, <2>1, <2>2, FoldInduction
  <2> QED BY <2>3
<1>4. it[1 .. n] = Ratio(n * i, b)
  BY <1>0, <1>3
<1> QED BY <1>4

(* n parts of a budget are the budget.                                     *)
LEMMA PartsAddUp ==
  ASSUME NEW n \in Nat \ {0}, NEW q \in Exact, NEW it, NEW f,
         \A i \in 1 .. n : f[i] = Part(q, n), Sums(it, f, 1 .. n)
  PROVE  it[1 .. n] = q
<1>0. IsFiniteSet(1 .. n) /\ 1 \in 1 .. n /\ Cardinality(1 .. n) = n
  BY FS_Interval, FS_CardinalityType
<1>1. CASE q = Infinity
  <2>1. 1 .. n # {} /\ FoldedFirst(1 .. n) \in 1 .. n
    BY <1>0 DEF Sums
  <2>2. f[FoldedFirst(1 .. n)] = Infinity
    BY <1>1, <2>1 DEF Part
  <2>3. it[1 .. n] = Plus(f[FoldedFirst(1 .. n)], it[(1 .. n) \ {FoldedFirst(1 .. n)}])
    BY <2>1 DEF Sums
  <2> QED BY <1>1, <2>2, <2>3 DEF Plus
<1>2. CASE q # Infinity
  <2>1. PICK i \in Nat, j \in Nat \ {0} : q = Ratio(i, j)
    BY <1>2, ExactIsRatio
  <2>2. Part(q, n) = Ratio(i, j * n) /\ j * n \in Nat \ {0}
    <3>1. Whole(n) = Ratio(n, 1)
      BY ExactNumbers
    <3>2. j \in Nat /\ n \in Nat /\ 1 \in Nat /\ (i # 0 \/ j # 0) /\ (n # 0 \/ 1 # 0)
          /\ (i * 1 # 0 \/ j * n # 0) /\ j * n \in Nat \ {0}
      OBVIOUS
    <3>3. Divided(Ratio(i, j), Ratio(n, 1)) = Ratio(i * 1, j * n)
      BY <3>2, DividedRatios
    <3>4. i * 1 = i
      OBVIOUS
    <3> QED BY <1>2, <2>1, <3>1, <3>2, <3>3, <3>4 DEF Part
  <2>3. PICK b \in Nat \ {0} : b = j * n
    BY <2>2
  <2>7. it[1 .. n] = Ratio(n * i, b)
    <3>1. \A x \in 1 .. n : f[x] = Ratio(i, b)
      BY <2>2, <2>3
    <3> QED BY <3>1, CopiesOfRatio
  <2>8. Ratio(n * i, b) = Ratio(i, j)
    <3>1. (n * i) * j = i * b /\ n * i \in Nat
      BY <2>3
    <3> QED BY <2>1, <2>3, <3>1, RatiosEqual
  <2> QED BY <2>1, <2>7, <2>8
<1> QED BY <1>1, <1>2

(* No more delta is claimed in all than was asked for.                     *)
LEMMA DeltasAddUp ==
  ASSUME NEW n \in Nat, NEW ms, DOMAIN ms = 1 .. n, \A i \in 1 .. n : AsAsked(ms[i])
  PROVE  ChanceWithin(TotalOf(ms, "delta"), TotalOf(ms, "deltaAsked"))
<1>1. \A i \in 1 .. n : /\ ms[i]["delta"] \in Exact /\ ms[i]["deltaAsked"] \in Exact
                        /\ WithinClaim("rho", ms[i]["delta"], ms[i]["deltaAsked"], 1)
  BY DEF AsAsked, ChanceWithin
<1> QED BY <1>1, TotalsWithin DEF ChanceWithin

(* Measurements that spend a budget in equal parts spend it, composed.     *)
LEMMA PartsSpend ==
  ASSUME NEW n \in Nat \ {0}, NEW q \in Exact, NEW ms, DOMAIN ms = 1 .. n,
         \A i \in 1 .. n : Spends(ms[i], Part(q, n))
  PROVE  Spends([Composed(ms) EXCEPT !.asked = q], q)
<1>1. 1 \in 1 .. n /\ n \in Nat
  OBVIOUS
<1>2. DOMAIN ms[1] = Fields
  BY <1>1 DEF Spends, AsAsked
<1> DEFINE m == Composed(ms)
           f == [i \in DOMAIN ms |-> ms[i]["claim"]]
<1>3. DOMAIN m = Fields /\ m.claim = TotalOf(ms, "claim") /\ m.delta = TotalOf(ms, "delta")
      /\ m.deltaAsked = TotalOf(ms, "deltaAsked")
  BY <1>2, ComposedFields
<1>4. \A i \in 1 .. n : ms[i]["claim"] = Part(q, n) /\ AsAsked(ms[i])
  BY DEF Spends
<1>5. ChanceWithin(m.delta, m.deltaAsked)
  BY <1>1, <1>3, <1>4, DeltasAddUp
<1>6. PICK it : Sums(it, f, 1 .. n) /\ it[1 .. n] = TotalOf(ms, "claim")
  BY <1>1, <1>4, PartIsExact, TotalStepwise
<1>7. \A i \in 1 .. n : f[i] = Part(q, n)
  BY <1>4
<1> HIDE DEF f, m
<1>8. m.claim = q
  BY <1>3, <1>6, <1>7, PartsAddUp
<1>9. Spends([m EXCEPT !.asked = q], q)
  BY <1>3, <1>5, <1>8 DEF Spends, AsAsked, Fields
<1> QED BY <1>9 DEF m

(* What a measurement is composed with itself.                             *)
LEMMA CopiesAsAsked ==
  ASSUME NEW n \in Nat \ {0}, NEW ms, DOMAIN ms = 1 .. n, \A i \in 1 .. n : AsAsked(ms[i])
  PROVE  AsAsked(Composed(ms))
<1>1. 1 \in 1 .. n /\ n \in Nat
  OBVIOUS
<1>2. DOMAIN ms[1] = Fields
  BY <1>1 DEF AsAsked
<1>3. \A i \in 1 .. n : ms[i]["claim"] = ms[i]["asked"]
  BY DEF AsAsked
<1>4. ChanceWithin(TotalOf(ms, "delta"), TotalOf(ms, "deltaAsked"))
  BY <1>1, DeltasAddUp
<1>5. TotalOf(ms, "claim") = TotalOf(ms, "asked")
  <2>1. [i \in DOMAIN ms |-> ms[i]["claim"]] = [i \in DOMAIN ms |-> ms[i]["asked"]]
    BY <1>3
  <2> QED BY <2>1 DEF TotalOf
<1> QED BY <1>2, <1>4, <1>5, ComposedFields DEF AsAsked

(* Bounds that differ still do when they are moved to the middle of them,  *)
(* or squared.                                                             *)
LEMMA BoundsStayApart ==
  ASSUME NEW b \in Int \X Int, b[1] < b[2]
  PROVE  /\ Largest(b) \in Nat \ {0}
         /\ SquaredBounds(b) \in Int \X Int /\ SquaredBounds(b)[1] < SquaredBounds(b)[2]
<1>0. b[1] \in Int /\ b[2] \in Int
  OBVIOUS
<1>1. Largest(b) \in Nat \ {0}
  BY <1>0 DEF Largest, Larger, Abs
<1> DEFINE l == b[1] * b[1]
           u == b[2] * b[2]
<1>2. l \in Nat /\ u \in Nat
  BY <1>0
<1>3. b[2] # 0 => u > 0
  BY <1>0
<1>4. b[1] # 0 => l > 0
  BY <1>0
<1>5. b[1] > 0 => l < u
  <2>1. ASSUME b[1] > 0 PROVE l < u
    <3>1. PICK d \in Nat \ {0} : b[2] = b[1] + d
      <4>1. b[2] - b[1] \in Nat \ {0} /\ b[2] = b[1] + (b[2] - b[1])
        BY <1>0
      <4> QED BY <4>1
    <3>2. (b[1] + d) * (b[1] + d) = b[1] * b[1] + 2 * (b[1] * d) + d * d
      BY <1>0, <3>1
    <3>3. b[1] * d > 0 /\ d * d > 0
      BY <1>0, <2>1, <3>1
    <3> QED BY <1>2, <3>1, <3>2, <3>3
  <2> QED BY <2>1
<1>6. b[2] < 0 => u < l
  <2>1. ASSUME b[2] < 0 PROVE u < l
    <3>1. PICK d \in Nat \ {0} : b[1] = b[2] - d
      <4>1. b[2] - b[1] \in Nat \ {0} /\ b[1] = b[2] - (b[2] - b[1])
        BY <1>0
      <4> QED BY <4>1
    <3>2. (b[2] - d) * (b[2] - d) = b[2] * b[2] + 2 * ((-b[2]) * d) + d * d
      BY <1>0, <3>1
    <3>3. (-b[2]) * d > 0 /\ d * d > 0
      BY <1>0, <2>1, <3>1
    <3> QED BY <1>2, <3>1, <3>2, <3>3
  <2> QED BY <2>1
<1> HIDE DEF l, u
<1>7. SquaredBounds(b) = <<IF b[1] <= 0 /\ 0 <= b[2] THEN 0 ELSE Smaller(l, u), Larger(l, u)>>
  BY DEF SquaredBounds, l, u
<1>8. Larger(l, u) \in Int /\ Smaller(l, u) \in Int
      /\ (l # u => Smaller(l, u) < Larger(l, u)) /\ (l > 0 \/ u > 0 => Larger(l, u) > 0)
  BY <1>2 DEF Larger, Smaller
<1>9. CASE b[1] <= 0 /\ 0 <= b[2]
  <2>1. l > 0 \/ u > 0
    BY <1>0, <1>3, <1>4, <1>9
  <2> QED BY <1>1, <1>7, <1>8, <1>9, <2>1
<1>10. CASE b[1] > 0 \/ b[2] < 0
  <2>1. l # u
    BY <1>2, <1>5, <1>6, <1>10
  <2> QED BY <1>0, <1>1, <1>7, <1>8, <1>10, <2>1
<1> QED BY <1>0, <1>9, <1>10

(* The same of moved bounds, whatever the midpoint is rounded to.          *)
LEMMA MovedBoundsApart ==
  ASSUME NEW b \in Int \X Int, b[1] < b[2], NEW kind, NEW one \in Nat \ {0},
         Midpoint(b, kind, one) \in Int
  PROVE  Largest(MovedBounds(b, kind, one)) \in Nat \ {0}
<1>0. b[1] \in Int /\ b[2] \in Int
  OBVIOUS
<1>1. PICK mid \in Int : MovedBounds(b, kind, one) = <<2 * b[1] - mid, 2 * b[2] - mid>>
  BY <1>0 DEF MovedBounds
<1>2. /\ MovedBounds(b, kind, one) \in Int \X Int
      /\ MovedBounds(b, kind, one)[1] < MovedBounds(b, kind, one)[2]
  BY <1>0, <1>1
<1> QED BY <1>2, BoundsStayApart

-----------------------------------------------------------------------------
(* Measurements as asked *)

(* No bounds are equal.  If they are, the deviations from the midpoint are *)
(* 0, noise has the scale 0 and spends nothing, which is not what was      *)
(* asked for.                                                              *)
BoundsDiffer == \A b \in Bounds : b[1] # b[2]

(* A measurement of the numbers of groups, whatever they change by.        *)
ChangeMade(m, s, mech, measure, q) ==
  \E change : m = NoisyChanges(change, s, mech, measure, q)

(* Each of them spends its budget.                                         *)
LEMMA ChangeSpends ==
  ASSUME NEW mech \in Mechanisms, NEW measure \in SupportedMeasures(mech), NEW q \in Exact,
         NEW s \in Nat \ {0}, NEW m, ChangeMade(m, s, mech, measure, q)
  PROVE  Spends(m, q)
<1>1. PICK change : m = NoisyChanges(change, s, mech, measure, q)
  BY DEF ChangeMade
<1> QED BY <1>1, ChangesSpend

LEMMA CountsAreChanges ==
  ASSUME NEW mech, NEW measure, NEW q
  PROVE  /\ ChangeMade(NoisyCount(mech, measure, q), 1, mech, measure, q)
         /\ ChangeMade(NoisyCountDistinct(mech, measure, q), 1, mech, measure, q)
<1>1. ChangeMade(NoisyCount(mech, measure, q), 1, mech, measure, q)
  BY DEF ChangeMade, NoisyCount, NoisyGroups
<1>2. ChangeMade(NoisyCountDistinct(mech, measure, q), 1, mech, measure, q)
  BY DEF ChangeMade, NoisyCountDistinct, NoisyGroups
<1> QED BY <1>1, <1>2

(* How far one row can move the sum of a column's deviations.              *)
LEMMA ColumnSensitivity ==
  ASSUME BoundsDiffer, NEW b \in Bounds, NEW c \in MeasureColumns(b)
  PROVE  /\ Largest(b) \in Nat \ {0}
         /\ Largest(MovedBounds(b, schema[c].kind, Halves)) \in Nat \ {0}
         /\ Largest(MovedBounds(SquaredBounds(b), schema[c].kind, Halves * Halves)) \in Nat \ {0}
<1> DEFINE kind == schema[c].kind
<1>1. b \in Int \X Int /\ b[1] < b[2]
      /\ (kind = "int" => IsMultiple(b[1], 2) /\ IsMultiple(b[2], 2))
  <2>1. b \in Int \X Int /\ b[1] <= b[2] /\ b[1] # b[2]
        /\ (kind = "int" => IsMultiple(b[1], 2) /\ IsMultiple(b[2], 2))
    BY ColumnBounds DEF BoundsDiffer
  <2> HIDE DEF kind
  <2> QED BY <2>1
<1> HIDE DEF kind
<1>2. Halves = 2 /\ Halves * Halves = 4
  BY DEF Halves
<1>3. Midpoint(b, kind, 2) \in Int
  BY <1>1, MovedBoundsHold
<1>4. SquaredBounds(b) \in Int \X Int /\ SquaredBounds(b)[1] < SquaredBounds(b)[2]
  BY <1>1, BoundsStayApart
<1>5. kind = "int" => IsMultiple(SquaredBounds(b)[1], 4) /\ IsMultiple(SquaredBounds(b)[2], 4)
  BY <1>1, SquaredBoundsHold
<1>6. Midpoint(SquaredBounds(b), kind, 4) \in Int
  <2>1. SquaredBounds(b)[1] <= SquaredBounds(b)[2]
    BY <1>4
  <2> QED BY <1>4, <1>5, <2>1, MovedBoundsHold
<1>7. /\ Largest(MovedBounds(b, kind, 2)) \in Nat \ {0}
      /\ Largest(MovedBounds(SquaredBounds(b), kind, 4)) \in Nat \ {0}
  BY <1>1, <1>3, <1>4, <1>6, MovedBoundsApart
<1> QED BY <1>1, <1>2, <1>7, BoundsStayApart DEF kind

(* Two halves, or three thirds, of a budget are spent on an average or a   *)
(* variance.                                                               *)
LEMMA AverageSpends ==
  ASSUME BoundsDiffer, NEW mech \in Mechanisms, NEW measure \in SupportedMeasures(mech),
         NEW q \in Exact, NEW b \in Bounds, NEW c \in MeasureColumns(b)
  PROVE  Spends(NoisyAverage(c, b, mech, measure, q), q)
<1> DEFINE h == Part(q, 2)
           kind == schema[c].kind
           x == NoisyDeviations(LAMBDA r : Num[r[c]], b, kind, Halves, mech, measure, h)
           y == NoisyCount(mech, measure, h)
           ms == <<x, y>>
<1>1. NoisyAverage(c, b, mech, measure, q) = [Composed(ms) EXCEPT !.asked = q]
  BY DEF NoisyAverage, PostProcess
<1>2. h \in Exact
  BY PartIsExact
<1>3. Spends(x, h) /\ Spends(y, h)
  <2>0. ChangeMade(x, Largest(MovedBounds(b, kind, Halves)), mech, measure, h)
    BY DEF ChangeMade, NoisyDeviations, NoisySum, NoisyGroups
  <2>1. ChangeMade(y, 1, mech, measure, h)
    BY CountsAreChanges
  <2>2. Largest(MovedBounds(b, kind, Halves)) \in Nat \ {0}
    BY ColumnSensitivity
  <2> HIDE DEF x, y, h, kind
  <2> QED BY <1>2, <2>0, <2>1, <2>2, ChangeSpends
<1> HIDE DEF x, y
<1>4. DOMAIN ms = 1 .. 2 /\ ms[1] = x /\ ms[2] = y
  OBVIOUS
<1>5. \A i \in 1 .. 2 : i = 1 \/ i = 2
  OBVIOUS
<1> HIDE DEF ms
<1>6. \A i \in 1 .. 2 : Spends(ms[i], Part(q, 2))
  BY <1>3, <1>4, <1>5
<1>7. PICK n \in Nat \ {0} : n = 2
  OBVIOUS
<1>8. DOMAIN ms = 1 .. n /\ \A i \in 1 .. n : Spends(ms[i], Part(q, n))
  BY <1>4, <1>6, <1>7
<1> QED BY <1>1, <1>8, PartsSpend

LEMMA VarianceSpends ==
  ASSUME BoundsDiffer, NEW mech \in Mechanisms, NEW measure \in SupportedMeasures(mech),
         NEW q \in Exact, NEW b \in Bounds, NEW c \in MeasureColumns(b)
  PROVE  Spends(NoisyStandardDeviation(c, b, mech, measure, q), q)
<1> DEFINE h == Part(q, 3)
           kind == schema[c].kind
           x == NoisyDeviations(LAMBDA r : Num[r[c]], b, kind, Halves, mech, measure, h)
           y == NoisyDeviations(LAMBDA r : Num[r[c]] * Num[r[c]], SquaredBounds(b), kind,
                                Halves * Halves, mech, measure, h)
           z == NoisyCount(mech, measure, h)
           ms == <<x, y, z>>
<1>1. NoisyStandardDeviation(c, b, mech, measure, q) = [Composed(ms) EXCEPT !.asked = q]
  BY DEF NoisyStandardDeviation, NoisyVariance, PostProcess
<1>2. h \in Exact
  BY PartIsExact
<1>3. Spends(x, h) /\ Spends(y, h) /\ Spends(z, h)
  <2>0. ChangeMade(x, Largest(MovedBounds(b, kind, Halves)), mech, measure, h)
    BY DEF ChangeMade, NoisyDeviations, NoisySum, NoisyGroups
  <2>1. ChangeMade(z, 1, mech, measure, h)
    BY CountsAreChanges
  <2>2. ChangeMade(y, Largest(MovedBounds(SquaredBounds(b), kind, Halves * Halves)),
                   mech, measure, h)
    BY DEF ChangeMade, NoisyDeviations, NoisySum, NoisyGroups
  <2>3. Largest(MovedBounds(b, kind, Halves)) \in Nat \ {0}
        /\ Largest(MovedBounds(SquaredBounds(b), kind, Halves * Halves)) \in Nat \ {0}
    BY ColumnSensitivity
  <2> HIDE DEF x, y, z, h, kind
  <2> QED BY <1>2, <2>0, <2>1, <2>2, <2>3, ChangeSpends
<1> HIDE DEF x, y, z
<1>4. DOMAIN ms = 1 .. 3 /\ ms[1] = x /\ ms[2] = y /\ ms[3] = z
  OBVIOUS
<1>5. \A i \in 1 .. 3 : i = 1 \/ i = 2 \/ i = 3
  OBVIOUS
<1> HIDE DEF ms
<1>6. \A i \in 1 .. 3 : Spends(ms[i], Part(q, 3))
  BY <1>3, <1>4, <1>5
<1>7. PICK n \in Nat \ {0} : n = 3
  OBVIOUS
<1>8. DOMAIN ms = 1 .. n /\ \A i \in 1 .. n : Spends(ms[i], Part(q, n))
  BY <1>4, <1>6, <1>7
<1> QED BY <1>1, <1>8, PartsSpend

(* The inductive invariant: as ClaimAsAsked, and distances are those that  *)
(* a delta can be asked for at.                                            *)
AskedInv == MeasureInv /\ WholeDistances /\ (made # Nothing => AsAsked(made))

LEMMA MakesAsAsked ==
  ASSUME NEW m, Make(m) \/ Remake(m), AsAsked(m)
  PROVE  AsAsked(made)'
BY DEF Make, Remake, AsAsked

(* Each way of making a measurement makes one that claims what was asked   *)
(* for.                                                                    *)
LEMMA NumberAsAsked ==
  ASSUME NEW kind, NEW s, NEW change, ScaledNoise(kind, s, change)
  PROVE  AsAsked(made)'
<1>1. PICK mech \in Mechanisms, scale \in Scales : \E measure \in SupportedMeasures(mech) :
        Number(measure, mech, scale, s, change)
  BY DEF ScaledNoise
<1>2. PICK measure \in SupportedMeasures(mech) : Number(measure, mech, scale, s, change)
  BY <1>1
<1> DEFINE m == Noisy(measure, mech, Squared(scale), s, Zero, Abs(change), change * change)
           n == [m EXCEPT !.asked = m.claim]
<1>3. Make(n)
  BY <1>2 DEF Number
<1>4. \E claim, loss : m = Measurement(measure, bound, Zero, claim, loss)
  BY DEF Noisy
<1> HIDE DEF m
<1>5. AsAsked(n)
  BY <1>4, NothingWithinNothing DEF AsAsked, Measurement, Fields
<1> HIDE DEF n
<1> QED BY <1>3, <1>5, MakesAsAsked

LEMMA GroupsAsAsked ==
  ASSUME BoundsDiffer,
         CreateCountMeasurement \/ CreateCountDistinctMeasurement \/ CreateSumMeasurement
  PROVE  AsAsked(made)'
<1>0. 1 \in Nat \ {0} /\ \A q \in Budgets : q \in Exact
  BY NumbersAssumption, NumbersAreExact
<1>1. CASE CreateCountMeasurement
  <2>1. PICK mech \in Mechanisms, q \in Budgets : \E measure \in SupportedMeasures(mech) :
          Make(NoisyCount(mech, measure, q))
    BY <1>1 DEF CreateCountMeasurement
  <2>2. PICK measure \in SupportedMeasures(mech) : Make(NoisyCount(mech, measure, q))
    BY <2>1
  <2>3. Spends(NoisyCount(mech, measure, q), q)
    BY <1>0, CountsAreChanges, ChangeSpends
  <2> QED BY <2>2, <2>3, MakesAsAsked DEF Spends
<1>2. CASE CreateCountDistinctMeasurement
  <2>1. PICK mech \in Mechanisms, q \in Budgets : \E measure \in SupportedMeasures(mech) :
          Make(NoisyCountDistinct(mech, measure, q))
    BY <1>2 DEF CreateCountDistinctMeasurement
  <2>2. PICK measure \in SupportedMeasures(mech) : Make(NoisyCountDistinct(mech, measure, q))
    BY <2>1
  <2>3. Spends(NoisyCountDistinct(mech, measure, q), q)
    BY <1>0, CountsAreChanges, ChangeSpends
  <2> QED BY <2>2, <2>3, MakesAsAsked DEF Spends
<1>3. CASE CreateSumMeasurement
  <2>1. PICK mech \in Mechanisms, q \in Budgets, b \in Bounds :
          \E measure \in SupportedMeasures(mech), c \in MeasureColumns(b) :
            Make(NoisySum(LAMBDA r : Num[r[c]], b, Halves, mech, measure, q))
    BY <1>3 DEF CreateSumMeasurement
  <2>2. PICK measure \in SupportedMeasures(mech), c \in MeasureColumns(b) :
          Make(NoisySum(LAMBDA r : Num[r[c]], b, Halves, mech, measure, q))
    BY <2>1
  <2> DEFINE m == NoisySum(LAMBDA r : Num[r[c]], b, Halves, mech, measure, q)
  <2>0. ChangeMade(m, Largest(b), mech, measure, q)
    BY DEF ChangeMade, NoisySum, NoisyGroups
  <2>3. Make(m)
    BY <2>2
  <2>4. Largest(b) \in Nat \ {0}
    BY ColumnSensitivity
  <2> HIDE DEF m
  <2>5. Spends(m, q)
    BY <1>0, <2>0, <2>4, ChangeSpends
  <2> QED BY <2>3, <2>5, MakesAsAsked DEF Spends
<1> QED BY <1>1, <1>2, <1>3

LEMMA AveragesAsAsked ==
  ASSUME BoundsDiffer, CreateAverageMeasurement \/ CreateVarianceMeasurement
  PROVE  AsAsked(made)'
<1>0. \A q \in Budgets : q \in Exact
  BY NumbersAssumption, NumbersAreExact
<1>1. CASE CreateAverageMeasurement
  <2>1. PICK mech \in Mechanisms, q \in Budgets, b \in Bounds :
          \E measure \in SupportedMeasures(mech), c \in MeasureColumns(b) :
            Make(NoisyAverage(c, b, mech, measure, q))
    BY <1>1 DEF CreateAverageMeasurement
  <2>2. PICK measure \in SupportedMeasures(mech), c \in MeasureColumns(b) :
          Make(NoisyAverage(c, b, mech, measure, q))
    BY <2>1
  <2>3. Spends(NoisyAverage(c, b, mech, measure, q), q)
    BY <1>0, AverageSpends
  <2> QED BY <2>2, <2>3, MakesAsAsked DEF Spends
<1>2. CASE CreateVarianceMeasurement
  <2>1. PICK mech \in Mechanisms, q \in Budgets, b \in Bounds :
          \E measure \in SupportedMeasures(mech), c \in MeasureColumns(b) :
            Make(NoisyStandardDeviation(c, b, mech, measure, q))
    BY <1>2 DEF CreateVarianceMeasurement
  <2>2. PICK measure \in SupportedMeasures(mech), c \in MeasureColumns(b) :
          Make(NoisyStandardDeviation(c, b, mech, measure, q))
    BY <2>1
  <2>3. Spends(NoisyStandardDeviation(c, b, mech, measure, q), q)
    BY <1>0, VarianceSpends
  <2> QED BY <2>2, <2>3, MakesAsAsked DEF Spends
<1> QED BY <1>1, <1>2

LEMMA QuantileAsAsked ==
  ASSUME CreateQuantileMeasurement
  PROVE  AsAsked(made)'
<1>1. PICK q \in Budgets, b \in Bounds, quantile \in Quantiles, measure \in Measures :
        \E c : Make(NoisyQuantile(c, b, quantile, measure, q))
  BY DEF CreateQuantileMeasurement, Measures
<1>2. PICK c : Make(NoisyQuantile(c, b, quantile, measure, q))
  BY <1>1
<1> DEFINE s == 2 * QuantileSensitivity(quantile)
           mech == IF measure = "rho" THEN "gaussian" ELSE "laplace"
           m == NoisyQuantile(c, b, quantile, measure, q)
<1>3. ChangeMade(m, s, mech, measure, q)
  BY DEF ChangeMade, NoisyQuantile, PostProcess
<1>4. s \in Nat \ {0}
  <2>1. quantile[1] \in Nat /\ quantile[2] \in Nat \ {0} /\ quantile[1] <= quantile[2]
    BY NumbersAssumption
  <2>2. QuantileSensitivity(quantile) \in Nat \ {0}
    BY <2>1 DEF QuantileSensitivity, Larger
  <2> QED BY <2>2
<1>5. mech \in Mechanisms /\ measure \in SupportedMeasures(mech)
  BY DEF Mechanisms, PureMechanisms, SupportedMeasures, Measures
<1>6. q \in Exact
  BY NumbersAssumption, NumbersAreExact
<1>7. Make(m)
  BY <1>2
<1> HIDE DEF s, mech, m
<1>8. Spends(m, q)
  BY <1>3, <1>4, <1>5, <1>6, ChangeSpends
<1> QED BY <1>7, <1>8, MakesAsAsked DEF Spends

LEMMA BoundsAsAsked ==
  ASSUME CreateBoundsMeasurement
  PROVE  AsAsked(made)'
<1>1. PICK q \in Budgets \ {Zero}, K \in SUBSET DOMAIN schema, fraction \in Fractions,
           measure \in Measures :
        \E c : \E values : Make(NoisyBounds(c, K, values, fraction, measure, q))
  BY DEF CreateBoundsMeasurement, Measures
<1>2. PICK c, values : Make(NoisyBounds(c, K, values, fraction, measure, q))
  BY <1>1
<1> DEFINE m == NoisyBounds(c, K, values, fraction, measure, q)
<1>3. PICK change, apart :
        m = [NoisyChanges(change, SparseVectorEpsilon, "geometric", measure, q)
              EXCEPT !.apart = apart]
  BY DEF NoisyBounds, PostProcess
<1> DEFINE n == NoisyChanges(change, SparseVectorEpsilon, "geometric", measure, q)
<1>4. Spends(n, q)
  <2>1. q \in Exact
    BY NumbersAssumption, NumbersAreExact
  <2>2. "geometric" \in Mechanisms /\ measure \in SupportedMeasures("geometric")
    BY DEF Mechanisms, PureMechanisms, SupportedMeasures, Measures
  <2>3. SparseVectorEpsilon \in Nat \ {0}
    BY DEF SparseVectorEpsilon
  <2> QED BY <2>1, <2>2, <2>3, ChangesSpend
<1>5. Make(m)
  BY <1>2
<1>6. m = [n EXCEPT !.apart = apart]
  BY <1>3
<1> HIDE DEF m, n
<1>7. AsAsked(m)
  BY <1>4, <1>6 DEF Spends, AsAsked, Fields
<1> QED BY <1>5, <1>7, MakesAsAsked

LEMMA RemakingAsAsked ==
  ASSUME AskedInv, PureDPToRhoZCDP \/ PureDPToApproxDP \/ Composition
  PROVE  AsAsked(made)'
<1>1. CASE PureDPToRhoZCDP
  <2> DEFINE rho(eps) == Divided(Squared(eps), Whole(2))
             m == [made EXCEPT !.measure = "rho", !.claim = rho(made.claim),
                               !.asked = rho(made.asked), !.loss = rho(made.loss)]
  <2>1. Remake(m)
    BY <1>1 DEF PureDPToRhoZCDP
  <2>2. AsAsked(made)
    BY <2>1 DEF Remake, AskedInv
  <2> HIDE DEF rho
  <2>3. AsAsked(m)
    BY <2>2 DEF AsAsked, Fields
  <2> HIDE DEF m
  <2> QED BY <2>1, <2>3, MakesAsAsked
<1>2. CASE PureDPToApproxDP
  <2> DEFINE m == [made EXCEPT !.measure = "approx"]
  <2>1. Remake(m)
    BY <1>2 DEF PureDPToApproxDP
  <2>2. AsAsked(made)
    BY <2>1 DEF Remake, AskedInv
  <2>3. AsAsked(m)
    BY <2>2 DEF AsAsked, Fields
  <2> HIDE DEF m
  <2> QED BY <2>1, <2>3, MakesAsAsked
<1>3. CASE Composition
  <2>1. PICK n \in 2 .. MaxParts \div made.parts : Remake(Composed([i \in 1 .. n |-> made]))
    BY <1>3 DEF Composition
  <2> DEFINE ms == [i \in 1 .. n |-> made]
  <2>2. AsAsked(made)
    BY <1>3 DEF Composition, AskedInv
  <2>3. n \in Nat \ {0}
    BY <2>1
  <2>4. DOMAIN ms = 1 .. n /\ (\A i \in 1 .. n : ms[i] = made) /\ Remake(Composed(ms))
    BY <2>1
  <2> HIDE DEF ms
  <2>5. \A i \in 1 .. n : AsAsked(ms[i])
    BY <2>2, <2>4
  <2> QED BY <2>3, <2>4, <2>5, CopiesAsAsked, MakesAsAsked
<1> QED BY <1>1, <1>2, <1>3

(* Partition selection claims what was asked for.                          *)
LEMMA SelectionAsAsked ==
  ASSUME MeasureInv, WholeDistances,
         GeometricPartitionSelection \/ CreatePartitionSelectionMeasurement
  PROVE  AsAsked(made)'
<1>1. bound \in Nat \ {0}
  BY SelectionsMade
<1>2. PICK threshold \in Int : \E deltaAsked :
        LET m == Selected(threshold, Whole(1), deltaAsked)
        IN /\ Make(m) /\ m.claim = m.asked /\ m.deltaAsked = deltaAsked
           /\ ChanceWithin(m.delta, deltaAsked)
  BY SelectionsMade
<1>3. PICK deltaAsked :
        LET m == Selected(threshold, Whole(1), deltaAsked)
        IN /\ Make(m) /\ m.claim = m.asked /\ m.deltaAsked = deltaAsked
           /\ ChanceWithin(m.delta, deltaAsked)
  BY <1>2
<1> DEFINE m == Selected(threshold, Whole(1), deltaAsked)
<1>4. IsMade(m)
  BY <1>1, SelectedIsMade
<1>5. Make(m) /\ m.claim = m.asked /\ ChanceWithin(m.delta, m.deltaAsked)
  BY <1>3
<1> HIDE DEF m
<1>6. AsAsked(m)
  BY <1>4, <1>5 DEF AsAsked, IsMade
<1> QED BY <1>5, <1>6, MakesAsAsked

(* Measuring leaves the tables alone.                                      *)
LEMMA MeasuringKeepsTables ==
  ASSUME [MeasureNext]_measureVars, ~ TransformStep
  PROVE  UNCHANGED vars
<1>1. CASE UNCHANGED measureVars
  BY <1>1 DEF measureVars, vars
<1>2. CASE \E m : Make(m)
  BY <1>2 DEF Make
<1>3. CASE \E m : Remake(m)
  BY <1>3 DEF Remake
<1>4. CASE Count \/ CountDistinct \/ Sum
  <2>1. PICK kind, s, change : ScaledNoise(kind, s, change)
    BY <1>4 DEF Count, CountDistinct, Sum
  <2>2. \E m : Make(m)
    BY <2>1 DEF ScaledNoise, Number
  <2> QED BY <1>2, <2>2
<1>5. CASE \/ CreateCountMeasurement \/ CreateCountDistinctMeasurement \/ CreateSumMeasurement
           \/ CreateAverageMeasurement \/ CreateVarianceMeasurement
  BY <1>2, <1>5 DEF CreateCountMeasurement, CreateCountDistinctMeasurement, CreateSumMeasurement,
     CreateAverageMeasurement, CreateVarianceMeasurement
<1>6. CASE CreateQuantileMeasurement \/ CreateBoundsMeasurement
  BY <1>2, <1>6 DEF CreateQuantileMeasurement, CreateBoundsMeasurement
<1>7. CASE GeometricPartitionSelection \/ CreatePartitionSelectionMeasurement
  BY <1>2, <1>7 DEF GeometricPartitionSelection, CreatePartitionSelectionMeasurement
<1>8. CASE PureDPToRhoZCDP \/ PureDPToApproxDP \/ Composition
  BY <1>3, <1>8 DEF PureDPToRhoZCDP, PureDPToApproxDP, Composition
<1> QED BY <1>1, <1>4, <1>5, <1>6, <1>7, <1>8 DEF MeasureNext

(* AskedInv is inductive.                                                  *)
LEMMA AskedStepKeepsInv ==
  ASSUME UserFunctions, BoundsDiffer, AskedInv, [MeasureNext]_measureVars
  PROVE  AskedInv'
<1>1. MeasureInv'
  BY MeasureStepKeepsInv DEF AskedInv
<1>2. WholeDistances'
  <2>1. CASE TransformStep
    BY <2>1, WholeStep DEF TransformStep, AskedInv, MeasureInv
  <2>2. CASE ~ TransformStep
    <3>1. UNCHANGED <<metric, bound>>
      BY <2>2, MeasuringKeepsTables DEF vars
    <3> QED BY <3>1 DEF AskedInv, WholeDistances, IsSquare
  <2> QED BY <2>1, <2>2
<1>3. CASE UNCHANGED measureVars \/ TransformStep
  <2>1. made' = made
    BY <1>3 DEF measureVars, TransformStep
  <2> QED BY <1>1, <1>2, <2>1 DEF AskedInv, AsAsked
<1>4. CASE Count \/ CountDistinct \/ Sum
  <2>1. PICK kind, s, change : ScaledNoise(kind, s, change)
    BY <1>4 DEF Count, CountDistinct, Sum
  <2> QED BY <1>1, <1>2, <2>1, NumberAsAsked DEF AskedInv
<1>5. CASE GeometricPartitionSelection \/ CreatePartitionSelectionMeasurement
  BY <1>1, <1>2, <1>5, SelectionAsAsked DEF AskedInv
<1> QED
  BY <1>1, <1>2, <1>3, <1>4, <1>5, GroupsAsAsked, AveragesAsAsked, QuantileAsAsked, BoundsAsAsked,
     RemakingAsAsked DEF MeasureNext, AskedInv

(* A measurement that is made for a d_out spends it: it claims the epsilon *)
(* or rho that was asked for, however that is split over what it is        *)
(* composed of, and at most the delta (assert privacy_function(d_in) ==    *)
(* d_out of aggregations.py; the threshold of partition selection is the   *)
(* least that does, create_partition_selection_measurement), if bounds     *)
(* differ.                                                                 *)
THEOREM MeasuredAsAsked ==
  ASSUME UserFunctions, BoundsDiffer
  PROVE  MeasureSpec => []ClaimAsAsked
<1>1. MeasureInit => AskedInv
  BY InitialTables, InitialWhole DEF MeasureInit, AskedInv, MeasureInv
<1>2. AskedInv /\ [MeasureNext]_measureVars => AskedInv'
  BY AskedStepKeepsInv
<1>3. AskedInv => ClaimAsAsked
  BY ChanceAtMost DEF AskedInv, AsAsked, ClaimAsAsked
<1> QED BY <1>1, <1>2, <1>3, PTL DEF MeasureSpec
=============================================================================
