----------------------------- MODULE TableProofs -----------------------------
(***************************************************************************)
(* Proofs about tables and the chains of transformations over them.        *)
(***************************************************************************)
EXTENDS TableDictionaries, InductionTheorems, FunctionTheorems

-----------------------------------------------------------------------------
(* Tables *)

LEMMA FiniteRange ==
  ASSUME NEW f, IsFiniteSet(DOMAIN f)
  PROVE  IsFiniteSet(Range(f))
<1> DEFINE g == [x \in DOMAIN f |-> f[x]]
<1>1. g \in Surjection(DOMAIN f, Range(f))
  BY DEF Surjection, Range
<1> QED BY <1>1, FS_Surjection

LEMMA CopiesOfTable ==
  ASSUME NEW T, IsTable(T)
  PROVE  /\ IsFiniteSet(Copies(T))
         /\ NumRows(T) \in Nat
         /\ \A x : x \in Copies(T) <=> \E r \in DOMAIN T : \E i \in 1 .. T[r] : x = <<r, i>>
         /\ \A x \in Copies(T) : x[1] \in DOMAIN T
         /\ \A r \in DOMAIN T : <<r, 1>> \in Copies(T)
<1>1. IsFiniteSet(DOMAIN T) /\ \A r \in DOMAIN T : T[r] \in Nat /\ T[r] > 0
  BY DEF IsTable, IsABag, BagToSet
<1>2. \A x : x \in Copies(T) <=> \E r \in DOMAIN T : \E i \in 1 .. T[r] : x = <<r, i>>
  BY DEF Copies, BagToSet
<1>3. IsFiniteSet(Copies(T))
  <2> DEFINE of == [r \in DOMAIN T |-> {r} \X (1 .. T[r])]
             S == {of[r] : r \in DOMAIN T}
  <2>1. IsFiniteSet(S)
    <3> HIDE DEF of
    <3>1. S = Range(of) /\ DOMAIN of = DOMAIN T
      BY DEF of, Range
    <3> QED BY <1>1, <3>1, FiniteRange
  <2>2. \A r \in DOMAIN T : IsFiniteSet({r} \X (1 .. T[r]))
    <3> SUFFICES ASSUME NEW r \in DOMAIN T PROVE IsFiniteSet({r} \X (1 .. T[r]))
      OBVIOUS
    <3>1. IsFiniteSet(1 .. T[r])
      BY <1>1, FS_Interval
    <3> DEFINE g == [i \in 1 .. T[r] |-> <<r, i>>]
    <3>2. Range(g) = {r} \X (1 .. T[r])
      BY DEF Range
    <3> QED BY <3>1, <3>2, FiniteRange
  <2>3. Copies(T) = UNION S
    BY DEF Copies, BagToSet
  <2>4. \A s \in S : IsFiniteSet(s)
    BY <2>2
  <2> HIDE DEF S
  <2> QED BY <2>1, <2>3, <2>4, FS_UNION
<1>4. NumRows(T) \in Nat
  BY <1>3, FS_CardinalityType DEF NumRows
<1>5. \A r \in DOMAIN T : <<r, 1>> \in Copies(T)
  BY <1>1, <1>2
<1> QED BY <1>2, <1>3, <1>4, <1>5

LEMMA TallyIsTable ==
  ASSUME NEW f, IsFiniteSet(DOMAIN f)
  PROVE  IsTable(Tally(f)) /\ DOMAIN Tally(f) = Range(f)
<1>1. DOMAIN Tally(f) = Range(f)
  BY DEF Tally
<1>2. IsFiniteSet(Range(f))
  BY FiniteRange
<1>3. \A x \in Range(f) : Tally(f)[x] \in {n \in Nat : n > 0}
  <2> SUFFICES ASSUME NEW x \in Range(f)
               PROVE  Cardinality({y \in DOMAIN f : f[y] = x}) \in {n \in Nat : n > 0}
    BY DEF Tally
  <2> DEFINE S == {y \in DOMAIN f : f[y] = x}
  <2>1. S # {}
    BY DEF Range
  <2>2. IsFiniteSet(S)
    BY FS_Subset
  <2>3. Cardinality(S) \in Nat /\ Cardinality(S) # 0
    BY <2>1, <2>2, FS_CardinalityType, FS_EmptySet
  <2> QED BY <2>3
<1>4. Tally(f) \in [DOMAIN Tally(f) -> {n \in Nat : n > 0}]
  BY <1>1, <1>3 DEF Tally
<1> QED BY <1>1, <1>2, <1>4 DEF IsTable, IsABag, BagToSet
(* A table of rows of a schema.                                            *)
Legal(T, s) == IsTable(T) /\ InDomain(T, s)

LEMMA LegalRow ==
  ASSUME NEW T, NEW s, Legal(T, s), NEW r \in DOMAIN T
  PROVE  ValidRow(r, s)
BY DEF Legal, InDomain, BagToSet

LEMMA TallyIsLegal ==
  ASSUME NEW f, IsFiniteSet(DOMAIN f), NEW s,
         \A y \in DOMAIN f : ValidRow(f[y], s)
  PROVE  Legal(Tally(f), s)
BY TallyIsTable DEF Legal, InDomain, BagToSet, Range

LEMMA RestrictIsTable ==
  ASSUME NEW T, IsTable(T), NEW R \in SUBSET DOMAIN T
  PROVE  IsTable(Restrict(T, R)) /\ DOMAIN Restrict(T, R) = R
<1>1. /\ DOMAIN Restrict(T, R) = R
      /\ \A r \in R : Restrict(T, R)[r] = T[r] /\ T[r] \in {n \in Nat : n > 0}
  BY DEF IsTable, IsABag, Restrict
<1>2. IsFiniteSet(R)
  BY FS_Subset DEF IsTable, BagToSet
<1> QED BY <1>1, <1>2 DEF IsTable, IsABag, BagToSet, Restrict

LEMMA RestrictIsLegal ==
  ASSUME NEW T, IsTable(T), NEW R \in SUBSET DOMAIN T, NEW s,
         \A r \in R : ValidRow(r, s)
  PROVE  Legal(Restrict(T, R), s)
BY RestrictIsTable DEF Legal, InDomain, BagToSet

LEMMA SetToBagIsLegal ==
  ASSUME NEW R, IsFiniteSet(R), NEW s, \A r \in R : ValidRow(r, s)
  PROVE  Legal(SetToBag(R), s)
BY DEF Legal, InDomain, BagToSet, SetToBag, IsTable, IsABag

(* The copies that Flattened counts: of the rows that the copies of T      *)
(* become.                                                                 *)
Flat(T, B) == UNION {{y} \X Copies(B[y[1]]) : y \in Copies(T)}

LEMMA FlatCopies ==
  ASSUME NEW T, IsTable(T), NEW B, \A r \in DOMAIN T : IsTable(B[r])
  PROVE  /\ IsFiniteSet(Flat(T, B))
         /\ Flattened(T, B) = Tally([x \in Flat(T, B) |-> x[2][1]])
         /\ \A x : x \in Flat(T, B) <=>
                     \E y \in Copies(T) : \E z \in Copies(B[y[1]]) : x = <<y, z>>
         /\ \A x \in Flat(T, B) : /\ x[1] \in Copies(T)
                                  /\ x[1][1] \in DOMAIN T
                                  /\ x[2] \in Copies(B[x[1][1]])
                                  /\ x[2][1] \in DOMAIN B[x[1][1]]
<1> DEFINE of == [y \in Copies(T) |-> {y} \X Copies(B[y[1]])]
<1>1. IsFiniteSet(Copies(T)) /\ \A y \in Copies(T) : y[1] \in DOMAIN T
  BY CopiesOfTable
<1>2. \A r \in DOMAIN T : /\ IsFiniteSet(Copies(B[r]))
                         /\ \A z \in Copies(B[r]) : z[1] \in DOMAIN B[r]
  BY CopiesOfTable
<1>3. \A y \in Copies(T) : IsFiniteSet({y} \X Copies(B[y[1]]))
  <2> SUFFICES ASSUME NEW y \in Copies(T) PROVE IsFiniteSet({y} \X Copies(B[y[1]]))
    OBVIOUS
  <2> DEFINE g == [z \in Copies(B[y[1]]) |-> <<y, z>>]
  <2>1. Range(g) = {y} \X Copies(B[y[1]])
    BY DEF Range
  <2> QED BY <1>1, <1>2, <2>1, FiniteRange
<1>4. Flat(T, B) = UNION Range(of)
  BY DEF Flat, Range
<1>5. IsFiniteSet(Range(of)) /\ \A s \in Range(of) : IsFiniteSet(s)
  <2>1. \A s \in Range(of) : IsFiniteSet(s)
    BY <1>3 DEF Range
  <2>2. DOMAIN of = Copies(T)
    OBVIOUS
  <2> HIDE DEF of
  <2> QED BY <1>1, <2>1, <2>2, FiniteRange
<1>6. IsFiniteSet(Flat(T, B))
  <2> HIDE DEF of
  <2> QED BY <1>4, <1>5, FS_UNION
<1>7. \A x : x \in Flat(T, B) <=>
               \E y \in Copies(T) : \E z \in Copies(B[y[1]]) : x = <<y, z>>
  BY DEF Flat
<1>8. \A x \in Flat(T, B) : /\ x[1] \in Copies(T)
                            /\ x[1][1] \in DOMAIN T
                            /\ x[2] \in Copies(B[x[1][1]])
                            /\ x[2][1] \in DOMAIN B[x[1][1]]
  <2> SUFFICES ASSUME NEW y \in Copies(T), NEW z \in Copies(B[y[1]])
               PROVE  y[1] \in DOMAIN T /\ z[1] \in DOMAIN B[y[1]]
    BY <1>7
  <2> QED BY <1>1, <1>2
<1>9. Flattened(T, B) = Tally([x \in Flat(T, B) |-> x[2][1]])
  BY DEF Flattened, Flat
<1> QED BY <1>6, <1>7, <1>8, <1>9

LEMMA FlattenedIsLegal ==
  ASSUME NEW T, IsTable(T), NEW B, NEW s, \A r \in DOMAIN T : Legal(B[r], s)
  PROVE  Legal(Flattened(T, B), s)
<1> DEFINE f == [x \in Flat(T, B) |-> x[2][1]]
<1>1. \A r \in DOMAIN T : IsTable(B[r])
  BY DEF Legal
<1>2. /\ IsFiniteSet(Flat(T, B))
      /\ Flattened(T, B) = Tally(f)
      /\ \A x \in Flat(T, B) : x[1][1] \in DOMAIN T /\ x[2][1] \in DOMAIN B[x[1][1]]
  BY <1>1, FlatCopies
<1>3. \A x \in Flat(T, B) : ValidRow(x[2][1], s)
  BY <1>2, LegalRow
<1>4. DOMAIN f = Flat(T, B) /\ \A x \in DOMAIN f : ValidRow(f[x], s)
  BY <1>3
<1> HIDE DEF f
<1> QED BY <1>2, <1>4, TallyIsLegal

-----------------------------------------------------------------------------
(* Chains *)

(* User functions pass the check of what they return, for whatever they    *)
(* are given: one that does not raises, and there is no table to say       *)
(* anything about.  The values of a unique column are no specials.         *)
UserFunctions ==
  /\ \A t \in RowTransformers : \A r : RowsAsAnnounced(t, r)
  /\ \A t \in GroupTransformers : \A T : IsTable(T) => GroupAsAnnounced(t, T)
  /\ \A x : ToString(x) \notin Special

TableInv ==
  /\ TypeOK /\ DomainClosed
  /\ IsSchema(schema) /\ IsMetric(metric)

Chained(l, r, s, m, d) == Announce(s, m, d) /\ left' = One(l) /\ right' = One(r)

LEMMA InHandIsLegal ==
  ASSUME TableInv, metric.over = "table"
  PROVE  Legal(left[<<>>], schema) /\ Legal(right[<<>>], schema)
BY DEF TableInv, TypeOK, DomainClosed, Legal

LEMMA ChainedKeepsInv ==
  ASSUME TableInv, NEW l, NEW r, NEW s, NEW m, NEW d, Chained(l, r, s, m, d),
         Legal(l, s), Legal(r, s), IsSchema(s), IsMetric(m),
         d \in Nat \cup {Infinite}
  PROVE  TableInv'
<1>1. /\ schema' = s /\ metric' = m /\ bound' = d /\ steps' = steps + 1
      /\ steps < MaxSteps /\ SupportsDomain(m, s)
      /\ left' = One(l) /\ right' = One(r)
  BY DEF Chained, Announce
<1>2. /\ DOMAIN left' = {<<>>} /\ DOMAIN right' = {<<>>}
      /\ left'[<<>>] = l /\ right'[<<>>] = r
  BY <1>1 DEF One
<1>3. steps' \in 0 .. MaxSteps
  BY <1>1, BoundsAssumption DEF TableInv, TypeOK
<1>4. TypeOK'
  BY <1>1, <1>2, <1>3 DEF TypeOK, Legal
<1>5. DomainClosed'
  BY <1>1, <1>2 DEF DomainClosed, Legal
<1> QED BY <1>1, <1>4, <1>5 DEF TableInv

LEMMA FilterKeepsInv ==
  ASSUME TableInv, Filter
  PROVE  TableInv'
<1>1. PICK c \in DOMAIN schema, v \in Cells :
        Chained(Restrict(left[<<>>], {r \in DOMAIN left[<<>>] : r[c] = v}),
                Restrict(right[<<>>], {r \in DOMAIN right[<<>>] : r[c] = v}),
                schema, metric, bound)
  BY DEF Filter, Chain, ChainParts, Where, RestrictDomain, Chained
<1>2. metric.over = "table"
  BY <1>1 DEF Chained, Announce
<1>3. ASSUME NEW T, Legal(T, schema)
      PROVE  Legal(Restrict(T, {r \in DOMAIN T : r[c] = v}), schema)
  BY <1>3, RestrictIsLegal, LegalRow DEF Legal
<1> QED
  BY <1>1, <1>2, <1>3, InHandIsLegal, ChainedKeepsInv DEF TableInv, TypeOK

LEMMA CopyIsValid ==
  ASSUME NEW T, NEW s, Legal(T, s)
  PROVE  IsFiniteSet(Copies(T)) /\ \A x \in Copies(T) : ValidRow(x[1], s)
BY CopiesOfTable, LegalRow DEF Legal

LEMMA SelectKeepsInv ==
  ASSUME TableInv, Select
  PROVE  TableInv'
<1>1. PICK C \in SUBSET DOMAIN schema :
        Chained(Tally([x \in Copies(left[<<>>]) |-> Restrict(x[1], C)]),
                Tally([x \in Copies(right[<<>>]) |-> Restrict(x[1], C)]),
                Restrict(schema, C), metric, bound)
  BY DEF Select, Chain, ChainParts, Mapped, Chained
<1>2. metric.over = "table"
  BY <1>1 DEF Chained, Announce
<1>3. \A r : ValidRow(r, schema) => ValidRow(Restrict(r, C), Restrict(schema, C))
  BY DEF ValidRow, Restrict
<1>4. ASSUME NEW T, Legal(T, schema)
      PROVE  Legal(Tally([x \in Copies(T) |-> Restrict(x[1], C)]), Restrict(schema, C))
  <2> DEFINE f == [x \in Copies(T) |-> Restrict(x[1], C)]
  <2>1. /\ DOMAIN f = Copies(T)
        /\ \A x \in DOMAIN f : ValidRow(f[x], Restrict(schema, C))
    BY <1>3, <1>4, CopyIsValid
  <2> HIDE DEF f
  <2>2. Legal(Tally(f), Restrict(schema, C))
    BY <1>4, <2>1, CopyIsValid, TallyIsLegal
  <2> QED BY <2>2 DEF f
<1>5. IsSchema(Restrict(schema, C))
  BY FS_Subset, FS_Singleton DEF TableInv, IsSchema, Restrict
<1> QED
  BY <1>1, <1>2, <1>4, <1>5, InHandIsLegal, ChainedKeepsInv DEF TableInv, TypeOK

(* Renaming a column of what has the columns of the schema.                *)
LEMMA RenamedColumns ==
  ASSUME NEW s, NEW name, NEW r, DOMAIN r = DOMAIN s,
         NEW c \in {name[x] : x \in DOMAIN s}
  PROVE  \E x \in DOMAIN s : /\ name[x] = c
                             /\ Renaming(r, name)[c] = r[x]
                             /\ Renaming(s, name)[c] = s[x]
<1> DEFINE x == CHOOSE y \in DOMAIN s : name[y] = c
<1>1. x \in DOMAIN s /\ name[x] = c
  OBVIOUS
<1>2. Renaming(r, name)[c] = r[x]
  BY DEF Renaming
<1>3. Renaming(s, name)[c] = s[x]
  BY DEF Renaming
<1> HIDE DEF x
<1> QED BY <1>1, <1>2, <1>3

LEMMA RenameKeepsInv ==
  ASSUME TableInv, Rename
  PROVE  TableInv'
<1>1. PICK old \in DOMAIN schema, new \in NewColumns \ DOMAIN schema :
        LET name == [c \in DOMAIN schema |-> IF c = old THEN new ELSE c]
        IN Chained(Tally([x \in Copies(left[<<>>]) |-> Renaming(x[1], name)]),
                   Tally([x \in Copies(right[<<>>]) |-> Renaming(x[1], name)]),
                   Renaming(schema, name), RenamedMetric(metric, name), bound)
  BY DEF Rename, Chain, ChainParts, Mapped, Chained
<1> DEFINE name == [c \in DOMAIN schema |-> IF c = old THEN new ELSE c]
<1>2. Chained(Tally([x \in Copies(left[<<>>]) |-> Renaming(x[1], name)]),
              Tally([x \in Copies(right[<<>>]) |-> Renaming(x[1], name)]),
              Renaming(schema, name), RenamedMetric(metric, name), bound)
  BY <1>1
<1>3. DOMAIN name = DOMAIN schema
  OBVIOUS
<1> HIDE DEF name
<1>4. metric.over = "table"
  BY <1>2 DEF Chained, Announce
<1> DEFINE cols == {name[x] : x \in DOMAIN schema}
<1>5. DOMAIN Renaming(schema, name) = cols
  BY <1>3 DEF Renaming
<1>6. ASSUME NEW r, ValidRow(r, schema)
      PROVE  ValidRow(Renaming(r, name), Renaming(schema, name))
  <2>1. DOMAIN r = DOMAIN schema
    BY <1>6 DEF ValidRow
  <2>2. DOMAIN Renaming(r, name) = cols
    BY <2>1, <1>3 DEF Renaming
  <2>3. ASSUME NEW c \in cols
        PROVE  ValidCell(Renaming(r, name)[c], Renaming(schema, name)[c])
    <3>1. PICK y \in DOMAIN schema :
            Renaming(r, name)[c] = r[y] /\ Renaming(schema, name)[c] = schema[y]
      BY <2>1, RenamedColumns
    <3> QED BY <3>1, <1>6 DEF ValidRow
  <2> QED BY <1>5, <2>2, <2>3 DEF ValidRow
<1>7. ASSUME NEW T, Legal(T, schema)
      PROVE  Legal(Tally([x \in Copies(T) |-> Renaming(x[1], name)]), Renaming(schema, name))
  <2> DEFINE f == [x \in Copies(T) |-> Renaming(x[1], name)]
  <2>1. /\ DOMAIN f = Copies(T)
        /\ \A x \in DOMAIN f : ValidRow(f[x], Renaming(schema, name))
    BY <1>6, <1>7, CopyIsValid
  <2> HIDE DEF f
  <2>2. Legal(Tally(f), Renaming(schema, name))
    BY <1>7, <2>1, CopyIsValid, TallyIsLegal
  <2> QED BY <2>2 DEF f
<1>8. IsSchema(Renaming(schema, name))
  <2> SUFFICES ASSUME NEW c \in cols
               PROVE  Renaming(schema, name)[c] =
                        Column(Renaming(schema, name)[c].kind, Renaming(schema, name)[c].allows)
    <3>1. IsFiniteSet(DOMAIN schema)
      BY DEF TableInv, IsSchema
    <3>2. cols = Range(name)
      BY <1>3 DEF Range
    <3>3. IsFiniteSet(cols)
      BY <1>3, <3>1, <3>2, FiniteRange
    <3> QED BY <1>5, <3>3 DEF IsSchema
  <2>1. PICK y \in DOMAIN schema : Renaming(schema, name)[c] = schema[y]
    BY RenamedColumns
  <2> QED BY <2>1 DEF TableInv, IsSchema
<1>9. IsMetric(RenamedMetric(metric, name))
  <2> DEFINE m == RenamedMetric(metric, name)
  <2>1. IsMetric(metric)
    BY DEF TableInv
  <2>2. /\ DOMAIN m = DOMAIN metric
        /\ m.base = metric.base /\ m.over = metric.over /\ m.agg = metric.agg
        /\ m.by = {name[c] : c \in metric.by} /\ m.each = {name[c] : c \in metric.each}
    BY <2>1 DEF RenamedMetric, IsMetric, SymmetricDifference, Metric
  <2> HIDE DEF m, name
  <2>3. \A S : {name[c] : c \in S} = {} <=> S = {}
    BY Zenon
  <2>4. (m.by = {} <=> metric.by = {}) /\ (m.each = {} <=> metric.each = {})
    BY <2>2, <2>3, Zenon
  <2> QED BY <2>1, <2>2, <2>4 DEF IsMetric, IsIfGroupedBy, m
<1> QED
  BY <1>2, <1>4, <1>7, <1>8, <1>9, InHandIsLegal, ChainedKeepsInv DEF TableInv, TypeOK

LEMMA ExtendedRow ==
  ASSUME NEW r, NEW s, ValidRow(r, s), NEW q, NEW t, ValidRow(q, t)
  PROVE  ValidRow(Extended(r, q), Extended(s, t))
BY DEF ValidRow, Extended

LEMMA ExtendedSchema ==
  ASSUME NEW s, IsSchema(s), NEW t, IsSchema(t)
  PROVE  IsSchema(Extended(s, t))
BY FS_Union DEF IsSchema, Extended

LEMMA OutputIsValid ==
  ASSUME UserFunctions, NEW t \in RowTransformers, NEW r, ValidRow(r, schema),
         NEW max \in Nat \cup {Infinite}
  PROVE  /\ IsFiniteSet(DOMAIN OutputRows(t, r, max))
         /\ \A i \in DOMAIN OutputRows(t, r, max) :
              ValidRow(OutputRows(t, r, max)[i], OutputSchema(t))
         /\ t.single /\ max = 1 => 1 \in DOMAIN OutputRows(t, r, max)
<1> DEFINE new == RowsOf(t, r)
           n == IF max = Infinite \/ Len(new) < max THEN Len(new) ELSE max
<1>1. /\ Len(new) \in Nat
      /\ t.single => Len(new) > 0
      /\ \A i \in 1 .. Len(new) : ValidRow(new[i], t.columns)
  BY DEF UserFunctions, RowsAsAnnounced
<1>2. n \in Nat /\ n <= Len(new) /\ (t.single /\ max = 1 => 1 <= n)
  BY <1>1 DEF Infinite
<1>3. OutputRows(t, r, max) = [i \in 1 .. n |-> OutputRow(t, r, new[i])]
  BY DEF OutputRows
<1>4. \A i \in 1 .. n : ValidRow(OutputRow(t, r, new[i]), OutputSchema(t))
  <2> SUFFICES ASSUME NEW i \in 1 .. n
               PROVE  ValidRow(OutputRow(t, r, new[i]), OutputSchema(t))
    OBVIOUS
  <2>1. ValidRow(new[i], t.columns)
    BY <1>1, <1>2
  <2> HIDE DEF new
  <2> QED BY <2>1, ExtendedRow DEF OutputRow, OutputSchema
<1>5. IsFiniteSet(1 .. n)
  BY <1>2, FS_Interval
<1> HIDE DEF n, new
<1> QED BY <1>2, <1>3, <1>4, <1>5

LEMMA OutputSchemaIsSchema ==
  ASSUME TableInv, NEW t \in RowTransformers
  PROVE  IsSchema(OutputSchema(t))
BY TransformersAssumption, ExtendedSchema DEF TableInv, OutputSchema

LEMMA MapKeepsInv ==
  ASSUME UserFunctions, TableInv, Map
  PROVE  TableInv'
<1>1. PICK t \in RowTransformers :
        /\ t.single
        /\ Chained(Tally([x \in Copies(left[<<>>]) |-> OutputRows(t, x[1], 1)[1]]),
                   Tally([x \in Copies(right[<<>>]) |-> OutputRows(t, x[1], 1)[1]]),
                   OutputSchema(t), metric, bound)
  BY DEF Map, Chain, ChainParts, Mapped, Chained
<1>2. metric.over = "table"
  BY <1>1 DEF Chained, Announce
<1>3. ASSUME NEW T, Legal(T, schema)
      PROVE  Legal(Tally([x \in Copies(T) |-> OutputRows(t, x[1], 1)[1]]), OutputSchema(t))
  <2> DEFINE f == [x \in Copies(T) |-> OutputRows(t, x[1], 1)[1]]
  <2>1. /\ DOMAIN f = Copies(T)
        /\ \A x \in DOMAIN f : ValidRow(f[x], OutputSchema(t))
    BY <1>1, <1>3, CopyIsValid, OutputIsValid
  <2> HIDE DEF f
  <2>2. Legal(Tally(f), OutputSchema(t))
    BY <1>3, <2>1, CopyIsValid, TallyIsLegal
  <2> QED BY <2>2 DEF f
<1> QED
  BY <1>1, <1>2, <1>3, InHandIsLegal, OutputSchemaIsSchema, ChainedKeepsInv
  DEF TableInv, TypeOK

LEMMA ScaledType ==
  ASSUME NEW d \in Nat \cup {Infinite}, NEW k \in Nat
  PROVE  /\ Scaled(d, k) \in Nat \cup {Infinite}
         /\ Scaled(d, k * k) \in Nat \cup {Infinite}
<1>1. \A a \in Nat, b \in Nat : a * b \in Nat
  OBVIOUS
<1>2. k * k \in Nat
  OBVIOUS
<1> QED BY <1>1, <1>2 DEF Scaled

LEMMA FlatMapKeepsInv ==
  ASSUME UserFunctions, TableInv, FlatMap
  PROVE  TableInv'
<1> DEFINE B(T, t, max) == [r \in DOMAIN T |-> Tally(OutputRows(t, r, max))]
<1>1. PICK t \in RowTransformers, max \in Thresholds \cup {Infinite} :
        Chained(Flattened(left[<<>>], B(left[<<>>], t, max)),
                Flattened(right[<<>>], B(right[<<>>], t, max)),
                OutputSchema(t), metric, FlatMapBound(max))
  BY DEF FlatMap, Chain, ChainParts, FlatMapped, BagToSet, Chained
<1>2. metric.over = "table" /\ max \in Nat \cup {Infinite}
  BY <1>1, BoundsAssumption DEF Chained, Announce
<1>3. ASSUME NEW T, Legal(T, schema)
      PROVE  Legal(Flattened(T, B(T, t, max)), OutputSchema(t))
  <2>1. \A r \in DOMAIN T : Legal(Tally(OutputRows(t, r, max)), OutputSchema(t))
    BY <1>2, <1>3, LegalRow, OutputIsValid, TallyIsLegal
  <2>2. \A r \in DOMAIN T : Legal(B(T, t, max)[r], OutputSchema(t))
    BY <2>1
  <2> HIDE DEF B
  <2> QED BY <1>3, <2>2, FlattenedIsLegal DEF Legal
<1>4. FlatMapBound(max) \in Nat \cup {Infinite}
  BY <1>2, ScaledType DEF FlatMapBound, TableInv, TypeOK
<1> HIDE DEF B
<1> QED
  BY <1>1, <1>2, <1>3, <1>4, InHandIsLegal, OutputSchemaIsSchema, ChainedKeepsInv
  DEF TableInv

LEMMA GroupingFlatMapKeepsInv ==
  ASSUME UserFunctions, TableInv, GroupingFlatMap
  PROVE  TableInv'
<1> DEFINE B(T, t, max, g) ==
             [r \in DOMAIN T |-> SetToBag(FirstOfEach(OutputRows(t, r, max), g))]
<1>1. PICK t \in RowTransformers, max \in Thresholds, agg \in {"sum", "l2"} :
        \E g \in DOMAIN t.columns :
          Chained(Flattened(left[<<>>], B(left[<<>>], t, max, g)),
                  Flattened(right[<<>>], B(right[<<>>], t, max, g)),
                  OutputSchema(t), IfGroupedByAgg({g}, agg, {}),
                  Scaled(bound, IF agg = "sum" THEN max * max ELSE max))
  BY DEF GroupingFlatMap, Chain, ChainParts, FlatMapped, BagToSet, Chained
<1>2. PICK g \in DOMAIN t.columns :
        Chained(Flattened(left[<<>>], B(left[<<>>], t, max, g)),
                Flattened(right[<<>>], B(right[<<>>], t, max, g)),
                OutputSchema(t), IfGroupedByAgg({g}, agg, {}),
                Scaled(bound, IF agg = "sum" THEN max * max ELSE max))
  BY <1>1
<1>3. metric.over = "table" /\ max \in Nat
  BY <1>2, BoundsAssumption DEF Chained, Announce
<1>4. ASSUME NEW T, Legal(T, schema)
      PROVE  Legal(Flattened(T, B(T, t, max, g)), OutputSchema(t))
  <2>1. ASSUME NEW r \in DOMAIN T
        PROVE  Legal(SetToBag(FirstOfEach(OutputRows(t, r, max), g)), OutputSchema(t))
    <3> DEFINE rows == OutputRows(t, r, max)
    <3>1. /\ IsFiniteSet(DOMAIN rows)
          /\ \A i \in DOMAIN rows : ValidRow(rows[i], OutputSchema(t))
      BY <1>3, <1>4, LegalRow, OutputIsValid
    <3> HIDE DEF rows
    <3>2. FirstOfEach(rows, g) \subseteq Range(rows)
      BY DEF FirstOfEach, Range
    <3>3. IsFiniteSet(FirstOfEach(rows, g))
      BY <3>1, <3>2, FiniteRange, FS_Subset
    <3>4. \A x \in FirstOfEach(rows, g) : ValidRow(x, OutputSchema(t))
      BY <3>1, <3>2 DEF Range
    <3>5. Legal(SetToBag(FirstOfEach(rows, g)), OutputSchema(t))
      BY <3>3, <3>4, SetToBagIsLegal
    <3> QED BY <3>5 DEF rows
  <2>2. \A r \in DOMAIN T : Legal(B(T, t, max, g)[r], OutputSchema(t))
    BY <2>1
  <2> HIDE DEF B
  <2> QED BY <1>4, <2>2, FlattenedIsLegal DEF Legal
<1>5. Scaled(bound, IF agg = "sum" THEN max * max ELSE max) \in Nat \cup {Infinite}
  BY <1>3, ScaledType DEF TableInv, TypeOK
<1>6. IsMetric(IfGroupedByAgg({g}, agg, {}))
  BY DEF IsMetric, IfGroupedByAgg, SymmetricDifference, Metric
<1> HIDE DEF B
<1> QED
  BY <1>2, <1>3, <1>4, <1>5, <1>6, InHandIsLegal, OutputSchemaIsSchema, ChainedKeepsInv

LEMMA KeysOfTable ==
  ASSUME NEW T, IsTable(T), NEW C
  PROVE  IsFiniteSet(Keys(T, C))
<1> DEFINE f == [r \in DOMAIN T |-> Restrict(r, C)]
<1>1. Keys(T, C) = Range(f)
  BY DEF Keys, BagToSet, Range
<1>2. DOMAIN f = DOMAIN T
  OBVIOUS
<1> HIDE DEF f
<1> QED BY <1>1, <1>2, FiniteRange DEF IsTable, BagToSet

LEMMA SetToBagIsTable ==
  ASSUME NEW R, IsFiniteSet(R)
  PROVE  IsTable(SetToBag(R)) /\ DOMAIN SetToBag(R) = R
BY DEF BagToSet, SetToBag, IsTable, IsABag

LEMMA FlatMapByKeyKeepsInv ==
  ASSUME UserFunctions, TableInv, FlatMapByKey
  PROVE  TableInv'
<1> DEFINE G(T, key, k) == Restrict(T, {r \in DOMAIN T : Restrict(r, {key}) = k})
           N(T, t, key, k) ==
             Tally([x \in Copies(RowsOfGroup(t, G(T, key, k))) |-> Extended(k, x[1])])
           B(T, t, key) ==
             [k \in DOMAIN SetToBag(Keys(T, {key})) |-> N(T, t, key, k)]
<1>1. PICK key \in DOMAIN schema, t \in GroupTransformers :
        Chained(Flattened(SetToBag(Keys(left[<<>>], {key})), B(left[<<>>], t, key)),
                Flattened(SetToBag(Keys(right[<<>>], {key})), B(right[<<>>], t, key)),
                Extended(Restrict(schema, {key}), t.columns), metric, bound)
  BY DEF FlatMapByKey, Chain, ChainParts, FlatMapped, BagToSet, Mapped, Chained, Group,
         Where, RestrictDomain
<1>2. metric.over = "table"
  BY <1>1 DEF Chained, Announce
<1> DEFINE s == Extended(Restrict(schema, {key}), t.columns)
<1>3. ASSUME NEW T, Legal(T, schema)
      PROVE  Legal(Flattened(SetToBag(Keys(T, {key})), B(T, t, key)), s)
  <2>1. IsTable(SetToBag(Keys(T, {key}))) /\ DOMAIN SetToBag(Keys(T, {key})) = Keys(T, {key})
    BY <1>3, KeysOfTable, SetToBagIsTable DEF Legal
  <2>2. ASSUME NEW k \in Keys(T, {key})
        PROVE  Legal(N(T, t, key, k), s)
    <3> DEFINE U == RowsOfGroup(t, G(T, key, k))
               f == [x \in Copies(U) |-> Extended(k, x[1])]
    <3>0. IsTable(G(T, key, k))
      BY <1>3, RestrictIsTable DEF Legal
    <3>1. Legal(U, t.columns)
      BY <3>0 DEF UserFunctions, GroupAsAnnounced, Legal
    <3>2. ValidRow(k, Restrict(schema, {key}))
      <4>1. PICK r \in DOMAIN T : k = Restrict(r, {key})
        BY DEF Keys, BagToSet
      <4>2. ValidRow(r, schema)
        BY <1>3, LegalRow
      <4> QED BY <4>1, <4>2 DEF ValidRow, Restrict
    <3> HIDE DEF U
    <3>3. IsFiniteSet(Copies(U)) /\ \A x \in Copies(U) : ValidRow(Extended(k, x[1]), s)
      BY <3>1, <3>2, CopyIsValid, ExtendedRow
    <3>4. DOMAIN f = Copies(U) /\ \A x \in DOMAIN f : ValidRow(f[x], s)
      BY <3>3
    <3> HIDE DEF f
    <3>5. Legal(Tally(f), s)
      BY <3>3, <3>4, TallyIsLegal
    <3> QED BY <3>5 DEF f, U
  <2>3. \A k \in Keys(T, {key}) : B(T, t, key)[k] = N(T, t, key, k)
    BY <2>1
  <2> HIDE DEF B, N
  <2> QED BY <2>1, <2>2, <2>3, FlattenedIsLegal
<1>4. IsSchema(s)
  <2>1. IsSchema(Restrict(schema, {key}))
    BY FS_Subset, FS_Singleton DEF TableInv, IsSchema, Restrict
  <2> QED BY <2>1, TransformersAssumption, ExtendedSchema
<1> HIDE DEF B
<1> QED
  BY <1>1, <1>2, <1>3, <1>4, InHandIsLegal, ChainedKeepsInv DEF TableInv, TypeOK

LEMMA WithoutIsSchema ==
  ASSUME TableInv, NEW what, NEW C
  PROVE  /\ IsSchema(Without(what, C))
         /\ DOMAIN Without(what, C) = DOMAIN schema
         /\ \A c \in DOMAIN schema :
              /\ Without(what, C)[c].kind = schema[c].kind
              /\ Without(what, C)[c].allows =
                   IF c \in C THEN schema[c].allows \ what ELSE schema[c].allows
<1>1. \A c \in DOMAIN schema : schema[c] = [kind |-> schema[c].kind, allows |-> schema[c].allows]
  BY DEF TableInv, IsSchema, Column
<1>3. IsFiniteSet(DOMAIN schema)
  BY DEF TableInv, IsSchema
<1>2. \A c \in DOMAIN schema :
        [schema[c] EXCEPT !.allows = @ \ what] =
          [kind |-> schema[c].kind, allows |-> schema[c].allows \ what]
  BY <1>1
<1> QED BY <1>1, <1>2, <1>3 DEF Without, IsSchema, Column

LEMMA DropRowsKeepsInv ==
  ASSUME TableInv, NEW what, DropRows(what)
  PROVE  TableInv'
<1>1. PICK C \in SUBSET DOMAIN schema :
        Chained(Restrict(left[<<>>], {r \in DOMAIN left[<<>>] : \A c \in C : r[c] \notin what}),
                Restrict(right[<<>>], {r \in DOMAIN right[<<>>] : \A c \in C : r[c] \notin what}),
                Without(what, C), metric, bound)
  BY DEF DropRows, Chain, ChainParts, Where, RestrictDomain, Chained
<1>2. metric.over = "table"
  BY <1>1 DEF Chained, Announce
<1>3. \A r : ValidRow(r, schema) /\ (\A c \in C : r[c] \notin what)
               => ValidRow(r, Without(what, C))
  <2> SUFFICES ASSUME NEW r, ValidRow(r, schema), \A c \in C : r[c] \notin what
               PROVE  ValidRow(r, Without(what, C))
    OBVIOUS
  <2>1. DOMAIN r = DOMAIN schema /\ DOMAIN Without(what, C) = DOMAIN schema
    BY WithoutIsSchema DEF ValidRow
  <2>2. ASSUME NEW c \in DOMAIN schema
        PROVE  ValidCell(r[c], Without(what, C)[c])
    <3>1. ValidCell(r[c], schema[c])
      BY DEF ValidRow
    <3>2. Without(what, C)[c].allows =
            IF c \in C THEN schema[c].allows \ what ELSE schema[c].allows
      BY WithoutIsSchema
    <3> QED BY <3>1, <3>2 DEF ValidCell
  <2> QED BY <2>1, <2>2 DEF ValidRow
<1>4. ASSUME NEW T, Legal(T, schema)
      PROVE  Legal(Restrict(T, {r \in DOMAIN T : \A c \in C : r[c] \notin what}),
                   Without(what, C))
  BY <1>3, <1>4, RestrictIsLegal, LegalRow DEF Legal
<1> QED
  BY <1>1, <1>2, <1>4, InHandIsLegal, WithoutIsSchema, ChainedKeepsInv DEF TableInv, TypeOK

Replaced(r, what, c, with) == IF r[c] \in what THEN [r EXCEPT ![c] = with[@]] ELSE r

LEMMA ReplaceCellsKeepsInv ==
  ASSUME TableInv, NEW what, NEW c \in DOMAIN schema, NEW with, what \subseteq DOMAIN with,
         ReplaceCells(what, c, with)
  PROVE  TableInv'
<1> DEFINE s == Without(what, {c})
<1>1. /\ Chained(Tally([x \in Copies(left[<<>>]) |-> Replaced(x[1], what, c, with)]),
                 Tally([x \in Copies(right[<<>>]) |-> Replaced(x[1], what, c, with)]),
                 s, metric, bound)
      /\ \A v \in Range(with) : ValidCell(v, s[c])
  BY DEF ReplaceCells, Chain, ChainParts, Mapped, Chained, Replaced
<1>2. metric.over = "table"
  BY <1>1 DEF Chained, Announce
<1>3. ASSUME NEW r, ValidRow(r, schema)
      PROVE  ValidRow(Replaced(r, what, c, with), s)
  <2>1. /\ DOMAIN s = DOMAIN schema /\ DOMAIN r = DOMAIN schema
        /\ \A e \in DOMAIN schema : ValidCell(r[e], schema[e])
        /\ \A e \in DOMAIN schema :
             s[e].allows = IF e = c THEN schema[e].allows \ what ELSE schema[e].allows
    BY <1>3, WithoutIsSchema DEF ValidRow
  <2> HIDE DEF s
  <2>2. CASE r[c] \in what
    <3>1. with[r[c]] \in Range(with)
      BY <2>2 DEF Range
    <3>2. /\ DOMAIN Replaced(r, what, c, with) = DOMAIN r
          /\ \A e \in DOMAIN r :
               Replaced(r, what, c, with)[e] = IF e = c THEN with[r[c]] ELSE r[e]
      BY <2>2 DEF Replaced
    <3> QED BY <1>1, <2>1, <3>1, <3>2 DEF ValidRow, ValidCell
  <2>3. CASE r[c] \notin what
    BY <2>1, <2>3 DEF ValidRow, ValidCell, Replaced
  <2> QED BY <2>2, <2>3
<1>4. ASSUME NEW T, Legal(T, schema)
      PROVE  Legal(Tally([x \in Copies(T) |-> Replaced(x[1], what, c, with)]), s)
  <2> DEFINE f == [x \in Copies(T) |-> Replaced(x[1], what, c, with)]
  <2>1. DOMAIN f = Copies(T) /\ \A x \in DOMAIN f : ValidRow(f[x], s)
    BY <1>3, <1>4, CopyIsValid
  <2> HIDE DEF f
  <2>2. Legal(Tally(f), s)
    BY <1>4, <2>1, CopyIsValid, TallyIsLegal
  <2> QED BY <2>2 DEF f
<1>5. IsSchema(s)
  BY WithoutIsSchema
<1> HIDE DEF s
<1> QED
  BY <1>1, <1>2, <1>4, <1>5, InHandIsLegal, ChainedKeepsInv DEF TableInv, TypeOK

LEMMA CollectedIsLegal ==
  ASSUME NEW T, NEW s, Legal(T, s), NEW X \in SUBSET Copies(T)
  PROVE  Legal(Collected(X), s)
<1> DEFINE f == [x \in X |-> x[1]]
<1>1. IsFiniteSet(X)
  BY CopyIsValid, FS_Subset
<1>2. DOMAIN f = X /\ \A x \in DOMAIN f : ValidRow(f[x], s)
  BY CopyIsValid
<1> HIDE DEF f
<1>3. Legal(Tally(f), s)
  BY <1>1, <1>2, TallyIsLegal
<1> QED BY <1>3 DEF Collected, f

LEMMA TruncateIsLegal ==
  ASSUME NEW T, NEW s, Legal(T, s), NEW C, NEW n, NEW rank
  PROVE  /\ Legal(TruncateLargeGroups(T, C, n, rank), s)
         /\ Legal(DropLargeGroups(T, C, n), s)
<1>1. Legal(TruncateLargeGroups(T, C, n, rank), s)
  <2>1. \A group : Kept(Copies(T), group, n, rank) \in SUBSET Copies(T)
    BY DEF Kept
  <2>2. \A group : Legal(Collected(Kept(Copies(T), group, n, rank)), s)
    BY <2>1, CollectedIsLegal
  <2> QED BY <2>2 DEF TruncateLargeGroups
<1>2. Legal(DropLargeGroups(T, C, n), s)
  BY RestrictIsLegal, LegalRow DEF DropLargeGroups, Where, RestrictDomain, Legal
<1> QED BY <1>1, <1>2

LEMMA LimitKeysIsLegal ==
  ASSUME NEW T, NEW s, Legal(T, s), NEW C, NEW K, NEW n, NEW rank
  PROVE  Legal(LimitKeysPerGroup(T, C, K, n, rank), s)
BY RestrictIsLegal, LegalRow DEF LimitKeysPerGroup, Where, RestrictDomain, Legal

LEMMA PlainMetric ==
  /\ IsMetric(SymmetricDifference)
  /\ \A agg \in {"sum", "l2"} : IsMetric(Over(agg, SymmetricDifference))
  /\ \A C : IsMetric(IfGroupedBy(C))
  /\ \A C, agg, D : C # {} /\ agg \in {"sum", "l2"} => IsMetric(IfGroupedByAgg(C, agg, D))
BY DEF IsMetric, IsIfGroupedBy, IfGroupedBy, IfGroupedByAgg, Over, SymmetricDifference, Metric

LEMMA LimitRowsPerGroupKeepsInv ==
  ASSUME TableInv, LimitRowsPerGroup
  PROVE  TableInv'
<1>1. PICK C \in (SUBSET DOMAIN schema) \ {{}}, n \in Thresholds :
        \E rank \in Orders(AllCopies), m \in {SymmetricDifference, metric} :
          Chained(TruncateLargeGroups(left[<<>>], C, n, rank),
                  TruncateLargeGroups(right[<<>>], C, n, rank), schema, m,
                  IF m = metric THEN bound ELSE Scaled(bound, n * n))
  BY DEF LimitRowsPerGroup, Chain, ChainParts, Chained
<1>2. PICK rank \in Orders(AllCopies), m \in {SymmetricDifference, metric} :
        Chained(TruncateLargeGroups(left[<<>>], C, n, rank),
                TruncateLargeGroups(right[<<>>], C, n, rank), schema, m,
                IF m = metric THEN bound ELSE Scaled(bound, n * n))
  BY <1>1
<1>3. metric.over = "table"
  BY <1>2 DEF Chained, Announce
<1>4. (IF m = metric THEN bound ELSE Scaled(bound, n * n)) \in Nat \cup {Infinite}
  BY BoundsAssumption, ScaledType DEF TableInv, TypeOK
<1>5. IsMetric(m)
  BY PlainMetric DEF TableInv
<1> QED
  BY <1>2, <1>3, <1>4, <1>5, InHandIsLegal, TruncateIsLegal, ChainedKeepsInv DEF TableInv

LEMMA LimitKeysKeepsInv ==
  ASSUME TableInv, LimitKeys
  PROVE  TableInv'
<1>1. PICK C \in (SUBSET DOMAIN schema) \ {{}}, n \in Thresholds :
        \E key \in DOMAIN schema \ C : \E rank \in Orders(AllKeys(C \cup {key})),
           m \in {metric, IfGroupedByAgg({key}, "sum", C), IfGroupedByAgg({key}, "l2", C)} :
          Chained(LimitKeysPerGroup(left[<<>>], C, {key}, n, rank),
                  LimitKeysPerGroup(right[<<>>], C, {key}, n, rank), schema, m,
                  LimitKeysPerGroupBound(m, n))
  BY DEF LimitKeys, Chain, ChainParts, Chained
<1>2. PICK key \in DOMAIN schema \ C :
        \E rank \in Orders(AllKeys(C \cup {key})),
           m \in {metric, IfGroupedByAgg({key}, "sum", C), IfGroupedByAgg({key}, "l2", C)} :
          Chained(LimitKeysPerGroup(left[<<>>], C, {key}, n, rank),
                  LimitKeysPerGroup(right[<<>>], C, {key}, n, rank), schema, m,
                  LimitKeysPerGroupBound(m, n))
  BY <1>1
<1>3. PICK rank \in Orders(AllKeys(C \cup {key})),
           m \in {metric, IfGroupedByAgg({key}, "sum", C), IfGroupedByAgg({key}, "l2", C)} :
        Chained(LimitKeysPerGroup(left[<<>>], C, {key}, n, rank),
                LimitKeysPerGroup(right[<<>>], C, {key}, n, rank), schema, m,
                LimitKeysPerGroupBound(m, n))
  BY <1>2
<1>4. metric.over = "table"
  BY <1>3 DEF Chained, Announce
<1>5. LimitKeysPerGroupBound(m, n) \in Nat \cup {Infinite}
  BY BoundsAssumption, ScaledType DEF TableInv, TypeOK, LimitKeysPerGroupBound
<1>6. IsMetric(m)
  BY DEF TableInv, IsMetric, IfGroupedByAgg, SymmetricDifference, Metric
<1> QED
  BY <1>3, <1>4, <1>5, <1>6, InHandIsLegal, LimitKeysIsLegal, ChainedKeepsInv DEF TableInv

LEMMA LimitRowsPerKeyPerGroupKeepsInv ==
  ASSUME TableInv, LimitRowsPerKeyPerGroup
  PROVE  TableInv'
<1>1. PICK C \in (SUBSET DOMAIN schema) \ {{}}, n \in Thresholds :
        \E key \in DOMAIN schema \ C : \E rank \in Orders(AllCopies) :
          Chained(TruncateLargeGroups(left[<<>>], C \cup {key}, n, rank),
                  TruncateLargeGroups(right[<<>>], C \cup {key}, n, rank), schema,
                  RowsPerKeyMetric(C, key),
                  IF metric = IfGroupedBy(C) THEN bound ELSE Scaled(bound, n * n))
  BY DEF LimitRowsPerKeyPerGroup, Chain, ChainParts, Chained
<1>2. PICK key \in DOMAIN schema \ C, rank \in Orders(AllCopies) :
        Chained(TruncateLargeGroups(left[<<>>], C \cup {key}, n, rank),
                TruncateLargeGroups(right[<<>>], C \cup {key}, n, rank), schema,
                RowsPerKeyMetric(C, key),
                IF metric = IfGroupedBy(C) THEN bound ELSE Scaled(bound, n * n))
  BY <1>1
<1>3. metric.over = "table"
  BY <1>2 DEF Chained, Announce
<1>4. (IF metric = IfGroupedBy(C) THEN bound ELSE Scaled(bound, n * n))
        \in Nat \cup {Infinite}
  BY BoundsAssumption, ScaledType DEF TableInv, TypeOK
<1>5. IsMetric(RowsPerKeyMetric(C, key))
  BY DEF TableInv, IsMetric, RowsPerKeyMetric, IfGroupedByAgg, SymmetricDifference, Metric
<1> QED
  BY <1>2, <1>3, <1>4, <1>5, InHandIsLegal, TruncateIsLegal, ChainedKeepsInv DEF TableInv

-----------------------------------------------------------------------------
(* Joins *)

LEMMA KeptName ==
  ASSUME NEW c, NEW on, NEW C, c \in on \/ c \notin C
  PROVE  LeftName(c, on, C) = c
BY Zenon DEF LeftName

(* Names that are not joined on stay apart: if as many names come out of   *)
(* two sets as go in, they are all different.                              *)
LEMMA NamesApart ==
  ASSUME NEW C, NEW D, IsFiniteSet(C), IsFiniteSet(D), NEW f, NEW g,
         DOMAIN f = C, DOMAIN g = D,
         Cardinality(Range(f) \cup Range(g)) = Cardinality(C) + Cardinality(D)
  PROVE  /\ \A c, d \in C : f[c] = f[d] => c = d
         /\ \A c, d \in D : g[c] = g[d] => c = d
         /\ Range(f) \cap Range(g) = {}
<1> DEFINE F == [c \in C |-> f[c]]
           G == [c \in D |-> g[c]]
<1>1. F \in Surjection(C, Range(f)) /\ G \in Surjection(D, Range(g))
  BY DEF Surjection, Range
<1> HIDE DEF F, G
<1>2. /\ IsFiniteSet(Range(f)) /\ Cardinality(Range(f)) <= Cardinality(C)
      /\ Cardinality(Range(f)) = Cardinality(C) <=> F \in Injection(C, Range(f))
  BY <1>1, FS_Surjection
<1>3. /\ IsFiniteSet(Range(g)) /\ Cardinality(Range(g)) <= Cardinality(D)
      /\ Cardinality(Range(g)) = Cardinality(D) <=> G \in Injection(D, Range(g))
  BY <1>1, FS_Surjection
<1> DEFINE I == Range(f) \cap Range(g)
<1>4. Cardinality(Range(f) \cup Range(g))
        = Cardinality(Range(f)) + Cardinality(Range(g)) - Cardinality(I)
  BY <1>2, <1>3, FS_Union
<1>5. IsFiniteSet(I)
  BY <1>2, FS_Intersection
<1> HIDE DEF I
<1>6. /\ Cardinality(C) \in Nat /\ Cardinality(D) \in Nat /\ Cardinality(I) \in Nat
      /\ Cardinality(Range(f)) \in Nat /\ Cardinality(Range(g)) \in Nat
  BY <1>2, <1>3, <1>5, FS_CardinalityType
<1>7. /\ Cardinality(Range(f)) = Cardinality(C) /\ Cardinality(Range(g)) = Cardinality(D)
      /\ Cardinality(I) = 0
  BY <1>2, <1>3, <1>4, <1>6
<1>8. I = {}
  BY <1>5, <1>7, FS_EmptySet
<1>9. F \in Injection(C, Range(f)) /\ G \in Injection(D, Range(g))
  BY <1>2, <1>3, <1>7
<1>10. \A c, d \in C : F[c] = F[d] => c = d
  BY <1>9 DEF Injection, IsInjective
<1>11. \A c, d \in D : G[c] = G[d] => c = d
  BY <1>9 DEF Injection, IsInjective
<1>12. /\ \A c \in C : F[c] = f[c]
       /\ \A c \in D : G[c] = g[c]
  BY DEF F, G
<1> QED BY <1>8, <1>10, <1>11, <1>12 DEF I

(* Two schemas that can be joined.                                         *)
Joinable(ls, rs, on) ==
  /\ IsSchema(ls) /\ IsSchema(rs)
  /\ ValidateJoin(ls, rs, on)
  /\ CanJoin(DOMAIN ls, DOMAIN rs, on)

LEMMA JoinNames ==
  ASSUME NEW ls, NEW rs, NEW on, Joinable(ls, rs, on)
  PROVE  /\ \A c, d \in DOMAIN ls :
              LeftName(c, on, DOMAIN rs) = LeftName(d, on, DOMAIN rs) => c = d
         /\ \A c \in DOMAIN ls, d \in DOMAIN rs \ on :
              LeftName(c, on, DOMAIN rs) # RightName(d, on, DOMAIN ls)
         /\ \A c \in DOMAIN ls : LeftName(c, on, DOMAIN rs) \in on <=> c \in on
         /\ \A c, d \in DOMAIN rs \ on :
              RightName(c, on, DOMAIN ls) = RightName(d, on, DOMAIN ls) => c = d
<1> DEFINE C == DOMAIN ls
           D == DOMAIN rs
           f == [c \in C \ on |-> LeftName(c, on, D)]
           g == [c \in D \ on |-> RightName(c, on, C)]
<1>1. /\ on \subseteq C /\ IsFiniteSet(C \ on) /\ IsFiniteSet(D \ on)
      /\ Cardinality(Suffixed(C, D, on)) = Cardinality(C \ on) + Cardinality(D \ on)
      /\ on \cap Suffixed(C, D, on) = {}
  BY FS_Difference DEF Joinable, IsSchema, ValidateJoin, CanJoin
<1>2. /\ Suffixed(C, D, on) = Range(f) \cup Range(g)
      /\ DOMAIN f = C \ on /\ DOMAIN g = D \ on
  BY DEF Suffixed, Range
<1>3. /\ \A c, d \in C \ on : f[c] = f[d] => c = d
      /\ \A c, d \in D \ on : g[c] = g[d] => c = d
      /\ Range(f) \cap Range(g) = {}
  <2> HIDE DEF f, g, C, D
  <2>1. Cardinality(Range(f) \cup Range(g)) = Cardinality(C \ on) + Cardinality(D \ on)
    BY <1>1, <1>2
  <2> QED BY <1>1, <1>2, <2>1, NamesApart
<1>4. \A c \in on : LeftName(c, on, D) = c
  BY KeptName
<1>5. \A c \in C \ on : f[c] = LeftName(c, on, D) /\ f[c] \in Range(f)
  BY DEF Range
<1>6. \A c \in D \ on : g[c] = RightName(c, on, C) /\ g[c] \in Range(g)
  BY DEF Range
<1> HIDE DEF f, g, C, D
<1>7. \A c \in C : LeftName(c, on, D) \in on <=> c \in on
  BY <1>1, <1>2, <1>4, <1>5
<1>8. \A c, d \in C : LeftName(c, on, D) = LeftName(d, on, D) => c = d
  BY <1>3, <1>4, <1>5, <1>7
<1>9. \A c \in C, d \in D \ on : LeftName(c, on, D) # RightName(d, on, C)
  BY <1>1, <1>2, <1>3, <1>4, <1>5, <1>6
<1>10. \A c, d \in D \ on : RightName(c, on, C) = RightName(d, on, C) => c = d
  BY <1>3, <1>6
<1> QED BY <1>7, <1>8, <1>9, <1>10 DEF C, D
JoinedColumns(ls, rs, on) ==
  {LeftName(c, on, DOMAIN rs) : c \in DOMAIN ls}
    \cup {RightName(c, on, DOMAIN ls) : c \in DOMAIN rs \ on}

LEMMA ColumnsOfJoin ==
  ASSUME NEW ls, NEW rs, NEW on, Joinable(ls, rs, on)
  PROVE  ColumnsAfterJoin(DOMAIN ls, DOMAIN rs, on) = JoinedColumns(ls, rs, on)
<1>1. on \subseteq DOMAIN ls
  BY DEF Joinable, ValidateJoin
<1>2. \A c \in on : LeftName(c, on, DOMAIN rs) = c
  BY KeptName
<1>3. ASSUME NEW x \in on PROVE x \in JoinedColumns(ls, rs, on)
  BY <1>1, <1>2 DEF JoinedColumns
<1>4. ASSUME NEW c \in DOMAIN ls
      PROVE  LeftName(c, on, DOMAIN rs) \in ColumnsAfterJoin(DOMAIN ls, DOMAIN rs, on)
  <2>1. CASE c \in on
    BY <1>2, <2>1 DEF ColumnsAfterJoin
  <2>2. CASE c \notin on
    BY <2>2 DEF ColumnsAfterJoin, Suffixed
  <2> QED BY <2>1, <2>2
<1>5. ASSUME NEW x \in Suffixed(DOMAIN ls, DOMAIN rs, on)
      PROVE  x \in JoinedColumns(ls, rs, on)
  BY DEF Suffixed, JoinedColumns
<1>6. ASSUME NEW c \in DOMAIN rs \ on
      PROVE  RightName(c, on, DOMAIN ls) \in ColumnsAfterJoin(DOMAIN ls, DOMAIN rs, on)
  BY DEF ColumnsAfterJoin, Suffixed
<1>7. ColumnsAfterJoin(DOMAIN ls, DOMAIN rs, on) \subseteq JoinedColumns(ls, rs, on)
  BY <1>3, <1>5 DEF ColumnsAfterJoin
<1>8. JoinedColumns(ls, rs, on) \subseteq ColumnsAfterJoin(DOMAIN ls, DOMAIN rs, on)
  BY <1>4, <1>6 DEF JoinedColumns
<1> QED BY <1>7, <1>8

LEMMA CellsOfJoin ==
  ASSUME NEW ls, NEW rs, NEW on, Joinable(ls, rs, on), NEW a, NEW b
  PROVE  LET row == JoinedRow(a, b, DOMAIN ls, DOMAIN rs, on)
         IN /\ DOMAIN row = JoinedColumns(ls, rs, on)
            /\ \A c \in DOMAIN ls : row[LeftName(c, on, DOMAIN rs)] = a[c]
            /\ \A c \in DOMAIN rs \ on :
                 row[RightName(c, on, DOMAIN ls)] = IF b = <<>> THEN Null ELSE b[c]
<1> DEFINE C == DOMAIN ls
           D == DOMAIN rs
           left1 == [x \in {LeftName(c, on, D) : c \in C} |->
                       a[CHOOSE c \in C : x = LeftName(c, on, D)]]
           right1 == [x \in {RightName(c, on, C) : c \in D \ on} |->
                        IF b = <<>> THEN Null
                        ELSE b[CHOOSE c \in D \ on : x = RightName(c, on, C)]]
           row == JoinedRow(a, b, C, D, on)
<1>1. row = Extended(left1, right1)
  BY Zenon DEF JoinedRow
<1>2. /\ DOMAIN left1 = {LeftName(c, on, D) : c \in C}
      /\ DOMAIN right1 = {RightName(c, on, C) : c \in D \ on}
  OBVIOUS
<1>3. ASSUME NEW c \in C
      PROVE  left1[LeftName(c, on, D)] = a[c]
  <2> DEFINE e == CHOOSE d \in C : LeftName(c, on, D) = LeftName(d, on, D)
  <2>1. e \in C /\ LeftName(c, on, D) = LeftName(e, on, D)
    OBVIOUS
  <2>2. left1[LeftName(c, on, D)] = a[e]
    OBVIOUS
  <2> HIDE DEF e
  <2>3. e = c
    BY <2>1, JoinNames
  <2> QED BY <2>2, <2>3
<1>4. ASSUME NEW c \in D \ on
      PROVE  right1[RightName(c, on, C)] = IF b = <<>> THEN Null ELSE b[c]
  <2> DEFINE e == CHOOSE d \in D \ on : RightName(c, on, C) = RightName(d, on, C)
  <2>1. e \in D \ on /\ RightName(c, on, C) = RightName(e, on, C)
    OBVIOUS
  <2>2. right1[RightName(c, on, C)] = IF b = <<>> THEN Null ELSE b[e]
    OBVIOUS
  <2> HIDE DEF e
  <2>3. e = c
    BY <2>1, JoinNames
  <2> QED BY <2>2, <2>3
<1>5. \A c \in D \ on : RightName(c, on, C) \notin DOMAIN left1
  BY <1>2, JoinNames
<1> HIDE DEF left1, right1
<1>6. DOMAIN row = JoinedColumns(ls, rs, on)
  BY <1>1, <1>2 DEF Extended, JoinedColumns
<1>7. ASSUME NEW c \in C PROVE row[LeftName(c, on, D)] = a[c]
  BY <1>1, <1>2, <1>3 DEF Extended
<1>8. ASSUME NEW c \in D \ on
      PROVE  row[RightName(c, on, C)] = IF b = <<>> THEN Null ELSE b[c]
  BY <1>1, <1>2, <1>4, <1>5 DEF Extended
<1> QED BY <1>6, <1>7, <1>8

(* The domain of a column that is joined on.                               *)
JoinedOn(ls, rs, how, nulls, c) ==
  IF how = "left" THEN ls[c]
  ELSE [ls[c] EXCEPT !.allows = IF nulls THEN ls[c].allows \cap rs[c].allows
                                ELSE (ls[c].allows \cap rs[c].allows) \ {Null}]
Unmatched(how, d) == IF how = "left" THEN [d EXCEPT !.allows = @ \cup {Null}] ELSE d

LEMMA DomainOfJoin ==
  ASSUME NEW ls, NEW rs, NEW on, Joinable(ls, rs, on), NEW how, NEW nulls
  PROVE  LET s == DomainAfterJoin(ls, rs, on, how, nulls)
         IN /\ DOMAIN s = JoinedColumns(ls, rs, on)
            /\ \A c \in on : s[c] = JoinedOn(ls, rs, how, nulls, c)
            /\ \A c \in DOMAIN ls \ on : s[LeftName(c, on, DOMAIN rs)] = ls[c]
            /\ \A c \in DOMAIN rs \ on :
                 s[RightName(c, on, DOMAIN ls)] = Unmatched(how, rs[c])
<1> DEFINE C == DOMAIN ls
           D == DOMAIN rs
           l(x) == CHOOSE c \in C \ on : x = LeftName(c, on, D)
           r(x) == CHOOSE c \in D \ on : x = RightName(c, on, C)
           s == DomainAfterJoin(ls, rs, on, how, nulls)
<1>1. s = [x \in ColumnsAfterJoin(C, D, on) |->
             IF x \in on THEN JoinedOn(ls, rs, how, nulls, x)
             ELSE IF \E c \in C : x = LeftName(c, on, D) THEN ls[l(x)]
             ELSE Unmatched(how, rs[r(x)])]
  BY Zenon DEF DomainAfterJoin, JoinedOn, Unmatched
<1>2. ColumnsAfterJoin(C, D, on) = JoinedColumns(ls, rs, on) /\ on \subseteq C
  BY ColumnsOfJoin DEF Joinable, ValidateJoin
<1>3. ASSUME NEW c \in C \ on PROVE l(LeftName(c, on, D)) = c
  <2>1. /\ l(LeftName(c, on, D)) \in C \ on
        /\ LeftName(c, on, D) = LeftName(l(LeftName(c, on, D)), on, D)
    OBVIOUS
  <2> HIDE DEF l
  <2> QED BY <2>1, JoinNames
<1>4. ASSUME NEW c \in D \ on PROVE r(RightName(c, on, C)) = c
  <2>1. /\ r(RightName(c, on, C)) \in D \ on
        /\ RightName(c, on, C) = RightName(r(RightName(c, on, C)), on, C)
    OBVIOUS
  <2> HIDE DEF r
  <2> QED BY <2>1, JoinNames
<1> HIDE DEF l, r, s
<1>5. DOMAIN s = JoinedColumns(ls, rs, on)
  BY <1>1, <1>2
<1>6. ASSUME NEW c \in on PROVE s[c] = JoinedOn(ls, rs, how, nulls, c)
  <2>1. c \in ColumnsAfterJoin(C, D, on)
    BY DEF ColumnsAfterJoin
  <2> QED BY <1>1, <2>1
<1>7. ASSUME NEW c \in C \ on PROVE s[LeftName(c, on, D)] = ls[c]
  <2>1. LeftName(c, on, D) \in ColumnsAfterJoin(C, D, on) /\ LeftName(c, on, D) \notin on
    BY <1>2, JoinNames DEF JoinedColumns
  <2> QED BY <1>1, <1>3, <2>1
<1>8. ASSUME NEW c \in D \ on
      PROVE  s[RightName(c, on, C)] = Unmatched(how, rs[c])
  <2> DEFINE x == RightName(c, on, C)
  <2>1. x \in ColumnsAfterJoin(C, D, on) /\ ~ \E d \in C : x = LeftName(d, on, D)
    BY <1>2, JoinNames DEF JoinedColumns
  <2>2. x \notin on
    <3>1. \A d \in on : LeftName(d, on, D) = d /\ d \in C
      BY <1>2, KeptName
    <3> QED BY <2>1, <3>1
  <2> HIDE DEF x
  <2>3. s[x] = Unmatched(how, rs[r(x)])
    BY <1>1, <2>1, <2>2
  <2> QED BY <1>4, <2>3 DEF x
<1> QED BY <1>5, <1>6, <1>7, <1>8 DEF s

LEMMA DomainOfJoinIsSchema ==
  ASSUME NEW ls, NEW rs, NEW on, Joinable(ls, rs, on), NEW how, NEW nulls
  PROVE  IsSchema(DomainAfterJoin(ls, rs, on, how, nulls))
<1> DEFINE s == DomainAfterJoin(ls, rs, on, how, nulls)
           f == [c \in DOMAIN ls |-> LeftName(c, on, DOMAIN rs)]
           g == [c \in DOMAIN rs \ on |-> RightName(c, on, DOMAIN ls)]
<1>1. IsFiniteSet(DOMAIN ls) /\ IsFiniteSet(DOMAIN rs \ on)
  BY FS_Difference DEF Joinable, IsSchema
<1>2. /\ DOMAIN f = DOMAIN ls /\ DOMAIN g = DOMAIN rs \ on
      /\ JoinedColumns(ls, rs, on) = Range(f) \cup Range(g)
  BY DEF JoinedColumns, Range
<1>3. IsFiniteSet(JoinedColumns(ls, rs, on))
  <2> HIDE DEF f, g
  <2> QED BY <1>1, <1>2, FiniteRange, FS_Union
<1>4. /\ \A c \in DOMAIN ls : ls[c] = [kind |-> ls[c].kind, allows |-> ls[c].allows]
      /\ \A c \in DOMAIN rs : rs[c] = [kind |-> rs[c].kind, allows |-> rs[c].allows]
  BY DEF Joinable, IsSchema, Column
<1>5. /\ DOMAIN s = JoinedColumns(ls, rs, on)
      /\ \A c \in on : s[c] = JoinedOn(ls, rs, how, nulls, c)
      /\ \A c \in DOMAIN ls \ on : s[LeftName(c, on, DOMAIN rs)] = ls[c]
      /\ \A c \in DOMAIN rs \ on :
           s[RightName(c, on, DOMAIN ls)] = Unmatched(how, rs[c])
  BY DomainOfJoin
<1> HIDE DEF s
<1>6. \A c \in on : c \in DOMAIN ls /\ LeftName(c, on, DOMAIN rs) = c
  BY KeptName DEF Joinable, ValidateJoin
<1> DEFINE Described(d) == d = [kind |-> d.kind, allows |-> d.allows]
<1>7. \A c \in on : Described(JoinedOn(ls, rs, how, nulls, c))
  <2> SUFFICES ASSUME NEW c \in on PROVE Described(JoinedOn(ls, rs, how, nulls, c))
    OBVIOUS
  <2>1. ls[c] = [kind |-> ls[c].kind, allows |-> ls[c].allows]
    BY <1>4, <1>6
  <2>2. \A A : [ls[c] EXCEPT !.allows = A] = [kind |-> ls[c].kind, allows |-> A]
    BY <2>1
  <2>3. \A A : Described([ls[c] EXCEPT !.allows = A])
    BY <2>2
  <2> HIDE DEF Described
  <2>4. Described(ls[c])
    BY <2>1 DEF Described
  <2> QED BY <2>3, <2>4 DEF JoinedOn
<1>8. \A c \in DOMAIN rs : Described(Unmatched(how, rs[c]))
  <2> SUFFICES ASSUME NEW c \in DOMAIN rs PROVE Described(Unmatched(how, rs[c]))
    OBVIOUS
  <2>1. rs[c] = [kind |-> rs[c].kind, allows |-> rs[c].allows]
    BY <1>4
  <2>2. [rs[c] EXCEPT !.allows = @ \cup {Null}]
          = [kind |-> rs[c].kind, allows |-> rs[c].allows \cup {Null}]
    BY <2>1
  <2> QED BY <2>1, <2>2 DEF Unmatched
<1>9. ASSUME NEW x \in JoinedColumns(ls, rs, on)
      PROVE  Described(s[x])
  <2> HIDE DEF Described
  <2>1. CASE \E c \in DOMAIN ls : x = LeftName(c, on, DOMAIN rs)
    <3>1. PICK c \in DOMAIN ls : x = LeftName(c, on, DOMAIN rs)
      BY <2>1
    <3>2. CASE c \in on
      BY <1>5, <1>6, <1>7, <3>1, <3>2
    <3>3. CASE c \notin on
      <4>1. s[x] = ls[c]
        BY <1>5, <3>1, <3>3
      <4> QED BY <1>4, <4>1 DEF Described
    <3> QED BY <3>2, <3>3
  <2>2. CASE \E c \in DOMAIN rs \ on : x = RightName(c, on, DOMAIN ls)
    BY <1>5, <1>8, <2>2
  <2> QED BY <2>1, <2>2 DEF JoinedColumns
<1>10. \A x \in DOMAIN s : s[x] = Column(s[x].kind, s[x].allows)
  BY <1>5, <1>9 DEF Column
<1>11. IsSchema(s)
  BY <1>3, <1>5, <1>10 DEF IsSchema
<1> QED BY <1>11 DEF s

LEMMA JoinedRowIsValid ==
  ASSUME NEW ls, NEW rs, NEW on, Joinable(ls, rs, on), NEW how, NEW nulls \in BOOLEAN,
         NEW a, ValidRow(a, ls), NEW b,
         \/ b = <<>> /\ how = "left"
         \/ b # <<>> /\ ValidRow(b, rs) /\ Matches(a, b, on, nulls)
  PROVE  ValidRow(JoinedRow(a, b, DOMAIN ls, DOMAIN rs, on),
                  DomainAfterJoin(ls, rs, on, how, nulls))
<1> DEFINE s == DomainAfterJoin(ls, rs, on, how, nulls)
           row == JoinedRow(a, b, DOMAIN ls, DOMAIN rs, on)
<1>1. /\ DOMAIN s = JoinedColumns(ls, rs, on)
      /\ \A c \in on : s[c] = JoinedOn(ls, rs, how, nulls, c)
      /\ \A c \in DOMAIN ls \ on : s[LeftName(c, on, DOMAIN rs)] = ls[c]
      /\ \A c \in DOMAIN rs \ on :
           s[RightName(c, on, DOMAIN ls)] = Unmatched(how, rs[c])
  BY DomainOfJoin
<1>2. /\ DOMAIN row = JoinedColumns(ls, rs, on)
      /\ \A c \in DOMAIN ls : row[LeftName(c, on, DOMAIN rs)] = a[c]
      /\ \A c \in DOMAIN rs \ on :
           row[RightName(c, on, DOMAIN ls)] = IF b = <<>> THEN Null ELSE b[c]
  BY CellsOfJoin
<1> HIDE DEF s, row
<1>3. \A c \in on : c \in DOMAIN ls /\ c \in DOMAIN rs /\ LeftName(c, on, DOMAIN rs) = c
  BY KeptName DEF Joinable, ValidateJoin
<1>4. \A c \in DOMAIN ls : ValidCell(a[c], ls[c])
  BY DEF ValidRow
<1>5. ASSUME NEW c \in on
      PROVE  ValidCell(row[c], s[c])
  <2>1. row[c] = a[c] /\ s[c] = JoinedOn(ls, rs, how, nulls, c) /\ ValidCell(a[c], ls[c])
    BY <1>1, <1>2, <1>3, <1>4
  <2>2. CASE how = "left"
    BY <2>1, <2>2 DEF JoinedOn
  <2>3. CASE how # "left"
    <3>1. b # <<>> /\ ValidRow(b, rs) /\ Matches(a, b, on, nulls)
      BY <2>3
    <3>2. ValidCell(b[c], rs[c]) /\ a[c] = b[c] /\ (nulls \/ a[c] # Null)
      BY <3>1, <1>3 DEF ValidRow, Matches
    <3>3. ls[c] = [kind |-> ls[c].kind, allows |-> ls[c].allows]
      BY <1>3 DEF Joinable, IsSchema, Column
    <3>4. s[c].allows = IF nulls THEN ls[c].allows \cap rs[c].allows
                        ELSE (ls[c].allows \cap rs[c].allows) \ {Null}
      BY <2>1, <2>3, <3>3 DEF JoinedOn
    <3> QED BY <2>1, <3>2, <3>4 DEF ValidCell
  <2> QED BY <2>2, <2>3
<1>6. ASSUME NEW c \in DOMAIN ls \ on
      PROVE  ValidCell(row[LeftName(c, on, DOMAIN rs)], s[LeftName(c, on, DOMAIN rs)])
  BY <1>1, <1>2, <1>4
<1>7. ASSUME NEW c \in DOMAIN rs \ on
      PROVE  ValidCell(row[RightName(c, on, DOMAIN ls)], s[RightName(c, on, DOMAIN ls)])
  <2>1. rs[c] = [kind |-> rs[c].kind, allows |-> rs[c].allows]
    BY DEF Joinable, IsSchema, Column
  <2>2. /\ row[RightName(c, on, DOMAIN ls)] = IF b = <<>> THEN Null ELSE b[c]
        /\ s[RightName(c, on, DOMAIN ls)].allows
             = IF how = "left" THEN rs[c].allows \cup {Null} ELSE rs[c].allows
    BY <1>1, <1>2, <2>1 DEF Unmatched
  <2>3. CASE b = <<>>
    BY <2>2, <2>3 DEF ValidCell
  <2>4. CASE b # <<>>
    BY <2>2, <2>4 DEF ValidRow, ValidCell
  <2> QED BY <2>3, <2>4
<1>8. ASSUME NEW x \in JoinedColumns(ls, rs, on)
      PROVE  ValidCell(row[x], s[x])
  BY <1>3, <1>5, <1>6, <1>7 DEF JoinedColumns
<1> QED BY <1>1, <1>2, <1>8 DEF ValidRow, s, row
Partners(R, a, on, nulls) == Restrict(R, {b \in DOMAIN R : Matches(a, b, on, nulls)})
JoinedRows(R, a, ls, rs, on, how, nulls) ==
  IF Partners(R, a, on, nulls) = EmptyBag
  THEN IF how = "left" THEN SetToBag({JoinedRow(a, <<>>, ls, rs, on)}) ELSE EmptyBag
  ELSE Tally([x \in Copies(Partners(R, a, on, nulls)) |-> JoinedRow(a, x[1], ls, rs, on)])

LEMMA JoinIsFlattened ==
  ASSUME NEW L, NEW R, NEW ls, NEW rs, NEW on, NEW how, NEW nulls
  PROVE  Join(L, R, ls, rs, on, how, nulls)
           = Flattened(L, [a \in DOMAIN L |-> JoinedRows(R, a, ls, rs, on, how, nulls)])
BY DEF Join, FlatMapped, BagToSet, JoinedRows, Partners, Where, RestrictDomain, Mapped

LEMMA JoinedRowsAreLegal ==
  ASSUME NEW ls, NEW rs, NEW on, Joinable(ls, rs, on), NEW how, NEW nulls \in BOOLEAN,
         NEW R, Legal(R, rs), NEW a, ValidRow(a, ls)
  PROVE  Legal(JoinedRows(R, a, DOMAIN ls, DOMAIN rs, on, how, nulls),
               DomainAfterJoin(ls, rs, on, how, nulls))
<1> DEFINE s == DomainAfterJoin(ls, rs, on, how, nulls)
           P == Partners(R, a, on, nulls)
           f == [x \in Copies(P) |-> JoinedRow(a, x[1], DOMAIN ls, DOMAIN rs, on)]
<1>1. CASE P = EmptyBag
  <2>1. CASE how = "left"
    <3>1. ValidRow(JoinedRow(a, <<>>, DOMAIN ls, DOMAIN rs, on), s)
      BY <2>1, JoinedRowIsValid
    <3>2. IsFiniteSet({JoinedRow(a, <<>>, DOMAIN ls, DOMAIN rs, on)})
      BY FS_Singleton
    <3> HIDE DEF s
    <3>3. Legal(SetToBag({JoinedRow(a, <<>>, DOMAIN ls, DOMAIN rs, on)}), s)
      BY <3>1, <3>2, SetToBagIsLegal
    <3>4. JoinedRows(R, a, DOMAIN ls, DOMAIN rs, on, how, nulls)
            = SetToBag({JoinedRow(a, <<>>, DOMAIN ls, DOMAIN rs, on)})
      BY <1>1, <2>1, Zenon DEF JoinedRows
    <3> QED BY <3>3, <3>4 DEF s
  <2>2. CASE how # "left"
    <3>1. JoinedRows(R, a, DOMAIN ls, DOMAIN rs, on, how, nulls) = SetToBag({})
      BY <1>1, <2>2 DEF JoinedRows, EmptyBag
    <3> HIDE DEF s
    <3>2. Legal(SetToBag({}), s)
      BY FS_EmptySet, SetToBagIsLegal
    <3> QED BY <3>1, <3>2 DEF s
  <2> QED BY <2>1, <2>2
<1>2. CASE P # EmptyBag
  <2>1. \A b \in DOMAIN R : ValidRow(b, rs) /\ b # <<>>
    <3>1. \A b \in DOMAIN R : ValidRow(b, rs)
      BY LegalRow
    <3>2. DOMAIN rs # {}
      BY DEF Joinable, ValidateJoin
    <3>3. DOMAIN <<>> = {}
      OBVIOUS
    <3> QED BY <3>1, <3>2, <3>3 DEF ValidRow
  <2>2. /\ IsTable(P)
        /\ DOMAIN P = {b \in DOMAIN R : Matches(a, b, on, nulls)}
    BY RestrictIsTable DEF Partners, Legal
  <2> HIDE DEF P, s
  <2>3. \A b \in DOMAIN P : ValidRow(JoinedRow(a, b, DOMAIN ls, DOMAIN rs, on), s)
    BY <2>1, <2>2, JoinedRowIsValid DEF s
  <2>4. IsFiniteSet(Copies(P)) /\ \A x \in Copies(P) : x[1] \in DOMAIN P
    BY <2>2, CopiesOfTable
  <2>5. DOMAIN f = Copies(P) /\ \A x \in DOMAIN f : ValidRow(f[x], s)
    BY <2>3, <2>4
  <2> HIDE DEF f
  <2>6. Legal(Tally(f), s)
    BY <2>4, <2>5, TallyIsLegal
  <2>7. JoinedRows(R, a, DOMAIN ls, DOMAIN rs, on, how, nulls) = Tally(f)
    BY <1>2, Zenon DEF JoinedRows, P, f
  <2> QED BY <2>6, <2>7 DEF s
<1> QED BY <1>1, <1>2

(* What join returns is in the domain that domain_after_join announces.    *)
LEMMA JoinIsLegal ==
  ASSUME NEW ls, NEW rs, NEW on, Joinable(ls, rs, on), NEW how, NEW nulls \in BOOLEAN,
         NEW L, Legal(L, ls), NEW R, Legal(R, rs)
  PROVE  Legal(Join(L, R, DOMAIN ls, DOMAIN rs, on, how, nulls),
               DomainAfterJoin(ls, rs, on, how, nulls))
<1> DEFINE s == DomainAfterJoin(ls, rs, on, how, nulls)
           B == [a \in DOMAIN L |-> JoinedRows(R, a, DOMAIN ls, DOMAIN rs, on, how, nulls)]
<1>1. \A a \in DOMAIN L : Legal(JoinedRows(R, a, DOMAIN ls, DOMAIN rs, on, how, nulls), s)
  BY LegalRow, JoinedRowsAreLegal
<1>2. \A a \in DOMAIN L : Legal(B[a], s)
  BY <1>1
<1>3. Join(L, R, DOMAIN ls, DOMAIN rs, on, how, nulls) = Flattened(L, B)
  BY JoinIsFlattened
<1> HIDE DEF B, s
<1>4. Legal(Flattened(L, B), s)
  BY <1>2, FlattenedIsLegal DEF Legal
<1> QED BY <1>3, <1>4 DEF s

LEMMA NoMoreRows ==
  ASSUME NEW T, IsTable(T), NEW R \in SUBSET DOMAIN T
  PROVE  NumRows(Restrict(T, R)) \in Nat /\ NumRows(Restrict(T, R)) <= NumRows(T)
<1> DEFINE U == Restrict(T, R)
<1>1. IsTable(U) /\ DOMAIN U = R /\ \A r \in R : U[r] = T[r]
  BY RestrictIsTable DEF Restrict
<1> HIDE DEF U
<1>2. \A x \in Copies(U) : x \in Copies(T)
  <2> SUFFICES ASSUME NEW x \in Copies(U) PROVE x \in Copies(T)
    OBVIOUS
  <2>1. PICK r \in DOMAIN U : \E i \in 1 .. U[r] : x = <<r, i>>
    BY <1>1, CopiesOfTable
  <2>2. r \in DOMAIN T /\ \E i \in 1 .. T[r] : x = <<r, i>>
    BY <1>1, <2>1
  <2> QED BY <2>2, CopiesOfTable
<1>3. Copies(U) \in SUBSET Copies(T) /\ IsFiniteSet(Copies(T))
  BY <1>2, CopiesOfTable
<1> QED BY <1>1, <1>3, CopiesOfTable, FS_Subset DEF NumRows, U

LEMMA JoinStabilityType ==
  ASSUME NEW p \in PublicTables, NEW on, NEW nulls
  PROVE  JoinStability(p, on, nulls) \in Nat
<1> DEFINE keys == {k \in Keys(p.rows, on) : nulls \/ Null \notin Range(k)}
           of(k) == NumRows(Restrict(p.rows, {r \in DOMAIN p.rows : Restrict(r, on) = k}))
           S == {0} \cup {of(k) : k \in keys}
<1>1. IsTable(p.rows)
  BY PublicTablesAssumption
<1>2. \A k : of(k) \in Nat /\ of(k) <= NumRows(p.rows)
  BY <1>1, NoMoreRows
<1>3. NumRows(p.rows) \in Int /\ NumRows(p.rows) >= 0
  BY <1>1, CopiesOfTable
<1>4. S \in SUBSET Int /\ S \in SUBSET Nat /\ S # {} /\ \A x \in S : x <= NumRows(p.rows)
  <2> HIDE DEF of, keys
  <2>1. \A x \in S : x = 0 \/ \E k : x = of(k)
    OBVIOUS
  <2>2. 0 \in S
    OBVIOUS
  <2> HIDE DEF S
  <2> QED BY <1>2, <1>3, <2>1, <2>2
<1>5. JoinStability(p, on, nulls) = 1 \/ JoinStability(p, on, nulls) = Max(S)
  BY DEF JoinStability, Group, Where, RestrictDomain, BagToSet
<1> HIDE DEF S
<1>6. \E n \in S : \A x \in S : x <= n
  BY <1>3, <1>4, LargestExists
<1>7. Max(S) \in S
  <2>1. \E n \in S : \A x \in S : n >= x
    BY <1>4, <1>6
  <2> QED BY <2>1 DEF Max
<1> QED
  <2>1. 1 \in Nat
    OBVIOUS
  <2> QED BY <1>4, <1>5, <1>7, <2>1

LEMMA PublicJoinKeepsInv ==
  ASSUME TableInv, NEW how, PublicJoinAs(how)
  PROVE  TableInv'
<1> DEFINE J(T, p, on, nulls) ==
             Join(T, p.rows, DOMAIN schema, DOMAIN p.schema, on, how, nulls)
           d(p, on, nulls) == JoinStability(p, on, nulls)
<1>1. PICK p \in PublicTables, nulls \in BOOLEAN :
        \E on \in SUBSET (DOMAIN schema \cap DOMAIN p.schema) :
          /\ ValidateJoin(schema, p.schema, on)
          /\ CanJoin(DOMAIN schema, DOMAIN p.schema, on)
          /\ Chained(J(left[<<>>], p, on, nulls), J(right[<<>>], p, on, nulls),
                     DomainAfterJoin(schema, p.schema, on, how, nulls), metric,
                     Scaled(bound, d(p, on, nulls) * d(p, on, nulls)))
  BY DEF PublicJoinAs, Chain, ChainParts, Chained
<1>2. PICK on \in SUBSET (DOMAIN schema \cap DOMAIN p.schema) :
        /\ ValidateJoin(schema, p.schema, on)
        /\ CanJoin(DOMAIN schema, DOMAIN p.schema, on)
        /\ Chained(J(left[<<>>], p, on, nulls), J(right[<<>>], p, on, nulls),
                   DomainAfterJoin(schema, p.schema, on, how, nulls), metric,
                   Scaled(bound, d(p, on, nulls) * d(p, on, nulls)))
  BY <1>1
<1>3. metric.over = "table"
  BY <1>2 DEF Chained, Announce
<1>4. Joinable(schema, p.schema, on) /\ Legal(p.rows, p.schema)
  BY <1>2, PublicTablesAssumption DEF Joinable, Legal, TableInv
<1> DEFINE s == DomainAfterJoin(schema, p.schema, on, how, nulls)
<1>5. ASSUME NEW T, Legal(T, schema) PROVE Legal(J(T, p, on, nulls), s)
  BY <1>4, <1>5, JoinIsLegal
<1>6. IsSchema(s)
  BY <1>4, DomainOfJoinIsSchema
<1>7. Scaled(bound, d(p, on, nulls) * d(p, on, nulls)) \in Nat \cup {Infinite}
  BY JoinStabilityType, ScaledType DEF TableInv, TypeOK
<1>8. Legal(J(left[<<>>], p, on, nulls), s) /\ Legal(J(right[<<>>], p, on, nulls), s)
  BY <1>3, <1>5, InHandIsLegal
<1> HIDE DEF J, d, s
<1> QED BY <1>2, <1>6, <1>7, <1>8, ChainedKeepsInv DEF TableInv, s

LEMMA AddUniqueColumnKeepsInv ==
  ASSUME UserFunctions, TableInv, AddUniqueColumn
  PROVE  TableInv'
<1> DEFINE U(T, col) == {Extended(x[1], Only(col, ToString(x))) : x \in Copies(T)}
           new(col) == Only(col, Column("string", {}))
<1>1. PICK col \in NewColumns \ DOMAIN schema :
        Chained(SetToBag(U(left[<<>>], col)), SetToBag(U(right[<<>>], col)),
                Extended(schema, new(col)), IfGroupedBy({col}), bound)
  BY DEF AddUniqueColumn, Chain, ChainParts, Chained
<1>2. metric.over = "table"
  BY <1>1 DEF Chained, Announce
<1>3. ASSUME NEW T, Legal(T, schema)
      PROVE  Legal(SetToBag(U(T, col)), Extended(schema, new(col)))
  <2> DEFINE f == [x \in Copies(T) |-> Extended(x[1], Only(col, ToString(x)))]
  <2>1. \A x : ValidRow(Only(col, ToString(x)), new(col))
    BY DEF UserFunctions, ValidRow, Only, ValidCell
  <2>2. IsFiniteSet(Copies(T)) /\ \A x \in Copies(T) : ValidRow(x[1], schema)
    BY <1>3, CopyIsValid
  <2>3. \A x \in Copies(T) :
          ValidRow(Extended(x[1], Only(col, ToString(x))), Extended(schema, new(col)))
    BY <2>1, <2>2, ExtendedRow
  <2>4. U(T, col) = Range(f) /\ DOMAIN f = Copies(T)
    BY DEF Range
  <2>5. IsFiniteSet(U(T, col))
    <3> HIDE DEF f, U
    <3> QED BY <2>2, <2>4, FiniteRange
  <2>6. \A r \in U(T, col) : ValidRow(r, Extended(schema, new(col)))
    BY <2>3
  <2> HIDE DEF U, new
  <2> QED BY <2>5, <2>6, SetToBagIsLegal
<1>4. IsSchema(new(col))
  BY FS_Singleton DEF IsSchema, Only, Column
<1>5. IsSchema(Extended(schema, new(col)))
  BY <1>4, ExtendedSchema DEF TableInv
<1>6. IsMetric(IfGroupedBy({col}))
  BY DEF IsMetric, IfGroupedBy, SymmetricDifference, Metric
<1> HIDE DEF U, new
<1> QED
  BY <1>1, <1>2, <1>3, <1>5, <1>6, InHandIsLegal, ChainedKeepsInv DEF TableInv, TypeOK

LEMMA ConvertersKeepInv ==
  ASSUME TableInv, Identity \/ UnwrapIfGroupedBy \/ HammingDistanceToSymmetricDifference
  PROVE  TableInv'
<1>1. \A d \in Nat \cup {Infinite} : /\ Square(d) \in Nat \cup {Infinite}
                                     /\ Scaled(d, 4) \in Nat \cup {Infinite}
  <2>1. \A a, b \in Nat : a * b \in Nat
    OBVIOUS
  <2> QED BY <2>1 DEF Square, Scaled
<1>2. \E m, d : /\ Chained(left[<<>>], right[<<>>], schema, m, d)
                /\ IsMetric(m) /\ d \in Nat \cup {Infinite}
  <2>1. CASE Identity
    BY <2>1 DEF Identity, Chain, ChainParts, Same, Chained, TableInv, TypeOK
  <2>2. CASE UnwrapIfGroupedBy
    <3>1. IsMetric(Metric(metric.base, {}, "none", metric.each))
      <4>1. IsMetric(metric) /\ metric.by # {}
        BY <2>2 DEF TableInv, UnwrapIfGroupedBy
      <4>2. metric.base = "rows"
        BY <4>1 DEF IsMetric, IsIfGroupedBy
      <4> QED BY <4>2 DEF IsMetric, IsIfGroupedBy, SymmetricDifference, Metric
    <3>2. (IF metric.agg = "l2" THEN Square(bound) ELSE bound) \in Nat \cup {Infinite}
      BY <1>1 DEF TableInv, TypeOK
    <3> QED BY <2>2, <3>1, <3>2 DEF UnwrapIfGroupedBy, Chain, ChainParts, Same, Chained
  <2>3. CASE HammingDistanceToSymmetricDifference
    <3>1. IsMetric(SymmetricDifference) /\ Scaled(bound, 4) \in Nat \cup {Infinite}
      BY <1>1, PlainMetric DEF TableInv, TypeOK
    <3> QED BY <2>3, <3>1 DEF HammingDistanceToSymmetricDifference, Chain, ChainParts,
                              Same, Chained
  <2> QED BY <2>1, <2>2, <2>3
<1>3. metric.over = "table"
  BY <1>2 DEF Chained, Announce
<1> QED BY <1>2, <1>3, InHandIsLegal, ChainedKeepsInv DEF TableInv

(* Lists and groups: as many parts on both sides.                          *)
LEMMA PartsKeepInv ==
  ASSUME TableInv, NEW m, NEW d, Announce(schema, m, d), IsMetric(m), m.over # "table",
         d \in Nat \cup {Infinite}, NEW K, NEW values,
         left' = Parts(left[<<>>], K, values), right' = Parts(right[<<>>], K, values)
  PROVE  TableInv'
<1>1. /\ schema' = schema /\ metric' = m /\ bound' = d /\ steps' = steps + 1
      /\ steps < MaxSteps /\ SupportsDomain(m, schema) /\ metric.over = "table"
  BY DEF Announce
<1>2. steps' \in 0 .. MaxSteps
  BY <1>1, BoundsAssumption DEF TableInv, TypeOK
<1>3. ASSUME NEW T, Legal(T, schema)
      PROVE  /\ DOMAIN Parts(T, K, values) = values
             /\ \A k \in values : Legal(Parts(T, K, values)[k], schema)
  <2>1. \A k \in values :
          Parts(T, K, values)[k] = Restrict(T, {r \in DOMAIN T : Restrict(r, K) = k})
    BY DEF Parts, Group, Where, RestrictDomain
  <2>2. \A k : Legal(Restrict(T, {r \in DOMAIN T : Restrict(r, K) = k}), schema)
    BY <1>3, RestrictIsLegal, LegalRow DEF Legal
  <2> QED BY <2>1, <2>2 DEF Parts
<1>4. /\ DOMAIN left' = values /\ DOMAIN right' = values
      /\ \A k \in values : Legal(left'[k], schema) /\ Legal(right'[k], schema)
  BY <1>1, <1>3, InHandIsLegal
<1>5. TypeOK'
  BY <1>1, <1>2, <1>4 DEF TypeOK, Legal
<1>6. DomainClosed'
  BY <1>1, <1>4 DEF DomainClosed, Legal
<1> QED BY <1>1, <1>5, <1>6 DEF TableInv

LEMMA PartitionByKeysKeepsInv ==
  ASSUME TableInv, PartitionByKeys
  PROVE  TableInv'
<1>1. PICK K \in SUBSET (PartitionColumns \cap DOMAIN schema), agg \in {"sum", "l2"} :
        \E values \in KeyChoices(K) :
          /\ Announce(schema, PartMetric(agg, K), bound)
          /\ left' = Parts(left[<<>>], K, values) /\ right' = Parts(right[<<>>], K, values)
  BY DEF PartitionByKeys, ChainParts
<1>2. IsMetric(PartMetric(agg, K)) /\ PartMetric(agg, K).over # "table"
  <2> DEFINE rest == metric.by \ K
             m == [metric EXCEPT !.by = rest, !.agg = IF rest = {} THEN "none" ELSE @]
  <2>1. DOMAIN metric = {"base", "by", "agg", "each", "over"} /\ IsMetric(metric)
    BY DEF TableInv, IsMetric, SymmetricDifference, Metric
  <2>2. /\ DOMAIN m = DOMAIN metric
        /\ m.base = metric.base /\ m.by = rest /\ m.each = metric.each
        /\ m.agg = IF rest = {} THEN "none" ELSE metric.agg
    BY <2>1
  <2>3. PartMetric(agg, K) = [m EXCEPT !.over = agg]
    BY DEF PartMetric, Over
  <2> HIDE DEF m
  <2> DEFINE p == PartMetric(agg, K)
  <2>4. /\ DOMAIN p = DOMAIN metric /\ p.over = agg
        /\ p.base = metric.base /\ p.by = rest /\ p.each = metric.each
        /\ p.agg = IF rest = {} THEN "none" ELSE metric.agg
    BY <2>1, <2>2, <2>3
  <2> HIDE DEF p
  <2>5. rest # {} => metric.by # {}
    OBVIOUS
  <2>6. p.base = "hamming" => ~ IsIfGroupedBy(p)
    BY <2>1, <2>4 DEF IsMetric, IsIfGroupedBy
  <2>7. IF p.by = {} THEN p.agg = "none" ELSE p.agg \in {"sum", "l2"}
    BY <2>1, <2>4, <2>5 DEF IsMetric
  <2>8. IsMetric(p) /\ p.over # "table"
    BY <2>1, <2>4, <2>6, <2>7 DEF IsMetric
  <2> QED BY <2>8 DEF p
<1> QED BY <1>1, <1>2, PartsKeepInv DEF TableInv, TypeOK

LEMMA GroupByKeepsInv ==
  ASSUME TableInv, GroupBy
  PROVE  TableInv'
<1> DEFINE d == IF metric.base = "hamming" THEN Scaled(bound, 4) ELSE bound
<1>1. PICK K \in SUBSET DOMAIN schema, agg \in {"sum", "l2"} :
        \E values \in KeyChoices(K) :
          /\ Announce(schema, Over(agg, SymmetricDifference), d)
          /\ left' = Parts(left[<<>>], K, values) /\ right' = Parts(right[<<>>], K, values)
  BY DEF GroupBy, ChainParts
<1>2. IsMetric(Over(agg, SymmetricDifference)) /\ Over(agg, SymmetricDifference).over # "table"
  BY PlainMetric DEF Over, SymmetricDifference, Metric
<1>3. d \in Nat \cup {Infinite}
  <2>1. \A a \in Nat : a * 4 \in Nat
    OBVIOUS
  <2> QED BY <2>1 DEF TableInv, TypeOK, Scaled
<1> HIDE DEF d
<1> QED BY <1>1, <1>2, <1>3, PartsKeepInv

-----------------------------------------------------------------------------
(* The inductive invariant *)

LEMMA InputTablesAreLegal ==
  ASSUME NEW s, NEW T \in TablesIn(s)
  PROVE  Legal(T, s)
<1>1. PICK R : /\ R \in SUBSET RowsIn(s) /\ IsFiniteSet(R)
               /\ T \in [R -> 1 .. MaxRows]
  BY DEF TablesIn
<1>2. IsTable(T)
  BY <1>1 DEF IsTable, IsABag, BagToSet
<1>3. \A row \in RowsIn(s) : ValidRow(row, s)
  BY CellsAssumption DEF RowsIn, ValidRow, ValidCell
<1> QED BY <1>1, <1>2, <1>3 DEF Legal, InDomain, BagToSet

LEMMA InitialTables ==
  ASSUME Init
  PROVE  TableInv
<1>1. PICK in \in Inputs : \E l, r \in TablesIn(in.schema) :
        /\ schema = in.schema /\ metric = in.metric
        /\ left = One(l) /\ right = One(r)
        /\ bound \in 0 .. in.apart /\ steps = 0
  BY DEF Init
<1>2. PICK l \in TablesIn(in.schema), r \in TablesIn(in.schema) :
        /\ schema = in.schema /\ metric = in.metric
        /\ left = One(l) /\ right = One(r)
        /\ bound \in 0 .. in.apart /\ steps = 0
  BY <1>1
<1>3. \A T \in TablesIn(in.schema) : Legal(T, in.schema)
  BY InputTablesAreLegal
<1>4. /\ IsSchema(in.schema) /\ IsMetric(in.metric)
      /\ SupportsDomain(in.metric, in.schema)
  BY InputsAssumption
<1>5. /\ DOMAIN left = {<<>>} /\ DOMAIN right = {<<>>}
      /\ left[<<>>] = l /\ right[<<>>] = r
  BY <1>2 DEF One
<1>6. bound \in Nat /\ steps \in 0 .. MaxSteps
  BY <1>2, BoundsAssumption
<1>7. TypeOK
  BY <1>2, <1>3, <1>4, <1>5, <1>6 DEF TypeOK, Legal
<1>8. DomainClosed
  BY <1>2, <1>3, <1>5 DEF DomainClosed, Legal
<1> QED BY <1>2, <1>4, <1>7, <1>8 DEF TableInv

LEMMA StepKeepsInv ==
  ASSUME UserFunctions, TableInv, [Next]_vars
  PROVE  TableInv'
<1>1. CASE UNCHANGED vars
  BY <1>1 DEF vars, TableInv, TypeOK, DomainClosed
<1>2. CASE DropInfs \/ DropNaNs \/ DropNulls
  BY <1>2, DropRowsKeepsInv DEF DropInfs, DropNaNs, DropNulls
<1>3. CASE ReplaceInfs \/ ReplaceNaNs \/ ReplaceNulls
  <2>1. PICK c \in DOMAIN schema : \E what : \E with \in Replacements(what, c) :
          ReplaceCells(what, c, with)
    BY <1>3 DEF ReplaceInfs, ReplaceNaNs, ReplaceNulls
  <2> QED BY <2>1, ReplaceCellsKeepsInv DEF Replacements
<1>4. CASE PublicJoin
  BY <1>4, PublicJoinKeepsInv DEF PublicJoin
<1>5. CASE Identity \/ UnwrapIfGroupedBy \/ HammingDistanceToSymmetricDifference
  BY <1>5, ConvertersKeepInv
<1> QED
  BY <1>1, <1>2, <1>3, <1>4, <1>5, FilterKeepsInv, SelectKeepsInv, RenameKeepsInv,
     MapKeepsInv, FlatMapKeepsInv, GroupingFlatMapKeepsInv, FlatMapByKeyKeepsInv,
     LimitRowsPerGroupKeepsInv, LimitKeysKeepsInv, LimitRowsPerKeyPerGroupKeepsInv,
     AddUniqueColumnKeepsInv, PartitionByKeysKeepsInv, GroupByKeepsInv DEF Next

LEMMA TablesStay ==
  ASSUME UserFunctions
  PROVE  Spec => []TableInv
<1>1. Init => TableInv
  BY InitialTables
<1>2. TableInv /\ [Next]_vars => TableInv'
  BY StepKeepsInv
<1> QED BY <1>1, <1>2, PTL DEF Spec

(* The types of chains: every transformation returns tables, as many on    *)
(* both sides, has a bound that is a number, and announces a metric that   *)
(* supports the domain it announces.                                       *)
THEOREM ChainType ==
  ASSUME UserFunctions
  PROVE  Spec => []TypeOK
<1>1. TableInv => TypeOK
  BY DEF TableInv
<1> QED BY <1>1, TablesStay, PTL

(* What a chain returns is in the domain it announces, whatever was        *)
(* chained with whatever: a column has a special value only if the last    *)
(* transformation's output domain allows it, and no table has other        *)
(* columns than the domain (the output_domain of each constructor).        *)
THEOREM ChainDomainClosed ==
  ASSUME UserFunctions
  PROVE  Spec => []DomainClosed
<1>1. TableInv => DomainClosed
  BY DEF TableInv
<1> QED BY <1>1, TablesStay, PTL

-----------------------------------------------------------------------------
(* Truncation: what truncate_large_groups owes to the stability functions   *)
(* that use it, for tables of any size, any grouping, threshold and hash.   *)

LEMMA UpToFinite ==
  ASSUME NEW S, IsFiniteSet(S), NEW group, NEW rank, NEW x
  PROVE  /\ IsFiniteSet(UpTo(S, group, rank, x))
         /\ Place(S, group, rank, x) \in Nat
  <1>1. UpTo(S, group, rank, x) \subseteq S
    BY DEF UpTo
  <1>2. IsFiniteSet(UpTo(S, group, rank, x))
    BY <1>1, FS_Subset
  <1> QED
    BY <1>2, FS_CardinalityType DEF Place

(* Truncation works group by group: whether a copy is kept depends on the  *)
(* copies of its own group only.  So groups that agree before              *)
(* truncate_large_groups agree after it, and LimitRowsPerGroup may leave   *)
(* d_in unchanged under IfGroupedBy.                                       *)
THEOREM TruncationIsLocal ==
  ASSUME NEW S, NEW U, NEW group, NEW n, NEW rank, NEW x,
         \A y : group[y] = group[x] => (y \in S <=> y \in U)
  PROVE  x \in Kept(S, group, n, rank) <=> x \in Kept(U, group, n, rank)
  <1>1. UpTo(S, group, rank, x) = UpTo(U, group, rank, x)
    BY DEF UpTo
  <1>2. Place(S, group, rank, x) = Place(U, group, rank, x)
    BY <1>1 DEF Place
  <1>3. x \in S <=> x \in U
    OBVIOUS
  <1> QED
    BY <1>2, <1>3 DEF Kept

(* One copy more moves a copy's place by at most one, and only if it comes *)
(* before it in its group.                                                 *)
LEMMA PlaceAfterInsertion ==
  ASSUME NEW S, IsFiniteSet(S), NEW e, e \notin S, NEW group, NEW rank, NEW x
  PROVE  Place(S \cup {e}, group, rank, x) =
           IF group[e] = group[x] /\ rank[e] <= rank[x]
           THEN Place(S, group, rank, x) + 1 ELSE Place(S, group, rank, x)
  <1>1. CASE group[e] = group[x] /\ rank[e] <= rank[x]
    <2>1. UpTo(S \cup {e}, group, rank, x) = UpTo(S, group, rank, x) \cup {e}
      BY <1>1 DEF UpTo
    <2>2. e \notin UpTo(S, group, rank, x)
      BY DEF UpTo
    <2>3. IsFiniteSet(UpTo(S, group, rank, x))
      BY UpToFinite
    <2>4. Cardinality(UpTo(S, group, rank, x) \cup {e})
            = Cardinality(UpTo(S, group, rank, x)) + 1
      BY <2>2, <2>3, FS_AddElement
    <2> QED
      BY <1>1, <2>1, <2>4 DEF Place
  <1>2. CASE ~ (group[e] = group[x] /\ rank[e] <= rank[x])
    <2>1. UpTo(S \cup {e}, group, rank, x) = UpTo(S, group, rank, x)
      BY <1>2 DEF UpTo
    <2> QED
      BY <1>2, <2>1 DEF Place
  <1> QED
    BY <1>1, <1>2

(* In one group, a later copy has a larger place.                          *)
LEMMA PlaceIncreases ==
  ASSUME NEW S, IsFiniteSet(S), NEW group, NEW rank, NEW x, NEW y \in S,
         group[x] = group[y], rank[x] \in Int, rank[y] \in Int,
         \A z \in S : rank[z] \in Int, rank[x] < rank[y]
  PROVE  Place(S, group, rank, x) < Place(S, group, rank, y)
  <1> DEFINE X == UpTo(S, group, rank, x)
             Y == UpTo(S, group, rank, y)
  <1>1. X \subseteq Y /\ y \in Y /\ y \notin X
    <2>1. \A z \in S : group[z] = group[x] <=> group[z] = group[y]
      OBVIOUS
    <2>2. \A z \in S : rank[z] <= rank[x] => rank[z] <= rank[y]
      OBVIOUS
    <2>3. ~ (rank[y] <= rank[x]) /\ rank[y] <= rank[y]
      OBVIOUS
    <2> QED
      BY <2>1, <2>2, <2>3 DEF UpTo
  <1>2. IsFiniteSet(X) /\ IsFiniteSet(Y)
    BY UpToFinite
  <1>3. Cardinality(X \cup {y}) = Cardinality(X) + 1
    BY <1>1, <1>2, FS_AddElement
  <1>4. Cardinality(X \cup {y}) <= Cardinality(Y)
    BY <1>1, <1>2, FS_Subset
  <1>5. Cardinality(X) \in Nat /\ Cardinality(Y) \in Nat
    BY <1>2, FS_CardinalityType
  <1> QED
    BY <1>3, <1>4, <1>5 DEF Place

(* Adding a copy e to a table changes what truncate_large_groups keeps by  *)
(* at most two copies: e may come in, and then at most one copy goes out,  *)
(* which it does only if e came in.  This is the TRUNCATE stability of 2   *)
(* in PrivateJoin.truncation_strategy_stability; it needs every copy to be *)
(* hashed the same on both neighbours, and no two copies to be tied.       *)
THEOREM TruncationIsStable ==
  ASSUME NEW S, IsFiniteSet(S), NEW e, e \notin S, NEW group, NEW n \in Nat,
         NEW rank, \A x \in S \cup {e} : rank[x] \in Int,
         \A x, y \in S \cup {e} : rank[x] = rank[y] => x = y
  PROVE  LET before == Kept(S, group, n, rank)
             after == Kept(S \cup {e}, group, n, rank)
         IN /\ after \ before \subseteq {e}
            /\ \A x, y \in before \ after : x = y
            /\ before \ after # {} => e \in after
  <1> DEFINE T == S \cup {e}
             before == Kept(S, group, n, rank)
             after == Kept(T, group, n, rank)
             p(x) == Place(S, group, rank, x)
  <1>1. \A x : p(x) \in Nat
    BY UpToFinite
  <1>2. \A x : Place(T, group, rank, x) =
                 IF group[e] = group[x] /\ rank[e] <= rank[x]
                 THEN p(x) + 1 ELSE p(x)
    BY PlaceAfterInsertion
  <1>3. after \ before \subseteq {e}
    <2> SUFFICES ASSUME NEW x \in after, x # e PROVE x \in before
      OBVIOUS
    <2>1. x \in S /\ Place(T, group, rank, x) <= n
      BY DEF Kept
    <2>2. p(x) <= n
      BY <1>1, <1>2, <2>1
    <2> QED
      BY <2>1, <2>2 DEF Kept
  <1>4. ASSUME NEW x \in before \ after
        PROVE  x \in S /\ p(x) = n /\ group[e] = group[x] /\ rank[e] < rank[x]
    <2>1. x \in S /\ p(x) <= n
      BY <1>4 DEF Kept
    <2>2. ~ (Place(T, group, rank, x) <= n)
      BY <1>4, <2>1 DEF Kept
    <2>3. group[e] = group[x] /\ rank[e] <= rank[x]
      BY <1>2, <2>1, <2>2
    <2>4. Place(T, group, rank, x) = p(x) + 1
      BY <1>2, <2>3
    <2>5. p(x) = n
      BY <1>1, <2>1, <2>2, <2>4
    <2>6. rank[e] < rank[x]
      BY <2>1, <2>3
    <2> QED
      BY <2>1, <2>3, <2>5, <2>6
  <1>5. \A x, y \in before \ after : x = y
    <2> SUFFICES ASSUME NEW x \in before \ after, NEW y \in before \ after,
                        rank[x] < rank[y]
                 PROVE  FALSE
      <3>1. \A x, y \in before \ after : x \in S /\ y \in S
        BY <1>4
      <3> QED
        BY <3>1
    <2>1. /\ x \in S /\ p(x) = n /\ group[e] = group[x]
          /\ y \in S /\ p(y) = n /\ group[e] = group[y]
      BY <1>4
    <2>2. group[x] = group[y]
      BY <2>1
    <2>3. p(x) < p(y)
      BY <2>1, <2>2, PlaceIncreases
    <2> QED
      BY <2>1, <2>3
  <1>6. before \ after # {} => e \in after
    <2> SUFFICES ASSUME NEW x \in before \ after PROVE e \in after
      OBVIOUS
    <2>1. x \in S /\ p(x) = n /\ group[e] = group[x] /\ rank[e] < rank[x]
      BY <1>4
    <2>2. group[e] = group[x]
      BY <2>1
    <2>3. p(e) < p(x)
      BY <2>1, <2>2, PlaceIncreases
    <2>4. Place(T, group, rank, e) = p(e) + 1
      BY <1>2
    <2> QED
      BY <1>1, <2>1, <2>3, <2>4 DEF Kept
  <1> QED
    BY <1>3, <1>5, <1>6

-----------------------------------------------------------------------------
(* Groups *)

(* Tables that have the same rows in the group k.                          *)
AgreeAt(T, U, C, k) ==
  \A x : Restrict(x, C) = k => /\ x \in DOMAIN T <=> x \in DOMAIN U
                               /\ x \in DOMAIN T => T[x] = U[x]

LEMMA AgreeingGroups ==
  ASSUME NEW T, NEW U, NEW C, NEW k
  PROVE  Group(T, C, k) = Group(U, C, k) <=> AgreeAt(T, U, C, k)
<1> DEFINE f == Group(T, C, k)
           g == Group(U, C, k)
<1>1. /\ DOMAIN f = {x \in DOMAIN T : Restrict(x, C) = k}
      /\ \A x \in DOMAIN f : f[x] = T[x]
      /\ f = [x \in DOMAIN f |-> f[x]]
  BY DEF Group, Where, RestrictDomain, Restrict
<1>2. /\ DOMAIN g = {x \in DOMAIN U : Restrict(x, C) = k}
      /\ \A x \in DOMAIN g : g[x] = U[x]
      /\ g = [x \in DOMAIN g |-> g[x]]
  BY DEF Group, Where, RestrictDomain, Restrict
<1> HIDE DEF f, g
<1>3. ASSUME f = g PROVE AgreeAt(T, U, C, k)
  BY <1>1, <1>2, <1>3 DEF AgreeAt
<1>4. ASSUME AgreeAt(T, U, C, k) PROVE f = g
  <2>1. DOMAIN f = DOMAIN g
    BY <1>1, <1>2, <1>4 DEF AgreeAt
  <2>2. \A x \in DOMAIN f : f[x] = g[x]
    <3> SUFFICES ASSUME NEW x \in DOMAIN f PROVE f[x] = g[x]
      OBVIOUS
    <3>1. Restrict(x, C) = k /\ x \in DOMAIN T /\ f[x] = T[x] /\ g[x] = U[x]
      BY <1>1, <1>2, <2>1
    <3>2. T[x] = U[x]
      BY <1>4, <3>1 DEF AgreeAt
    <3> QED BY <3>1, <3>2
  <2> QED BY <1>1, <1>2, <2>1, <2>2
<1>5. f = g <=> AgreeAt(T, U, C, k)
  BY <1>3, <1>4
<1> QED BY <1>5 DEF f, g

LEMMA DifferingGroups ==
  ASSUME NEW T, NEW U, NEW C, NEW k
  PROVE  k \in Differ(C, T, U) <=> ~ AgreeAt(T, U, C, k)
<1>1. ~ AgreeAt(T, U, C, k) => k \in Keys(T, C) \cup Keys(U, C)
  BY DEF AgreeAt, Keys, BagToSet
<1> QED BY <1>1, AgreeingGroups DEF Differ, Agree

LEMMA RestrictAgrees ==
  ASSUME NEW T, NEW U, NEW C, NEW k, AgreeAt(T, U, C, k),
         NEW P \in SUBSET DOMAIN T, NEW Q \in SUBSET DOMAIN U,
         \A x : Restrict(x, C) = k => (x \in P <=> x \in Q)
  PROVE  AgreeAt(Restrict(T, P), Restrict(U, Q), C, k)
<1>1. \A V, R : /\ DOMAIN Restrict(V, R) = R
                /\ \A x \in R : Restrict(V, R)[x] = V[x]
  BY DEF Restrict
<1>2. ASSUME NEW x, Restrict(x, C) = k
      PROVE  x \in P => x \in Q /\ Restrict(T, P)[x] = Restrict(U, Q)[x]
  BY <1>1, <1>2 DEF AgreeAt
<1> QED BY <1>1, <1>2 DEF AgreeAt

LEMMA CopiesAgree ==
  ASSUME NEW T, IsTable(T), NEW U, IsTable(U), NEW C, NEW k, AgreeAt(T, U, C, k), NEW y
  PROVE  /\ y \in Copies(T) /\ Restrict(y[1], C) = k => y \in Copies(U)
         /\ y \in Copies(U) /\ Restrict(y[1], C) = k => y \in Copies(T)
<1>1. ASSUME y \in Copies(T), Restrict(y[1], C) = k PROVE y \in Copies(U)
  <2>1. PICK r \in DOMAIN T : \E i \in 1 .. T[r] : y = <<r, i>>
    BY <1>1, CopiesOfTable
  <2>2. y[1] = r
    BY <2>1
  <2>3. r \in DOMAIN U /\ T[r] = U[r]
    BY <1>1, <2>2 DEF AgreeAt
  <2> QED BY <2>1, <2>3, CopiesOfTable
<1>2. ASSUME y \in Copies(U), Restrict(y[1], C) = k PROVE y \in Copies(T)
  <2>1. PICK r \in DOMAIN U : \E i \in 1 .. U[r] : y = <<r, i>>
    BY <1>2, CopiesOfTable
  <2>2. y[1] = r
    BY <2>1
  <2>3. r \in DOMAIN T /\ T[r] = U[r]
    BY <1>2, <2>2 DEF AgreeAt
  <2> QED BY <2>1, <2>3, CopiesOfTable
<1> QED BY <1>1, <1>2

LEMMA TallyAgrees ==
  ASSUME NEW f, NEW g, NEW C, NEW k,
         \A y \in DOMAIN f : Restrict(f[y], C) = k => y \in DOMAIN g /\ g[y] = f[y],
         \A y \in DOMAIN g : Restrict(g[y], C) = k => y \in DOMAIN f /\ f[y] = g[y]
  PROVE  AgreeAt(Tally(f), Tally(g), C, k)
<1> SUFFICES ASSUME NEW x, Restrict(x, C) = k
             PROVE  /\ x \in DOMAIN Tally(f) <=> x \in DOMAIN Tally(g)
                    /\ x \in DOMAIN Tally(f) => Tally(f)[x] = Tally(g)[x]
  BY DEF AgreeAt
<1> DEFINE N(h) == {y \in DOMAIN h : h[y] = x}
<1>1. N(f) = N(g)
  OBVIOUS
<1>2. \A h : x \in DOMAIN Tally(h) <=> N(h) # {}
  BY DEF Tally, Range
<1>3. \A h : x \in DOMAIN Tally(h) => Tally(h)[x] = Cardinality(N(h))
  BY DEF Tally
<1> HIDE DEF N
<1> QED BY <1>1, <1>2, <1>3

(* Rows that stay in their groups: F makes one row of each copy.           *)
LEMMA MappedAgrees ==
  ASSUME NEW T, IsTable(T), NEW U, IsTable(U), NEW C, NEW k, AgreeAt(T, U, C, k),
         NEW D, NEW l, NEW f, NEW g, DOMAIN f = Copies(T), DOMAIN g = Copies(U),
         \A y \in Copies(T) : Restrict(f[y], D) = l => Restrict(y[1], C) = k,
         \A y \in Copies(U) : Restrict(g[y], D) = l => Restrict(y[1], C) = k,
         \A y \in Copies(T) : y \in Copies(U) => f[y] = g[y]
  PROVE  AgreeAt(Tally(f), Tally(g), D, l)
<1>1. \A y \in DOMAIN f : Restrict(f[y], D) = l => y \in DOMAIN g /\ g[y] = f[y]
  BY CopiesAgree
<1>2. \A y \in DOMAIN g : Restrict(g[y], D) = l => y \in DOMAIN f /\ f[y] = g[y]
  BY CopiesAgree
<1> QED BY <1>1, <1>2, TallyAgrees

LEMMA FlattenedAgrees ==
  ASSUME NEW T, IsTable(T), NEW U, IsTable(U), NEW C, NEW k, AgreeAt(T, U, C, k),
         NEW B, \A r \in DOMAIN T : IsTable(B[r]),
         NEW E, \A r \in DOMAIN U : IsTable(E[r]),
         NEW D, NEW l,
         \A r \in DOMAIN T : \A x \in DOMAIN B[r] :
           Restrict(x, D) = l => Restrict(r, C) = k,
         \A r \in DOMAIN U : \A x \in DOMAIN E[r] :
           Restrict(x, D) = l => Restrict(r, C) = k,
         \A r \in DOMAIN T : r \in DOMAIN U /\ Restrict(r, C) = k => B[r] = E[r]
  PROVE  AgreeAt(Flattened(T, B), Flattened(U, E), D, l)
<1> DEFINE f == [x \in Flat(T, B) |-> x[2][1]]
           g == [x \in Flat(U, E) |-> x[2][1]]
<1>1. /\ Flattened(T, B) = Tally(f)
      /\ \A x : x \in Flat(T, B) <=> \E y \in Copies(T) : \E z \in Copies(B[y[1]]) : x = <<y, z>>
      /\ \A x \in Flat(T, B) : /\ x[1] \in Copies(T)
                               /\ x[1][1] \in DOMAIN T
                               /\ x[2] \in Copies(B[x[1][1]])
                               /\ x[2][1] \in DOMAIN B[x[1][1]]
  BY FlatCopies
<1>2. /\ Flattened(U, E) = Tally(g)
      /\ \A x : x \in Flat(U, E) <=> \E y \in Copies(U) : \E z \in Copies(E[y[1]]) : x = <<y, z>>
      /\ \A x \in Flat(U, E) : /\ x[1] \in Copies(U)
                               /\ x[1][1] \in DOMAIN U
                               /\ x[2] \in Copies(E[x[1][1]])
                               /\ x[2][1] \in DOMAIN E[x[1][1]]
  BY FlatCopies
<1>3. ASSUME NEW x \in Flat(T, B), Restrict(x[2][1], D) = l
      PROVE  x \in Flat(U, E)
  <2>0. PICK y \in Copies(T) : \E z \in Copies(B[y[1]]) : x = <<y, z>>
    BY <1>1
  <2>1. PICK z \in Copies(B[y[1]]) : x = <<y, z>>
    BY <2>0
  <2>2. Restrict(y[1], C) = k /\ y[1] \in DOMAIN T
    BY <1>1, <1>3, <2>1
  <2>3. y \in Copies(U)
    BY <2>1, <2>2, CopiesAgree
  <2>4. B[y[1]] = E[y[1]]
    BY <2>2, <2>3, CopiesOfTable
  <2> QED BY <1>2, <2>1, <2>3, <2>4
<1>4. ASSUME NEW x \in Flat(U, E), Restrict(x[2][1], D) = l
      PROVE  x \in Flat(T, B)
  <2>0. PICK y \in Copies(U) : \E z \in Copies(E[y[1]]) : x = <<y, z>>
    BY <1>2
  <2>1. PICK z \in Copies(E[y[1]]) : x = <<y, z>>
    BY <2>0
  <2>2. Restrict(y[1], C) = k /\ y[1] \in DOMAIN U
    BY <1>2, <1>4, <2>1
  <2>3. y \in Copies(T)
    BY <2>1, <2>2, CopiesAgree
  <2>4. B[y[1]] = E[y[1]]
    BY <2>2, <2>3, CopiesOfTable
  <2> QED BY <1>1, <2>1, <2>3, <2>4
<1>5. /\ DOMAIN f = Flat(T, B) /\ \A x \in DOMAIN f : f[x] = x[2][1]
      /\ DOMAIN g = Flat(U, E) /\ \A x \in DOMAIN g : g[x] = x[2][1]
  OBVIOUS
<1> HIDE DEF f, g
<1>6. AgreeAt(Tally(f), Tally(g), D, l)
  BY <1>3, <1>4, <1>5, TallyAgrees
<1> QED BY <1>1, <1>2, <1>6

-----------------------------------------------------------------------------
(* Steps within groups *)

(* Groups that agree on both sides still agree after a step.               *)
GroupsStay ==
  IsIfGroupedBy(metric) /\ metric' = metric =>
    \A k : AgreeAt(left[<<>>], right[<<>>], Columns(metric), k)
             => AgreeAt(left'[<<>>], right'[<<>>], Columns(metric), k)

LEMMA ColumnsOfGroups ==
  ASSUME TableInv, IsIfGroupedBy(metric)
  PROVE  /\ Columns(metric) \subseteq DOMAIN schema
         /\ \A c \in Columns(metric) : schema[c].kind # "float"
BY DEF TableInv, TypeOK, SupportsDomain, IsIfGroupedBy, Columns

LEMMA ChainedGroups ==
  ASSUME TableInv, NEW l, NEW r, NEW s, NEW m, NEW d, Chained(l, r, s, m, d),
         ASSUME IsIfGroupedBy(metric), metric' = metric,
                IsTable(left[<<>>]), IsTable(right[<<>>]),
                Legal(left[<<>>], schema), Legal(right[<<>>], schema),
                NEW k, AgreeAt(left[<<>>], right[<<>>], Columns(metric), k)
         PROVE  AgreeAt(l, r, Columns(metric), k)
  PROVE  GroupsStay
<1>1. left'[<<>>] = l /\ right'[<<>>] = r /\ metric.over = "table"
  BY DEF Chained, Announce, One
<1>2. Legal(left[<<>>], schema) /\ Legal(right[<<>>], schema)
  BY <1>1, InHandIsLegal
<1> QED BY <1>1, <1>2 DEF GroupsStay, Legal

LEMMA FilterIsLocal ==
  ASSUME TableInv, Filter
  PROVE  GroupsStay
<1>1. PICK c \in DOMAIN schema, v \in Cells :
        Chained(Restrict(left[<<>>], {r \in DOMAIN left[<<>>] : r[c] = v}),
                Restrict(right[<<>>], {r \in DOMAIN right[<<>>] : r[c] = v}),
                schema, metric, bound)
  BY DEF Filter, Chain, ChainParts, Where, RestrictDomain, Chained
<1>2. ASSUME NEW T, NEW U, NEW C, NEW k, AgreeAt(T, U, C, k)
      PROVE  AgreeAt(Restrict(T, {r \in DOMAIN T : r[c] = v}),
                     Restrict(U, {r \in DOMAIN U : r[c] = v}), C, k)
  <2> DEFINE P == {r \in DOMAIN T : r[c] = v}
             Q == {r \in DOMAIN U : r[c] = v}
  <2>1. \A x : Restrict(x, C) = k => (x \in P <=> x \in Q)
    BY <1>2 DEF AgreeAt
  <2>2. P \in SUBSET DOMAIN T /\ Q \in SUBSET DOMAIN U
    OBVIOUS
  <2> HIDE DEF P, Q
  <2>3. AgreeAt(Restrict(T, P), Restrict(U, Q), C, k)
    BY <1>2, <2>1, <2>2, RestrictAgrees
  <2> QED BY <2>3 DEF P, Q
<1> QED BY <1>1, <1>2, ChainedGroups

LEMMA DropRowsIsLocal ==
  ASSUME TableInv, NEW what, DropRows(what)
  PROVE  GroupsStay
<1>1. PICK C \in SUBSET DOMAIN schema :
        Chained(Restrict(left[<<>>], {r \in DOMAIN left[<<>>] : \A c \in C : r[c] \notin what}),
                Restrict(right[<<>>], {r \in DOMAIN right[<<>>] : \A c \in C : r[c] \notin what}),
                Without(what, C), metric, bound)
  BY DEF DropRows, Chain, ChainParts, Where, RestrictDomain, Chained
<1>2. ASSUME NEW T, NEW U, NEW D, NEW k, AgreeAt(T, U, D, k)
      PROVE  AgreeAt(Restrict(T, {r \in DOMAIN T : \A c \in C : r[c] \notin what}),
                     Restrict(U, {r \in DOMAIN U : \A c \in C : r[c] \notin what}), D, k)
  <2> DEFINE P == {r \in DOMAIN T : \A c \in C : r[c] \notin what}
             Q == {r \in DOMAIN U : \A c \in C : r[c] \notin what}
  <2>1. \A x : Restrict(x, D) = k => (x \in P <=> x \in Q)
    BY <1>2 DEF AgreeAt
  <2>2. P \in SUBSET DOMAIN T /\ Q \in SUBSET DOMAIN U
    OBVIOUS
  <2> HIDE DEF P, Q
  <2>3. AgreeAt(Restrict(T, P), Restrict(U, Q), D, k)
    BY <1>2, <2>1, <2>2, RestrictAgrees
  <2> QED BY <2>3 DEF P, Q
<1> QED BY <1>1, <1>2, ChainedGroups

LEMMA SelectIsLocal ==
  ASSUME TableInv, Select
  PROVE  GroupsStay
<1>1. PICK C \in SUBSET DOMAIN schema :
        /\ IsIfGroupedBy(metric) => Columns(metric) \subseteq C
        /\ Chained(Tally([x \in Copies(left[<<>>]) |-> Restrict(x[1], C)]),
                   Tally([x \in Copies(right[<<>>]) |-> Restrict(x[1], C)]),
                   Restrict(schema, C), metric, bound)
  BY DEF Select, Chain, ChainParts, Mapped, Chained
<1>2. ASSUME NEW T, IsTable(T), NEW U, IsTable(U), NEW D \in SUBSET C, NEW k,
             AgreeAt(T, U, D, k)
      PROVE  AgreeAt(Tally([x \in Copies(T) |-> Restrict(x[1], C)]),
                     Tally([x \in Copies(U) |-> Restrict(x[1], C)]), D, k)
  <2> DEFINE f == [x \in Copies(T) |-> Restrict(x[1], C)]
             g == [x \in Copies(U) |-> Restrict(x[1], C)]
  <2>1. \A r : Restrict(Restrict(r, C), D) = Restrict(r, D)
    BY DEF Restrict
  <2>2. /\ DOMAIN f = Copies(T) /\ \A y \in Copies(T) : f[y] = Restrict(y[1], C)
        /\ DOMAIN g = Copies(U) /\ \A y \in Copies(U) : g[y] = Restrict(y[1], C)
    OBVIOUS
  <2> HIDE DEF f, g
  <2>3. AgreeAt(Tally(f), Tally(g), D, k)
    BY <1>2, <2>1, <2>2, MappedAgrees
  <2> QED BY <2>3 DEF f, g
<1>3. IsIfGroupedBy(metric) => Columns(metric) \in SUBSET C
  BY <1>1
<1> QED BY <1>1, <1>2, <1>3, ChainedGroups

LEMMA RestrictExtended ==
  ASSUME NEW r, NEW q, NEW C \in SUBSET DOMAIN r
  PROVE  Restrict(Extended(r, q), C) = Restrict(r, C)
BY DEF Restrict, Extended

LEMMA MapIsLocal ==
  ASSUME UserFunctions, TableInv, Map
  PROVE  GroupsStay
<1>1. PICK t \in RowTransformers :
        /\ t.single
        /\ IsIfGroupedBy(metric) => t.augment
        /\ Chained(Tally([x \in Copies(left[<<>>]) |-> OutputRows(t, x[1], 1)[1]]),
                   Tally([x \in Copies(right[<<>>]) |-> OutputRows(t, x[1], 1)[1]]),
                   OutputSchema(t), metric, bound)
  BY DEF Map, Chain, ChainParts, Mapped, Chained
<1>2. ASSUME t.augment, NEW C \in SUBSET DOMAIN schema,
             NEW T, Legal(T, schema), NEW U, Legal(U, schema), NEW k, AgreeAt(T, U, C, k)
      PROVE  AgreeAt(Tally([x \in Copies(T) |-> OutputRows(t, x[1], 1)[1]]),
                     Tally([x \in Copies(U) |-> OutputRows(t, x[1], 1)[1]]), C, k)
  <2> DEFINE f == [x \in Copies(T) |-> OutputRows(t, x[1], 1)[1]]
             g == [x \in Copies(U) |-> OutputRows(t, x[1], 1)[1]]
  <2>1. ASSUME NEW r, ValidRow(r, schema)
        PROVE  Restrict(OutputRows(t, r, 1)[1], C) = Restrict(r, C)
    <3>1. 1 \in DOMAIN OutputRows(t, r, 1)
      BY <1>1, <2>1, OutputIsValid
    <3>2. OutputRows(t, r, 1)[1] = OutputRow(t, r, RowsOf(t, r)[1])
      BY <3>1 DEF OutputRows
    <3>3. OutputRow(t, r, RowsOf(t, r)[1]) = Extended(r, RowsOf(t, r)[1])
      BY <1>2 DEF OutputRow
    <3>4. C \in SUBSET DOMAIN r
      BY <2>1 DEF ValidRow
    <3> QED BY <3>2, <3>3, <3>4, RestrictExtended
  <2>2. /\ DOMAIN f = Copies(T) /\ \A y \in Copies(T) : f[y] = OutputRows(t, y[1], 1)[1]
        /\ DOMAIN g = Copies(U) /\ \A y \in Copies(U) : g[y] = OutputRows(t, y[1], 1)[1]
    OBVIOUS
  <2>3. /\ IsTable(T) /\ \A y \in Copies(T) : ValidRow(y[1], schema)
        /\ IsTable(U) /\ \A y \in Copies(U) : ValidRow(y[1], schema)
    BY <1>2, CopyIsValid DEF Legal
  <2> HIDE DEF f, g
  <2>4. AgreeAt(Tally(f), Tally(g), C, k)
    BY <1>2, <2>1, <2>2, <2>3, MappedAgrees
  <2> QED BY <2>4 DEF f, g
<1> QED BY <1>1, <1>2, ColumnsOfGroups, ChainedGroups

LEMMA FlatMapIsLocal ==
  ASSUME UserFunctions, TableInv, FlatMap
  PROVE  GroupsStay
<1> DEFINE B(T, t, max) == [r \in DOMAIN T |-> Tally(OutputRows(t, r, max))]
<1>1. PICK t \in RowTransformers, max \in Thresholds \cup {Infinite} :
        /\ metric = SymmetricDifference \/ t.augment
        /\ Chained(Flattened(left[<<>>], B(left[<<>>], t, max)),
                   Flattened(right[<<>>], B(right[<<>>], t, max)),
                   OutputSchema(t), metric, FlatMapBound(max))
  BY DEF FlatMap, Chain, ChainParts, FlatMapped, BagToSet, Chained
<1>2. IsIfGroupedBy(metric) => t.augment
  BY <1>1 DEF IsIfGroupedBy, SymmetricDifference, Metric
<1>3. max \in Nat \cup {Infinite}
  BY BoundsAssumption
<1>4. ASSUME t.augment, NEW C \in SUBSET DOMAIN schema,
             NEW T, Legal(T, schema), NEW U, Legal(U, schema), NEW k, AgreeAt(T, U, C, k)
      PROVE  AgreeAt(Flattened(T, B(T, t, max)), Flattened(U, B(U, t, max)), C, k)
  <2>1. ASSUME NEW r, ValidRow(r, schema)
        PROVE  /\ IsTable(Tally(OutputRows(t, r, max)))
               /\ \A x \in DOMAIN Tally(OutputRows(t, r, max)) : Restrict(x, C) = Restrict(r, C)
    <3>1. IsFiniteSet(DOMAIN OutputRows(t, r, max))
      BY <1>3, <2>1, OutputIsValid
    <3>2. \A i \in DOMAIN OutputRows(t, r, max) :
            OutputRows(t, r, max)[i] = Extended(r, RowsOf(t, r)[i])
      BY <1>4 DEF OutputRows, OutputRow
    <3>3. C \in SUBSET DOMAIN r
      BY <2>1 DEF ValidRow
    <3>4. \A x \in Range(OutputRows(t, r, max)) : Restrict(x, C) = Restrict(r, C)
      BY <3>2, <3>3, RestrictExtended DEF Range
    <3> QED BY <3>1, <3>4, TallyIsTable
  <2>2. /\ \A r \in DOMAIN T : B(T, t, max)[r] = Tally(OutputRows(t, r, max))
        /\ \A r \in DOMAIN U : B(U, t, max)[r] = Tally(OutputRows(t, r, max))
    OBVIOUS
  <2>3. /\ IsTable(T) /\ \A r \in DOMAIN T : ValidRow(r, schema)
        /\ IsTable(U) /\ \A r \in DOMAIN U : ValidRow(r, schema)
    BY <1>4, LegalRow DEF Legal
  <2> DEFINE F == B(T, t, max)
             G == B(U, t, max)
  <2>4. /\ \A r \in DOMAIN T : F[r] = Tally(OutputRows(t, r, max))
        /\ \A r \in DOMAIN U : G[r] = Tally(OutputRows(t, r, max))
    BY <2>2
  <2> HIDE DEF B, F, G
  <2>5. AgreeAt(Flattened(T, F), Flattened(U, G), C, k)
    <3>1. \A r \in DOMAIN T : IsTable(F[r]) /\ \A x \in DOMAIN F[r] : Restrict(x, C) = Restrict(r, C)
      BY <2>1, <2>3, <2>4
    <3>2. \A r \in DOMAIN U : IsTable(G[r]) /\ \A x \in DOMAIN G[r] : Restrict(x, C) = Restrict(r, C)
      BY <2>1, <2>3, <2>4
    <3>3. \A r \in DOMAIN T : r \in DOMAIN U => F[r] = G[r]
      BY <2>4
    <3> QED BY <1>4, <2>3, <3>1, <3>2, <3>3, FlattenedAgrees
  <2> QED BY <2>5 DEF F, G
<1> HIDE DEF B
<1> QED BY <1>1, <1>2, <1>4, ColumnsOfGroups, ChainedGroups

(* The rows of a key, and those that a group transformer makes of them.    *)
OfKey(T, key, k) == Restrict(T, {r \in DOMAIN T : Restrict(r, {key}) = k})
MadeOfKey(T, t, key, k) ==
  Tally([x \in Copies(RowsOfGroup(t, OfKey(T, key, k))) |-> Extended(k, x[1])])
MadeOfKeys(T, t, key) ==
  [k \in DOMAIN SetToBag(Keys(T, {key})) |-> MadeOfKey(T, t, key, k)]

(* A table for each key in T, with the rows of this key.                   *)
TableOfEach(T, t, key) ==
  LET K == SetToBag(Keys(T, {key}))
  IN /\ IsTable(K) /\ DOMAIN K = Keys(T, {key}) /\ \A k \in DOMAIN K : K[k] = 1
     /\ \A k \in DOMAIN K :
          /\ IsTable(MadeOfKeys(T, t, key)[k]) /\ Restrict(k, {key}) = k
          /\ \A x \in DOMAIN MadeOfKeys(T, t, key)[k] : Restrict(x, {key}) = k

LEMMA MadeOfKeysIsTable ==
  ASSUME UserFunctions, NEW t \in GroupTransformers, NEW key, NEW T, IsTable(T)
  PROVE  TableOfEach(T, t, key)
<1> DEFINE K == SetToBag(Keys(T, {key}))
<1>1. IsTable(K) /\ DOMAIN K = Keys(T, {key}) /\ \A k \in DOMAIN K : K[k] = 1
  <2>1. IsTable(K) /\ DOMAIN K = Keys(T, {key})
    BY KeysOfTable, SetToBagIsTable
  <2> QED BY <2>1 DEF SetToBag
<1>2. ASSUME NEW k \in DOMAIN K
      PROVE  /\ IsTable(MadeOfKey(T, t, key, k)) /\ Restrict(k, {key}) = k
             /\ \A x \in DOMAIN MadeOfKey(T, t, key, k) : Restrict(x, {key}) = k
  <2> DEFINE U == RowsOfGroup(t, OfKey(T, key, k))
             f == [x \in Copies(U) |-> Extended(k, x[1])]
  <2>1. Restrict(k, {key}) = k /\ DOMAIN k = {key}
    BY <1>1 DEF Keys, Restrict
  <2>2. IsTable(U)
    <3>1. IsTable(OfKey(T, key, k))
      BY RestrictIsTable DEF OfKey
    <3> QED BY <3>1 DEF UserFunctions, GroupAsAnnounced, Legal
  <2> HIDE DEF U
  <2>3. IsFiniteSet(Copies(U))
    BY <2>2, CopiesOfTable
  <2>4. \A q : Restrict(Extended(k, q), {key}) = k
    BY <2>1, RestrictExtended
  <2>5. DOMAIN f = Copies(U) /\ \A x \in Range(f) : Restrict(x, {key}) = k
    BY <2>4 DEF Range
  <2> HIDE DEF f
  <2>6. IsTable(Tally(f)) /\ \A x \in DOMAIN Tally(f) : Restrict(x, {key}) = k
    BY <2>3, <2>5, TallyIsTable
  <2> QED BY <2>1, <2>6 DEF f, U, MadeOfKey
<1>3. \A k \in DOMAIN K : MadeOfKeys(T, t, key)[k] = MadeOfKey(T, t, key, k)
  BY DEF MadeOfKeys
<1> QED BY <1>1, <1>2, <1>3 DEF TableOfEach

LEMMA FlatMapByKeyIsLocal ==
  ASSUME UserFunctions, TableInv, FlatMapByKey
  PROVE  GroupsStay
<1>1. PICK key \in DOMAIN schema, t \in GroupTransformers :
        /\ metric = IfGroupedBy({key})
        /\ Chained(Flattened(SetToBag(Keys(left[<<>>], {key})), MadeOfKeys(left[<<>>], t, key)),
                   Flattened(SetToBag(Keys(right[<<>>], {key})), MadeOfKeys(right[<<>>], t, key)),
                   Extended(Restrict(schema, {key}), t.columns), metric, bound)
  BY DEF FlatMapByKey, Chain, ChainParts, FlatMapped, BagToSet, Mapped, Chained, Group,
         Where, RestrictDomain, MadeOfKeys, MadeOfKey, OfKey
<1>2. Columns(metric) = {key}
  BY <1>1 DEF Columns, IfGroupedBy, Metric
<1>3. ASSUME NEW T, IsTable(T)
      PROVE  LET K == SetToBag(Keys(T, {key}))
             IN /\ IsTable(K) /\ DOMAIN K = Keys(T, {key}) /\ \A k \in DOMAIN K : K[k] = 1
                /\ \A k \in DOMAIN K :
                     /\ IsTable(MadeOfKeys(T, t, key)[k]) /\ Restrict(k, {key}) = k
                     /\ \A x \in DOMAIN MadeOfKeys(T, t, key)[k] : Restrict(x, {key}) = k
  <2>1. TableOfEach(T, t, key)
    BY <1>3, MadeOfKeysIsTable
  <2> QED BY <2>1, Zenon DEF TableOfEach
<1>4. ASSUME NEW T, IsTable(T), NEW U, IsTable(U), NEW k, AgreeAt(T, U, {key}, k)
      PROVE  AgreeAt(Flattened(SetToBag(Keys(T, {key})), MadeOfKeys(T, t, key)),
                     Flattened(SetToBag(Keys(U, {key})), MadeOfKeys(U, t, key)), {key}, k)
  <2> DEFINE K == SetToBag(Keys(T, {key}))
             L == SetToBag(Keys(U, {key}))
             D == MadeOfKeys(T, t, key)
             E == MadeOfKeys(U, t, key)
  <2>1. k \in DOMAIN K <=> k \in DOMAIN L
    <3>1. k \in Keys(T, {key}) <=> k \in Keys(U, {key})
      BY <1>4 DEF AgreeAt, Keys, BagToSet
    <3> QED BY <1>3, <1>4, <3>1
  <2>2. AgreeAt(K, L, {key}, k)
    <3>1. /\ \A x \in DOMAIN K : Restrict(x, {key}) = x /\ K[x] = 1
          /\ \A x \in DOMAIN L : Restrict(x, {key}) = x /\ L[x] = 1
      BY <1>3, <1>4
    <3> HIDE DEF K, L
    <3> QED BY <2>1, <3>1 DEF AgreeAt
  <2>3. ASSUME k \in DOMAIN K, k \in DOMAIN L PROVE D[k] = E[k]
    <3>1. OfKey(T, key, k) = OfKey(U, key, k)
      BY <1>4, AgreeingGroups DEF OfKey, Group, Where, RestrictDomain
    <3>2. MadeOfKey(T, t, key, k) = MadeOfKey(U, t, key, k)
      BY <3>1 DEF MadeOfKey
    <3>3. D[k] = MadeOfKey(T, t, key, k) /\ E[k] = MadeOfKey(U, t, key, k)
      BY <1>3, <1>4, <2>3 DEF MadeOfKeys
    <3> QED BY <3>2, <3>3
  <2>4. /\ IsTable(K) /\ \A r \in DOMAIN K : /\ IsTable(D[r]) /\ Restrict(r, {key}) = r
                                             /\ \A x \in DOMAIN D[r] : Restrict(x, {key}) = r
        /\ IsTable(L) /\ \A r \in DOMAIN L : /\ IsTable(E[r]) /\ Restrict(r, {key}) = r
                                             /\ \A x \in DOMAIN E[r] : Restrict(x, {key}) = r
    <3>1. IsTable(K) /\ \A r \in DOMAIN K : /\ IsTable(D[r]) /\ Restrict(r, {key}) = r
                                            /\ \A x \in DOMAIN D[r] : Restrict(x, {key}) = r
      BY <1>3, <1>4
    <3>2. IsTable(L) /\ \A r \in DOMAIN L : /\ IsTable(E[r]) /\ Restrict(r, {key}) = r
                                            /\ \A x \in DOMAIN E[r] : Restrict(x, {key}) = r
      BY <1>3, <1>4
    <3> QED BY <3>1, <3>2
  <2> HIDE DEF K, L, D, E
  <2>5. \A r \in DOMAIN K : r \in DOMAIN L /\ Restrict(r, {key}) = k => D[r] = E[r]
    BY <2>3, <2>4
  <2>6. /\ \A r \in DOMAIN K : \A x \in DOMAIN D[r] :
             Restrict(x, {key}) = k => Restrict(r, {key}) = k
        /\ \A r \in DOMAIN L : \A x \in DOMAIN E[r] :
             Restrict(x, {key}) = k => Restrict(r, {key}) = k
    BY <2>4
  <2>7. /\ IsTable(K) /\ \A r \in DOMAIN K : IsTable(D[r])
        /\ IsTable(L) /\ \A r \in DOMAIN L : IsTable(E[r])
    BY <2>4
  <2>8. AgreeAt(Flattened(K, D), Flattened(L, E), {key}, k)
    BY <2>2, <2>5, <2>6, <2>7, FlattenedAgrees
  <2> QED BY <2>8 DEF K, L, D, E
<1> QED BY <1>1, <1>2, <1>4, ChainedGroups

LEMMA ReplaceCellsIsLocal ==
  ASSUME TableInv, NEW what, NEW c \in DOMAIN schema, NEW with, ReplaceCells(what, c, with),
         IsIfGroupedBy(metric) => c \notin Columns(metric)
  PROVE  GroupsStay
<1>1. Chained(Tally([x \in Copies(left[<<>>]) |-> Replaced(x[1], what, c, with)]),
              Tally([x \in Copies(right[<<>>]) |-> Replaced(x[1], what, c, with)]),
              Without(what, {c}), metric, bound)
  BY DEF ReplaceCells, Chain, ChainParts, Mapped, Chained, Replaced
<1>2. ASSUME NEW C \in SUBSET DOMAIN schema, c \notin C,
             NEW T, Legal(T, schema), NEW U, Legal(U, schema), NEW k, AgreeAt(T, U, C, k)
      PROVE  AgreeAt(Tally([x \in Copies(T) |-> Replaced(x[1], what, c, with)]),
                     Tally([x \in Copies(U) |-> Replaced(x[1], what, c, with)]), C, k)
  <2> DEFINE f == [x \in Copies(T) |-> Replaced(x[1], what, c, with)]
             g == [x \in Copies(U) |-> Replaced(x[1], what, c, with)]
  <2>1. ASSUME NEW r, ValidRow(r, schema)
        PROVE  Restrict(Replaced(r, what, c, with), C) = Restrict(r, C)
    <3>1. C \in SUBSET DOMAIN r
      BY <2>1 DEF ValidRow
    <3>2. \A e \in C : Replaced(r, what, c, with)[e] = r[e]
      BY <1>2, <3>1 DEF Replaced
    <3> QED BY <3>2 DEF Restrict
  <2>2. /\ DOMAIN f = Copies(T) /\ \A y \in Copies(T) : f[y] = Replaced(y[1], what, c, with)
        /\ DOMAIN g = Copies(U) /\ \A y \in Copies(U) : g[y] = Replaced(y[1], what, c, with)
    OBVIOUS
  <2>3. /\ IsTable(T) /\ \A y \in Copies(T) : ValidRow(y[1], schema)
        /\ IsTable(U) /\ \A y \in Copies(U) : ValidRow(y[1], schema)
    BY <1>2, CopyIsValid DEF Legal
  <2> HIDE DEF f, g
  <2>4. AgreeAt(Tally(f), Tally(g), C, k)
    BY <1>2, <2>1, <2>2, <2>3, MappedAgrees
  <2> QED BY <2>4 DEF f, g
<1> QED BY <1>1, <1>2, ColumnsOfGroups, ChainedGroups

LEMMA OrdersRankAll ==
  ASSUME NEW S, NEW rank \in Orders(S)
  PROVE  DOMAIN rank = S
BY DEF Orders, Bijection, Injection, Surjection

(* Truncation by D works within the groups by D, and so within those by    *)
(* fewer columns, C.                                                       *)
LEMMA TruncationAgrees ==
  ASSUME NEW T, IsTable(T), NEW U, IsTable(U), NEW D, NEW C \in SUBSET D, NEW k,
         AgreeAt(T, U, C, k), NEW n, NEW rank, DOMAIN rank = Copies(T) \cup Copies(U)
  PROVE  AgreeAt(TruncateLargeGroups(T, D, n, rank), TruncateLargeGroups(U, D, n, rank), C, k)
<1> DEFINE group == [x \in DOMAIN rank |-> Restrict(x[1], D)]
           P == Kept(Copies(T), group, n, rank)
           Q == Kept(Copies(U), group, n, rank)
           f == [x \in P |-> x[1]]
           g == [x \in Q |-> x[1]]
<1>1. ASSUME NEW x \in DOMAIN rank, Restrict(x[1], C) = k
      PROVE  x \in P <=> x \in Q
  <2>1. ASSUME NEW y, group[y] = group[x]
        PROVE  y \in Copies(T) <=> y \in Copies(U)
    <3>1. CASE y \in DOMAIN rank
      <4>1. Restrict(y[1], D) = Restrict(x[1], D)
        BY <2>1, <3>1
      <4>2. Restrict(Restrict(y[1], D), C) = Restrict(y[1], C)
        BY DEF Restrict
      <4>3. Restrict(Restrict(x[1], D), C) = Restrict(x[1], C)
        BY DEF Restrict
      <4>4. Restrict(y[1], C) = k
        BY <1>1, <4>1, <4>2, <4>3
      <4> QED BY <4>4, CopiesAgree
    <3>2. CASE y \notin DOMAIN rank
      BY <3>2
    <3> QED BY <3>1, <3>2
  <2> HIDE DEF group
  <2> QED BY <2>1, TruncationIsLocal
<1>2. P \subseteq DOMAIN rank /\ Q \subseteq DOMAIN rank
  BY DEF Kept
<1>3. /\ DOMAIN f = P /\ \A x \in P : f[x] = x[1]
      /\ DOMAIN g = Q /\ \A x \in Q : g[x] = x[1]
  OBVIOUS
<1>4. /\ TruncateLargeGroups(T, D, n, rank) = Tally(f)
      /\ TruncateLargeGroups(U, D, n, rank) = Tally(g)
  BY DEF TruncateLargeGroups, Collected
<1> HIDE DEF P, Q, f, g
<1>5. AgreeAt(Tally(f), Tally(g), C, k)
  BY <1>1, <1>2, <1>3, TallyAgrees
<1> QED BY <1>4, <1>5

LEMMA LimitRowsPerGroupIsLocal ==
  ASSUME TableInv, LimitRowsPerGroup
  PROVE  GroupsStay
<1>1. PICK C \in (SUBSET DOMAIN schema) \ {{}}, n \in Thresholds :
        /\ metric = IfGroupedBy(C)
        /\ \E rank \in Orders(AllCopies) : \E m, d :
             Chained(TruncateLargeGroups(left[<<>>], C, n, rank),
                     TruncateLargeGroups(right[<<>>], C, n, rank), schema, m, d)
  BY DEF LimitRowsPerGroup, Chain, ChainParts, Chained
<1>2. PICK rank \in Orders(AllCopies) : \E m, d :
        Chained(TruncateLargeGroups(left[<<>>], C, n, rank),
                TruncateLargeGroups(right[<<>>], C, n, rank), schema, m, d)
  BY <1>1
<1>3. Columns(metric) = C
  BY <1>1 DEF Columns, IfGroupedBy, Metric
<1>4. DOMAIN rank = Copies(left[<<>>]) \cup Copies(right[<<>>])
  BY OrdersRankAll DEF AllCopies
<1> QED BY <1>2, <1>3, <1>4, TruncationAgrees, ChainedGroups

LEMMA LimitRowsPerKeyPerGroupIsLocal ==
  ASSUME TableInv, LimitRowsPerKeyPerGroup
  PROVE  GroupsStay
<1> SUFFICES ASSUME metric' = metric PROVE GroupsStay
  BY DEF GroupsStay
<1>1. PICK C \in (SUBSET DOMAIN schema) \ {{}}, n \in Thresholds :
        \E key \in DOMAIN schema \ C : \E rank \in Orders(AllCopies) :
          /\ metric \in {IfGroupedBy(C), IfGroupedByAgg({key}, "sum", C),
                         IfGroupedByAgg({key}, "l2", C)}
          /\ \E d : Chained(TruncateLargeGroups(left[<<>>], C \cup {key}, n, rank),
                            TruncateLargeGroups(right[<<>>], C \cup {key}, n, rank), schema,
                            RowsPerKeyMetric(C, key), d)
  BY DEF LimitRowsPerKeyPerGroup, Chain, ChainParts, Chained
<1>2. PICK key \in DOMAIN schema \ C, rank \in Orders(AllCopies) :
        /\ metric \in {IfGroupedBy(C), IfGroupedByAgg({key}, "sum", C),
                       IfGroupedByAgg({key}, "l2", C)}
        /\ \E d : Chained(TruncateLargeGroups(left[<<>>], C \cup {key}, n, rank),
                          TruncateLargeGroups(right[<<>>], C \cup {key}, n, rank), schema,
                          RowsPerKeyMetric(C, key), d)
  BY <1>1
<1>3. metric' = RowsPerKeyMetric(C, key)
  BY <1>2 DEF Chained, Announce
<1>4. metric = IfGroupedBy(C)
  <2>1. /\ IfGroupedBy(C).by = {}
        /\ \A agg : /\ IfGroupedByAgg({key}, agg, C).by = {key}
                    /\ IfGroupedByAgg({key}, agg, C).agg = agg
                    /\ IfGroupedByAgg({key}, agg, C).each = C
        /\ SymmetricDifference.by = {} /\ IfGroupedByAgg({key}, "l2", {}).each = {}
    BY DEF IfGroupedBy, IfGroupedByAgg, SymmetricDifference, Metric
  <2>0. C # {}
    OBVIOUS
  <2>2. metric = RowsPerKeyMetric(C, key)
    BY <1>3
  <2>3. CASE metric = IfGroupedByAgg({key}, "sum", C)
    <3>1. metric = SymmetricDifference
      BY <2>1, <2>2, <2>3 DEF RowsPerKeyMetric
    <3>2. metric.by = {} /\ metric.by = {key}
      BY <2>1, <2>3, <3>1
    <3>3. {key} # {}
      OBVIOUS
    <3> QED BY <3>2, <3>3
  <2>4. CASE metric = IfGroupedByAgg({key}, "l2", C)
    <3>1. metric = IfGroupedByAgg({key}, "l2", {})
      BY <2>1, <2>2, <2>4 DEF RowsPerKeyMetric
    <3> QED BY <2>0, <2>1, <2>4, <3>1
  <2> QED BY <1>2, <2>3, <2>4
<1>5. Columns(metric) = C
  BY <1>4 DEF Columns, IfGroupedBy, Metric
<1>6. DOMAIN rank = Copies(left[<<>>]) \cup Copies(right[<<>>])
  BY OrdersRankAll DEF AllCopies
<1>7. C \in SUBSET (C \cup {key})
  OBVIOUS
<1> QED BY <1>2, <1>5, <1>6, <1>7, TruncationAgrees, ChainedGroups

LEMMA LimitKeysAgrees ==
  ASSUME NEW T, NEW U, NEW C, NEW K, NEW k, AgreeAt(T, U, C, k), NEW n, NEW rank,
         DOMAIN rank = Keys(T, C \cup K) \cup Keys(U, C \cup K)
  PROVE  AgreeAt(LimitKeysPerGroup(T, C, K, n, rank), LimitKeysPerGroup(U, C, K, n, rank), C, k)
<1> DEFINE D == C \cup K
           group == [x \in DOMAIN rank |-> Restrict(x, C)]
           X == Kept(Keys(T, D), group, n, rank)
           Y == Kept(Keys(U, D), group, n, rank)
           P == {r \in DOMAIN T : Restrict(r, D) \in X}
           Q == {r \in DOMAIN U : Restrict(r, D) \in Y}
<1>1. \A r : Restrict(Restrict(r, D), C) = Restrict(r, C)
  BY DEF Restrict
<1>2. ASSUME NEW y, Restrict(y, C) = k
      PROVE  y \in Keys(T, D) <=> y \in Keys(U, D)
  <2>1. \A r : Restrict(r, D) = y => Restrict(r, C) = k
    BY <1>1, <1>2
  <2> HIDE DEF D
  <2> QED BY <2>1 DEF Keys, BagToSet, AgreeAt
<1>3. ASSUME NEW x \in DOMAIN rank, Restrict(x, C) = k
      PROVE  x \in X <=> x \in Y
  <2>1. ASSUME NEW y, group[y] = group[x]
        PROVE  y \in Keys(T, D) <=> y \in Keys(U, D)
    <3>1. CASE y \in DOMAIN rank
      <4>1. Restrict(y, C) = k
        BY <1>3, <2>1, <3>1
      <4> QED BY <1>2, <4>1
    <3>2. CASE y \notin DOMAIN rank
      BY <3>2
    <3> QED BY <3>1, <3>2
  <2> HIDE DEF group, D
  <2> QED BY <2>1, TruncationIsLocal
<1>4. ASSUME NEW r, Restrict(r, C) = k
      PROVE  r \in P <=> r \in Q
  <2>1. r \in DOMAIN T <=> r \in DOMAIN U
    BY <1>4 DEF AgreeAt
  <2>2. r \in DOMAIN T => Restrict(r, D) \in DOMAIN rank
    BY DEF Keys, BagToSet
  <2>3. Restrict(Restrict(r, D), C) = k
    BY <1>1, <1>4
  <2> HIDE DEF X, Y, D
  <2> QED BY <1>3, <2>1, <2>2, <2>3
<1>5. P \in SUBSET DOMAIN T /\ Q \in SUBSET DOMAIN U
  OBVIOUS
<1>6. /\ LimitKeysPerGroup(T, C, K, n, rank) = Restrict(T, P)
      /\ LimitKeysPerGroup(U, C, K, n, rank) = Restrict(U, Q)
  BY DEF LimitKeysPerGroup, Where, RestrictDomain
<1> HIDE DEF P, Q
<1> QED BY <1>4, <1>5, <1>6, RestrictAgrees

LEMMA LimitKeysIsLocal ==
  ASSUME TableInv, LimitKeys
  PROVE  GroupsStay
<1>1. PICK C \in (SUBSET DOMAIN schema) \ {{}}, n \in Thresholds :
        \E key \in DOMAIN schema \ C : \E rank \in Orders(AllKeys(C \cup {key})) :
          /\ metric = IfGroupedBy(C)
          /\ \E m, d : Chained(LimitKeysPerGroup(left[<<>>], C, {key}, n, rank),
                               LimitKeysPerGroup(right[<<>>], C, {key}, n, rank), schema, m, d)
  BY DEF LimitKeys, Chain, ChainParts, Chained
<1>2. PICK key \in DOMAIN schema \ C : \E rank \in Orders(AllKeys(C \cup {key})) :
        /\ metric = IfGroupedBy(C)
        /\ \E m, d : Chained(LimitKeysPerGroup(left[<<>>], C, {key}, n, rank),
                             LimitKeysPerGroup(right[<<>>], C, {key}, n, rank), schema, m, d)
  BY <1>1
<1>3. PICK rank \in Orders(AllKeys(C \cup {key})) :
        /\ metric = IfGroupedBy(C)
        /\ \E m, d : Chained(LimitKeysPerGroup(left[<<>>], C, {key}, n, rank),
                             LimitKeysPerGroup(right[<<>>], C, {key}, n, rank), schema, m, d)
  BY <1>2
<1>4. Columns(metric) = C
  BY <1>1, <1>3 DEF Columns, IfGroupedBy, Metric
<1>5. DOMAIN rank = Keys(left[<<>>], C \cup {key}) \cup Keys(right[<<>>], C \cup {key})
  BY OrdersRankAll DEF AllKeys
<1> QED BY <1>3, <1>4, <1>5, LimitKeysAgrees, ChainedGroups
(* A join works within the groups of the left table, if the rows of a      *)
(* group have the same partners on both sides.                             *)
LEMMA JoinAgrees ==
  ASSUME NEW ls, NEW rs, NEW on, Joinable(ls, rs, on), NEW how, NEW nulls \in BOOLEAN,
         NEW L, Legal(L, ls), NEW M, Legal(M, ls), NEW R, Legal(R, rs), NEW S, Legal(S, rs),
         NEW C \in SUBSET DOMAIN ls, \A c \in C : c \in on \/ c \notin DOMAIN rs,
         NEW k, AgreeAt(L, M, C, k),
         \A a : Restrict(a, C) = k => Partners(R, a, on, nulls) = Partners(S, a, on, nulls)
  PROVE  AgreeAt(Join(L, R, DOMAIN ls, DOMAIN rs, on, how, nulls),
                 Join(M, S, DOMAIN ls, DOMAIN rs, on, how, nulls), C, k)
<1> DEFINE rows(Q, a) == JoinedRows(Q, a, DOMAIN ls, DOMAIN rs, on, how, nulls)
           B == [a \in DOMAIN L |-> rows(R, a)]
           E == [a \in DOMAIN M |-> rows(S, a)]
<1>1. ASSUME NEW a, NEW b
      PROVE  Restrict(JoinedRow(a, b, DOMAIN ls, DOMAIN rs, on), C) = Restrict(a, C)
  <2>1. \A c \in C : JoinedRow(a, b, DOMAIN ls, DOMAIN rs, on)[c] = a[c]
    BY KeptName, CellsOfJoin
  <2> QED BY <2>1 DEF Restrict
<1>2. ASSUME NEW Q, Legal(Q, rs), NEW a, ValidRow(a, ls)
      PROVE  /\ IsTable(rows(Q, a))
             /\ \A x \in DOMAIN rows(Q, a) : Restrict(x, C) = Restrict(a, C)
  <2> DEFINE P == Partners(Q, a, on, nulls)
             f == [x \in Copies(P) |-> JoinedRow(a, x[1], DOMAIN ls, DOMAIN rs, on)]
             none == JoinedRow(a, <<>>, DOMAIN ls, DOMAIN rs, on)
  <2>1. IsTable(rows(Q, a))
    BY <1>2, JoinedRowsAreLegal DEF Legal
  <2>2. rows(Q, a) \in {SetToBag({none}), EmptyBag, Tally(f)}
    BY Zenon DEF JoinedRows
  <2>3. DOMAIN SetToBag({none}) = {none} /\ DOMAIN EmptyBag = {}
    BY DEF SetToBag, EmptyBag
  <2>4. \A x \in DOMAIN Tally(f) : \E b : x = JoinedRow(a, b, DOMAIN ls, DOMAIN rs, on)
    BY DEF Tally, Range
  <2>5. \A x \in DOMAIN rows(Q, a) : \E b : x = JoinedRow(a, b, DOMAIN ls, DOMAIN rs, on)
    <3> HIDE DEF rows, f
    <3> QED BY <2>2, <2>3, <2>4
  <2> HIDE DEF rows
  <2> QED BY <1>1, <2>1, <2>5
<1>3. \A a \in DOMAIN L : ValidRow(a, ls) /\ \A a1 \in DOMAIN M : ValidRow(a1, ls)
  BY LegalRow
<1>4. \A a : Restrict(a, C) = k => rows(R, a) = rows(S, a)
  <2> SUFFICES ASSUME NEW a, Restrict(a, C) = k PROVE rows(R, a) = rows(S, a)
    OBVIOUS
  <2>1. Partners(R, a, on, nulls) = Partners(S, a, on, nulls)
    OBVIOUS
  <2> QED BY <2>1, Zenon DEF JoinedRows
<1>5. /\ \A a \in DOMAIN L : B[a] = rows(R, a)
      /\ \A a \in DOMAIN M : E[a] = rows(S, a)
  OBVIOUS
<1>6. /\ Join(L, R, DOMAIN ls, DOMAIN rs, on, how, nulls) = Flattened(L, B)
      /\ Join(M, S, DOMAIN ls, DOMAIN rs, on, how, nulls) = Flattened(M, E)
  BY JoinIsFlattened
<1>7. IsTable(L) /\ IsTable(M)
  BY DEF Legal
<1> HIDE DEF B, E, rows
<1>8. \A a \in DOMAIN L : IsTable(B[a]) /\ \A x \in DOMAIN B[a] : Restrict(x, C) = Restrict(a, C)
  BY <1>2, <1>5, LegalRow
<1>9. \A a \in DOMAIN M : IsTable(E[a]) /\ \A x \in DOMAIN E[a] : Restrict(x, C) = Restrict(a, C)
  BY <1>2, <1>5, LegalRow
<1>10. \A a \in DOMAIN L : a \in DOMAIN M /\ Restrict(a, C) = k => B[a] = E[a]
  BY <1>4, <1>5
<1>11. AgreeAt(Flattened(L, B), Flattened(M, E), C, k)
  BY <1>7, <1>8, <1>9, <1>10, FlattenedAgrees
<1> QED BY <1>6, <1>11

LEMMA PublicJoinIsLocal ==
  ASSUME TableInv, NEW how, PublicJoinAs(how)
  PROVE  GroupsStay
<1> DEFINE J(T, p, on, nulls) ==
             Join(T, p.rows, DOMAIN schema, DOMAIN p.schema, on, how, nulls)
<1>1. PICK p \in PublicTables, nulls \in BOOLEAN :
        \E on \in SUBSET (DOMAIN schema \cap DOMAIN p.schema) :
          /\ ValidateJoin(schema, p.schema, on)
          /\ CanJoin(DOMAIN schema, DOMAIN p.schema, on)
          /\ IsIfGroupedBy(metric) => Columns(metric) \cap (DOMAIN p.schema \ on) = {}
          /\ \E s, m, d : Chained(J(left[<<>>], p, on, nulls), J(right[<<>>], p, on, nulls), s, m, d)
  BY DEF PublicJoinAs, Chain, ChainParts, Chained
<1>2. PICK on \in SUBSET (DOMAIN schema \cap DOMAIN p.schema) :
        /\ ValidateJoin(schema, p.schema, on)
        /\ CanJoin(DOMAIN schema, DOMAIN p.schema, on)
        /\ IsIfGroupedBy(metric) => Columns(metric) \cap (DOMAIN p.schema \ on) = {}
        /\ \E s, m, d : Chained(J(left[<<>>], p, on, nulls), J(right[<<>>], p, on, nulls), s, m, d)
  BY <1>1
<1>3. Joinable(schema, p.schema, on) /\ Legal(p.rows, p.schema)
  BY <1>2, PublicTablesAssumption DEF Joinable, Legal, TableInv
<1>4. ASSUME NEW C \in SUBSET DOMAIN schema, C \cap (DOMAIN p.schema \ on) = {},
             NEW T, Legal(T, schema), NEW U, Legal(U, schema), NEW k, AgreeAt(T, U, C, k)
      PROVE  AgreeAt(J(T, p, on, nulls), J(U, p, on, nulls), C, k)
  <2>1. \A c \in C : c \in on \/ c \notin DOMAIN p.schema
    BY <1>4
  <2> QED BY <1>3, <1>4, <2>1, JoinAgrees
<1> HIDE DEF J
<1> QED BY <1>2, <1>4, ColumnsOfGroups, ChainedGroups

(* Renaming renames the groups.                                            *)
LEMMA RenameAgrees ==
  ASSUME NEW s, NEW name, \A c, d \in DOMAIN s : name[c] = name[d] => c = d,
         NEW T, Legal(T, s), NEW U, Legal(U, s), NEW C \in SUBSET DOMAIN s,
         NEW k, k = [c \in C |-> k[c]], AgreeAt(T, U, C, k),
         NEW D, NEW l, \A c \in C : name[c] \in D /\ l[name[c]] = k[c],
         NEW f, DOMAIN f = Copies(T), \A y \in Copies(T) : f[y] = Renaming(y[1], name),
         NEW g, DOMAIN g = Copies(U), \A y \in Copies(U) : g[y] = Renaming(y[1], name)
  PROVE  AgreeAt(Tally(f), Tally(g), D, l)
<1>1. ASSUME NEW r, ValidRow(r, s), Restrict(Renaming(r, name), D) = l
      PROVE  Restrict(r, C) = k
  <2>1. DOMAIN r = DOMAIN s
    BY <1>1 DEF ValidRow
  <2>2. ASSUME NEW c \in C PROVE r[c] = k[c]
    <3> DEFINE e == CHOOSE x \in DOMAIN r : name[x] = name[c]
    <3>1. e \in DOMAIN r /\ name[e] = name[c]
      BY <2>1
    <3>2. Renaming(r, name)[name[c]] = r[e]
      BY <2>1 DEF Renaming
    <3> HIDE DEF e
    <3>3. e = c
      BY <2>1, <3>1
    <3>4. Renaming(r, name)[name[c]] = Restrict(Renaming(r, name), D)[name[c]]
      BY DEF Restrict
    <3> QED BY <1>1, <3>2, <3>3, <3>4
  <2> QED BY <2>2 DEF Restrict
<1>2. /\ IsTable(T) /\ \A y \in Copies(T) : ValidRow(y[1], s)
      /\ IsTable(U) /\ \A y \in Copies(U) : ValidRow(y[1], s)
  BY CopyIsValid DEF Legal
<1> QED BY <1>1, <1>2, MappedAgrees

LEMMA RenameIsLocal ==
  ASSUME TableInv, Rename
  PROVE  GroupsStay
<1> SUFFICES ASSUME IsIfGroupedBy(metric), metric' = metric PROVE GroupsStay
  BY DEF GroupsStay
<1>1. PICK old \in DOMAIN schema, new \in NewColumns \ DOMAIN schema :
        LET name == [c \in DOMAIN schema |-> IF c = old THEN new ELSE c]
        IN Chained(Tally([x \in Copies(left[<<>>]) |-> Renaming(x[1], name)]),
                   Tally([x \in Copies(right[<<>>]) |-> Renaming(x[1], name)]),
                   Renaming(schema, name), RenamedMetric(metric, name), bound)
  BY DEF Rename, Chain, ChainParts, Mapped, Chained
<1> DEFINE name == [c \in DOMAIN schema |-> IF c = old THEN new ELSE c]
           D == {name[c] : c \in Columns(metric)}
<1>2. Chained(Tally([x \in Copies(left[<<>>]) |-> Renaming(x[1], name)]),
              Tally([x \in Copies(right[<<>>]) |-> Renaming(x[1], name)]),
              Renaming(schema, name), RenamedMetric(metric, name), bound)
  BY <1>1
<1>3. D = Columns(metric)
  <2>1. metric = RenamedMetric(metric, name)
    BY <1>2 DEF Chained, Announce
  <2>2. {"by", "each"} \subseteq DOMAIN metric
    BY DEF TableInv, IsMetric, SymmetricDifference, Metric
  <2>3. /\ RenamedMetric(metric, name).by = {name[c] : c \in metric.by}
        /\ RenamedMetric(metric, name).each = {name[c] : c \in metric.each}
    BY <2>2 DEF RenamedMetric
  <2> HIDE DEF name
  <2> QED BY <2>1, <2>3, Zenon DEF Columns
<1>4. old \notin Columns(metric)
  <2>1. old \in Columns(metric) => new \in D
    OBVIOUS
  <2> QED BY <1>3, <2>1, ColumnsOfGroups
<1>5. \A c \in Columns(metric) : name[c] = c
  BY <1>4, ColumnsOfGroups
<1>6. ASSUME NEW r, ValidRow(r, schema)
      PROVE  Restrict(Renaming(r, name), Columns(metric)) = Restrict(r, Columns(metric))
  <2>1. DOMAIN r = DOMAIN schema
    BY <1>6 DEF ValidRow
  <2>2. ASSUME NEW c \in Columns(metric) PROVE Renaming(r, name)[c] = r[c]
    <3> DEFINE e == CHOOSE x \in DOMAIN r : name[x] = c
    <3>1. c \in DOMAIN r /\ name[c] = c
      BY <1>5, <2>1, ColumnsOfGroups
    <3>2. e \in DOMAIN r /\ name[e] = c
      BY <3>1
    <3>3. Renaming(r, name)[c] = r[e]
      BY <3>1 DEF Renaming
    <3> HIDE DEF e
    <3>4. e = c
      BY <2>1, <3>1, <3>2
    <3> QED BY <3>3, <3>4
  <2> QED BY <2>2 DEF Restrict
<1>7. ASSUME NEW T, Legal(T, schema), NEW U, Legal(U, schema),
             NEW k, AgreeAt(T, U, Columns(metric), k)
      PROVE  AgreeAt(Tally([x \in Copies(T) |-> Renaming(x[1], name)]),
                     Tally([x \in Copies(U) |-> Renaming(x[1], name)]), Columns(metric), k)
  <2> DEFINE f == [x \in Copies(T) |-> Renaming(x[1], name)]
             g == [x \in Copies(U) |-> Renaming(x[1], name)]
  <2>1. /\ DOMAIN f = Copies(T) /\ \A y \in Copies(T) : f[y] = Renaming(y[1], name)
        /\ DOMAIN g = Copies(U) /\ \A y \in Copies(U) : g[y] = Renaming(y[1], name)
    OBVIOUS
  <2>2. /\ IsTable(T) /\ \A y \in Copies(T) : ValidRow(y[1], schema)
        /\ IsTable(U) /\ \A y \in Copies(U) : ValidRow(y[1], schema)
    BY <1>7, CopyIsValid DEF Legal
  <2> HIDE DEF f, g, name
  <2>3. AgreeAt(Tally(f), Tally(g), Columns(metric), k)
    BY <1>6, <1>7, <2>1, <2>2, MappedAgrees
  <2> QED BY <2>3 DEF f, g
<1> HIDE DEF name
<1> QED BY <1>2, <1>7, ChainedGroups

(* Other steps change the grouping, or the tables not at all.              *)
LEMMA RegroupingIsLocal ==
  ASSUME TableInv,
         \/ GroupingFlatMap \/ AddUniqueColumn
         \/ Identity \/ UnwrapIfGroupedBy \/ HammingDistanceToSymmetricDifference
         \/ PartitionByKeys \/ GroupBy
  PROVE  GroupsStay
<1> SUFFICES ASSUME IsIfGroupedBy(metric), metric' = metric PROVE GroupsStay
  BY DEF GroupsStay
<1>1. metric # SymmetricDifference /\ metric # HammingDistance
  BY DEF IsIfGroupedBy, SymmetricDifference, HammingDistance, Metric
<1>2. metric.over = "table" /\ {"by", "over", "agg"} \subseteq DOMAIN metric
  <2>1. Announce(schema', metric', bound')
    BY DEF GroupingFlatMap, AddUniqueColumn, Identity, UnwrapIfGroupedBy,
           HammingDistanceToSymmetricDifference, PartitionByKeys, GroupBy, Chain, ChainParts,
           Announce
  <2> QED BY <2>1 DEF Announce, TableInv, IsMetric, SymmetricDifference, Metric
<1>3. CASE GroupingFlatMap \/ AddUniqueColumn \/ HammingDistanceToSymmetricDifference
  BY <1>1, <1>3 DEF GroupingFlatMap, AddUniqueColumn, HammingDistanceToSymmetricDifference
<1>4. CASE Identity
  <2>1. Chained(left[<<>>], right[<<>>], schema, metric, bound)
    BY <1>4 DEF Identity, Chain, ChainParts, Same, Chained
  <2> QED BY <2>1, ChainedGroups
<1>5. ~ UnwrapIfGroupedBy
  <2>1. UnwrapIfGroupedBy => metric.by # {} /\ metric'.by = {}
    BY DEF UnwrapIfGroupedBy, Chain, ChainParts, Announce, Metric
  <2> QED BY <2>1
<1>6. ~ PartitionByKeys
  <2> SUFFICES ASSUME PartitionByKeys PROVE FALSE
    OBVIOUS
  <2>0. PICK agg \in {"sum", "l2"} : \E K : metric' = PartMetric(agg, K)
    BY DEF PartitionByKeys, ChainParts, Announce
  <2>1. PICK K : metric' = PartMetric(agg, K)
    BY <2>0
  <2> DEFINE rest == metric.by \ K
             m == [metric EXCEPT !.by = rest, !.agg = IF rest = {} THEN "none" ELSE @]
  <2>2. DOMAIN m = DOMAIN metric /\ PartMetric(agg, K) = [m EXCEPT !.over = agg]
    BY DEF PartMetric, Over
  <2> HIDE DEF m
  <2>3. PartMetric(agg, K).over = agg
    BY <1>2, <2>2
  <2> QED BY <1>2, <2>1, <2>3
<1>7. ~ GroupBy
  <2> SUFFICES ASSUME GroupBy PROVE FALSE
    OBVIOUS
  <2>1. PICK agg \in {"sum", "l2"} : metric' = Over(agg, SymmetricDifference)
    BY DEF GroupBy, ChainParts, Announce
  <2>2. Over(agg, SymmetricDifference).over = agg
    BY DEF Over, SymmetricDifference, Metric
  <2> QED BY <1>2, <2>1, <2>2
<1> QED BY <1>3, <1>4, <1>5, <1>6, <1>7

LEMMA StepIsLocal ==
  ASSUME UserFunctions, TableInv, Next
  PROVE  GroupsStay
<1>1. CASE DropInfs \/ DropNaNs \/ DropNulls
  BY <1>1, DropRowsIsLocal DEF DropInfs, DropNaNs, DropNulls
<1>2. CASE ReplaceInfs \/ ReplaceNaNs
  <2>1. PICK c \in DOMAIN schema : \E what : \E with :
          what # {Null} /\ ReplaceCells(what, c, with)
    BY <1>2 DEF ReplaceInfs, ReplaceNaNs, Infs, NaN, Null
  <2>2. schema[c].kind = "float"
    BY <2>1 DEF ReplaceCells, HasSpecial
  <2>3. IsIfGroupedBy(metric) => c \notin Columns(metric)
    BY <2>2, ColumnsOfGroups
  <2> QED BY <2>1, <2>3, ReplaceCellsIsLocal
<1>3. CASE ReplaceNulls
  <2>1. PICK c \in DOMAIN schema : /\ IsIfGroupedBy(metric) => c \notin Columns(metric)
                                   /\ \E with : ReplaceCells({Null}, c, with)
    BY <1>3 DEF ReplaceNulls
  <2> QED BY <2>1, ReplaceCellsIsLocal
<1>4. CASE PublicJoin
  BY <1>4, PublicJoinIsLocal DEF PublicJoin
<1> QED
  BY <1>1, <1>2, <1>3, <1>4, FilterIsLocal, SelectIsLocal, RenameIsLocal, MapIsLocal,
     FlatMapIsLocal, FlatMapByKeyIsLocal, LimitRowsPerGroupIsLocal, LimitKeysIsLocal,
     LimitRowsPerKeyPerGroupIsLocal, RegroupingIsLocal DEF Next

(* As long as the grouping stays the same, a transformation does not move  *)
(* a difference from one group to another: the groups that differ between  *)
(* the neighbours after a step differed before it.  This is why the        *)
(* stability functions may leave d_in unchanged under IfGroupedBy, for     *)
(* any tables, user functions, hashes and groupings.                       *)
THEOREM ChainGroupsStayApart ==
  ASSUME UserFunctions
  PROVE  Spec => GroupsStayApart
<1>1. ASSUME TableInv, Next, IsIfGroupedBy(metric), metric' = metric
      PROVE  Differ(Columns(metric), left'[<<>>], right'[<<>>])
               \subseteq Differ(Columns(metric), left[<<>>], right[<<>>])
  <2>1. GroupsStay
    BY <1>1, StepIsLocal
  <2> QED BY <1>1, <2>1, DifferingGroups DEF GroupsStay
<1>2. TableInv /\ [Next]_vars =>
        [IsIfGroupedBy(metric) /\ metric' = metric =>
           Differ(Columns(metric), left'[<<>>], right'[<<>>])
             \subseteq Differ(Columns(metric), left[<<>>], right[<<>>])]_vars
  BY <1>1
<1> QED BY <1>2, TablesStay, PTL DEF Spec, GroupsStayApart

-----------------------------------------------------------------------------
(* Dictionaries *)

(* An entry: a chain's tables, domain, metric and bound.                   *)
Sound(e) ==
  /\ IsSchema(e.schema) /\ IsMetric(e.metric) /\ SupportsDomain(e.metric, e.schema)
  /\ e.bound \in Nat \cup {Infinite}
  /\ DOMAIN e.left = DOMAIN e.right
  /\ \A k \in DOMAIN e.left : Legal(e.left[k], e.schema) /\ Legal(e.right[k], e.schema)
  /\ e.metric.over = "table" => DOMAIN e.left = {<<>>}

(* A key with the same rows in the table of an entry on both sides.        *)
SameRows(e, v) ==
  AgreeAt(e.left[<<>>], e.right[<<>>], {KeyColumn(e)}, Only(KeyColumn(e), v))

(* Under AddRemoveKeys all tables have the bound of the dictionary, and a  *)
(* table in hand has the same rows for a key if its origin has.            *)
KeysInv ==
  /\ SupportsKeys(dict)
  /\ DOMAIN dict # {}
  /\ \A j, k \in DOMAIN dict : dict[j].bound = dict[k].bound
  /\ \A k \in DOMAIN dict : dict[k].metric.over = "table"
  /\ from # NoKey /\ IsKeyMetric(metric) =>
       /\ metric.over = "table"
       /\ \A v : SameRows(dict[from], v) => SameRows(InHand, v)

DictInv ==
  /\ TableInv
  /\ over \in {"values", "keys"}
  /\ DOMAIN dict \subseteq DictKeys
  /\ from \in DOMAIN dict \cup {NoKey}
  /\ \A k \in DOMAIN dict : Sound(dict[k])
  /\ over = "keys" => KeysInv

LEMMA EntryFields ==
  ASSUME NEW s, NEW m, NEW l, NEW r, NEW d
  PROVE  /\ Entry(s, m, l, r, d).schema = s /\ Entry(s, m, l, r, d).metric = m
         /\ Entry(s, m, l, r, d).left = l /\ Entry(s, m, l, r, d).right = r
         /\ Entry(s, m, l, r, d).bound = d
         /\ \A b : [Entry(s, m, l, r, d) EXCEPT !.bound = b] = Entry(s, m, l, r, b)
BY DEF Entry

LEMMA InHandIsSound ==
  ASSUME TableInv
  PROVE  Sound(InHand)
BY EntryFields DEF TableInv, TypeOK, DomainClosed, Legal, Sound, InHand

LEMMA HoldKeepsInv ==
  ASSUME NEW e, Sound(e), Hold(e)
  PROVE  TableInv'
<1>1. /\ schema' = e.schema /\ metric' = e.metric /\ bound' = e.bound
      /\ left' = e.left /\ right' = e.right /\ steps' = 0
  BY DEF Hold
<1>2. steps' \in 0 .. MaxSteps
  BY <1>1, BoundsAssumption
<1>3. TypeOK'
  BY <1>1, <1>2 DEF TypeOK, Sound, Legal
<1>4. DomainClosed'
  BY <1>1 DEF DomainClosed, Sound, Legal
<1> QED BY <1>1, <1>3, <1>4 DEF TableInv, Sound

LEMMA NothingIsSound == Sound(NothingInHand)
<1>1. DOMAIN <<>> = {}
  OBVIOUS
<1>2. IsSchema(<<>>)
  BY <1>1, FS_EmptySet DEF IsSchema
<1>3. IsMetric(SymmetricDifference) /\ SupportsDomain(SymmetricDifference, <<>>)
  BY DEF IsMetric, SupportsDomain, SymmetricDifference, Metric
<1>4. EmptyBag = SetToBag({})
  BY DEF EmptyBag
<1>5. Legal(SetToBag({}), <<>>)
  BY FS_EmptySet, SetToBagIsLegal
<1>6. DOMAIN One(EmptyBag) = {<<>>} /\ One(EmptyBag)[<<>>] = EmptyBag
  BY DEF One
<1> QED BY <1>2, <1>3, <1>4, <1>5, <1>6, EntryFields DEF Sound, NothingInHand

LEMMA EndAtKeepsInv ==
  ASSUME DictInv, NEW d, NEW o \in {"values", "keys"}, EndAt(d, o),
         DOMAIN d \subseteq DictKeys, \A k \in DOMAIN d : Sound(d[k]),
         o = "keys" => /\ DOMAIN d # {}
                       /\ \A j, k \in DOMAIN d : d[j].bound = d[k].bound
                       /\ \A k \in DOMAIN d : d[k].metric.over = "table"
  PROVE  DictInv'
<1>1. /\ dict' = d /\ over' = o /\ from' = NoKey
      /\ o = "keys" => SupportsKeys(d)
      /\ Hold(NothingInHand)
  BY DEF EndAt
<1>2. TableInv'
  BY <1>1, NothingIsSound, HoldKeepsInv
<1>3. o = "keys" => KeysInv'
  BY <1>1 DEF KeysInv, SupportsKeys
<1> QED BY <1>1, <1>2, <1>3 DEF DictInv

LEMMA LeaveForKeepsInv ==
  ASSUME DictInv, NEW e, Sound(e), LeaveFor(e)
  PROVE  DictInv'
<1>1. dict' = <<>> /\ over' = "values" /\ from' = NoKey /\ Hold(e)
  BY DEF LeaveFor
<1>2. DOMAIN dict' = {}
  BY <1>1
<1>3. TableInv'
  BY <1>1, HoldKeepsInv
<1> QED BY <1>1, <1>2, <1>3 DEF DictInv

LEMMA GetValueKeepsInv ==
  ASSUME DictInv, GetValue
  PROVE  DictInv'
<1>1. PICK key \in DOMAIN dict : from' = key /\ Hold(dict[key])
  BY DEF GetValue
<1>2. dict' = dict /\ over' = over
  BY DEF GetValue
<1>3. TableInv'
  BY <1>1, HoldKeepsInv DEF DictInv
<1>4. over = "keys" => KeysInv'
  <2> SUFFICES ASSUME over = "keys" PROVE KeysInv'
    OBVIOUS
  <2>1. KeysInv
    BY DEF DictInv
  <2>2. /\ metric' = dict[key].metric
        /\ left' = dict[key].left /\ right' = dict[key].right
    BY <1>1 DEF Hold
  <2>3. metric'.over = "table"
    BY <2>1, <2>2 DEF KeysInv
  <2>4. KeyColumn(InHand') = KeyColumn(dict[key])
    BY <2>2, EntryFields DEF KeyColumn, InHand
  <2>5. \A v : SameRows(dict[key], v) => SameRows(InHand', v)
    BY <2>2, <2>4, EntryFields DEF SameRows, InHand
  <2>6. SupportsKeys(dict)'
    BY <1>2, <2>1 DEF KeysInv, SupportsKeys
  <2> QED BY <1>1, <1>2, <2>1, <2>3, <2>5, <2>6 DEF KeysInv
<1> QED BY <1>1, <1>2, <1>3, <1>4 DEF DictInv

LEMMA CreateDictKeepsInv ==
  ASSUME DictInv, CreateDictFromValue
  PROVE  DictInv'
<1>1. PICK key \in DictKeys, o \in {"values", "keys"} : EndAt(Only(key, InHand), o)
  BY DEF CreateDictFromValue
<1>2. metric.over = "table"
  BY DEF CreateDictFromValue
<1>3. DOMAIN Only(key, InHand) = {key} /\ Only(key, InHand)[key] = InHand
  BY DEF Only
<1>4. Sound(InHand) /\ InHand.metric = metric
  BY InHandIsSound, EntryFields DEF DictInv, InHand
<1> HIDE DEF InHand
<1> QED BY <1>1, <1>2, <1>3, <1>4, EndAtKeepsInv

LEMMA SubsetKeepsInv ==
  ASSUME DictInv, Subset
  PROVE  DictInv'
<1>1. PICK keys \in (SUBSET DOMAIN dict) \ {{}} : EndAt(Restrict(dict, keys), over)
  BY DEF Subset
<1>2. /\ DOMAIN Restrict(dict, keys) = keys
      /\ \A k \in keys : Restrict(dict, keys)[k] = dict[k]
  BY DEF Restrict
<1> QED BY <1>1, <1>2, EndAtKeepsInv DEF DictInv, KeysInv

LEMMA AugmentKeepsInv ==
  ASSUME DictInv, CopyAndTransformValue \/ TransformInPlace \/ RenameKey
  PROVE  DictInv'
<1>1. over = "values"
  BY DEF CopyAndTransformValue, TransformInPlace, RenameKey
<1>2. Sound(InHand)
  BY InHandIsSound DEF DictInv
<1>3. CASE CopyAndTransformValue
  <2>1. PICK new \in DictKeys \ DOMAIN dict : EndAt(Extended(dict, Only(new, InHand)), over)
    BY <1>3 DEF CopyAndTransformValue, Augmented
  <2> HIDE DEF InHand
  <2>2. /\ DOMAIN Extended(dict, Only(new, InHand)) = DOMAIN dict \cup {new}
        /\ \A k \in DOMAIN dict : Extended(dict, Only(new, InHand))[k] = dict[k]
        /\ Extended(dict, Only(new, InHand))[new] = InHand
    BY DEF Extended, Only
  <2> QED BY <1>1, <1>2, <2>1, <2>2, EndAtKeepsInv DEF DictInv
<1>4. CASE TransformInPlace
  <2> DEFINE d == [dict EXCEPT ![from] = InHand]
  <2>1. EndAt(d, over) /\ from \in DOMAIN dict
    BY <1>4 DEF TransformInPlace, DictInv
  <2>2. DOMAIN d = DOMAIN dict /\ \A k \in DOMAIN dict : d[k] = dict[k] \/ d[k] = InHand
    BY <2>1
  <2> HIDE DEF d, InHand
  <2> QED BY <1>1, <1>2, <2>1, <2>2, EndAtKeepsInv DEF DictInv
<1>5. CASE RenameKey
  <2> DEFINE d(key, new) == Extended(Restrict(dict, DOMAIN dict \ {key}), Only(new, dict[key]))
  <2>1. PICK key \in DOMAIN dict, new \in DictKeys \ DOMAIN dict : EndAt(d(key, new), over)
    BY <1>5 DEF RenameKey
  <2>2. /\ DOMAIN d(key, new) \subseteq DictKeys
        /\ \A k \in DOMAIN d(key, new) : \E j \in DOMAIN dict : d(key, new)[k] = dict[j]
    BY DEF Extended, Restrict, Only, DictInv
  <2> HIDE DEF d
  <2> QED BY <1>1, <2>1, <2>2, EndAtKeepsInv DEF DictInv
<1> QED BY <1>3, <1>4, <1>5

LEMMA TransformValueKeepsInv ==
  ASSUME DictInv, TransformValue
  PROVE  DictInv'
<1> DEFINE e == [InHand EXCEPT !.bound = dict[from].bound]
<1>1. /\ from \in DOMAIN dict /\ over = "keys" /\ KeysInv /\ IsKeyMetric(metric)
      /\ \E new \in DictKeys \ DOMAIN dict : EndAt(Extended(dict, Only(new, e)), over)
  BY DEF TransformValue, Augmented, DictInv
<1>2. /\ e.schema = InHand.schema /\ e.metric = InHand.metric
      /\ e.left = InHand.left /\ e.right = InHand.right
      /\ e.bound = dict[from].bound /\ e.metric = metric
  BY EntryFields DEF InHand
<1>3. Sound(e)
  <2>1. Sound(InHand) /\ Sound(dict[from])
    BY <1>1, InHandIsSound DEF DictInv
  <2> HIDE DEF e, InHand
  <2> QED BY <1>2, <2>1 DEF Sound
<1>4. metric.over = "table"
  BY <1>1 DEF KeysInv, TransformValue
<1>5. PICK new \in DictKeys \ DOMAIN dict : EndAt(Extended(dict, Only(new, e)), over)
  BY <1>1
<1> HIDE DEF e
<1> DEFINE d == Extended(dict, Only(new, e))
<1>6. /\ DOMAIN d = DOMAIN dict \cup {new}
      /\ \A k \in DOMAIN dict : d[k] = dict[k]
      /\ d[new] = e
  BY DEF Extended, Only
<1>7. \A k \in DOMAIN d : d[k] = e \/ \E j \in DOMAIN dict : d[k] = dict[j]
  BY <1>6
<1>8. /\ \A k \in DOMAIN d : /\ Sound(d[k]) /\ d[k].metric.over = "table"
                             /\ d[k].bound = dict[from].bound
      /\ DOMAIN d \subseteq DictKeys /\ DOMAIN d # {}
  BY <1>1, <1>2, <1>3, <1>4, <1>6, <1>7 DEF KeysInv, DictInv
<1> HIDE DEF d
<1>9. EndAt(d, over)
  BY <1>5 DEF d
<1> QED BY <1>1, <1>8, <1>9, EndAtKeepsInv

LEMMA TruncatedIsLegal ==
  ASSUME NEW T, NEW s, Legal(T, s), NEW on, NEW t, NEW rank
  PROVE  Legal(Truncated(T, on, t, rank), s)
<1>1. Truncated(T, on, t, rank) \in {TruncateLargeGroups(T, on, t.threshold, rank),
                                     DropLargeGroups(T, on, t.threshold), T}
  BY Zenon DEF Truncated
<1> QED BY <1>1, TruncateIsLegal

LEMMA JoinIsSound ==
  ASSUME NEW k \in DOMAIN dict, Sound(dict[k]), NEW l \in DOMAIN dict, Sound(dict[l]),
         NEW on, CanJoinKeys(k, l, on), NEW nulls \in BOOLEAN,
         NEW T, Legal(T, dict[k].schema), NEW U, Legal(U, dict[l].schema),
         NEW V, Legal(V, dict[k].schema), NEW W, Legal(W, dict[l].schema),
         NEW m, IsMetric(m), SupportsDomain(m, JoinedSchema(k, l, on, nulls)),
         NEW d \in Nat \cup {Infinite}
  PROVE  Sound(Entry(JoinedSchema(k, l, on, nulls), m, JoinedTable(T, U, k, l, on, nulls),
                     JoinedTable(V, W, k, l, on, nulls), d))
<1>1. Joinable(dict[k].schema, dict[l].schema, on)
  BY DEF Joinable, CanJoinKeys, Sound
<1>2. IsSchema(JoinedSchema(k, l, on, nulls))
  BY <1>1, DomainOfJoinIsSchema DEF JoinedSchema
<1> DEFINE J(L, R) == Join(L, R, DOMAIN dict[k].schema, DOMAIN dict[l].schema, on, "inner", nulls)
<1>3. /\ Legal(J(T, U), JoinedSchema(k, l, on, nulls))
      /\ Legal(J(V, W), JoinedSchema(k, l, on, nulls))
  BY <1>1, JoinIsLegal DEF JoinedSchema
<1>4. /\ JoinedTable(T, U, k, l, on, nulls) = One(J(T, U))
      /\ JoinedTable(V, W, k, l, on, nulls) = One(J(V, W))
  BY DEF JoinedTable
<1> HIDE DEF J
<1>5. \A X : DOMAIN One(X) = {<<>>} /\ One(X)[<<>>] = X
  BY DEF One
<1> QED BY <1>2, <1>3, <1>4, <1>5, EntryFields DEF Sound

LEMMA RootType ==
  ASSUME NEW square \in Nat \cup {Infinite}
  PROVE  Root(square) \in Nat \cup {Infinite}
<1>1. CASE square = Infinite
  BY <1>1 DEF Root
<1>2. CASE square # Infinite
  <2> DEFINE S == {n \in 0 .. square : n * n <= square}
  <2>1. square \in Nat
    BY <1>2
  <2>2. /\ S \in SUBSET Int /\ S # {} /\ square \in Int
        /\ \A x \in S : x <= square
    <3>1. 0 \in S
      BY <2>1
    <3> QED BY <2>1, <3>1
  <2>3. S \in SUBSET Nat
    BY <2>1
  <2>4. Root(square) = Max(S)
    BY <1>2 DEF Root
  <2> HIDE DEF S
  <2>5. \E n \in S : \A x \in S : x <= n
    BY <2>1, <2>2, LargestExists
  <2>6. Max(S) \in S
    <3>1. \E n \in S : \A x \in S : n >= x
      BY <2>2, <2>5
    <3> QED BY <3>1 DEF Max
  <2> QED BY <2>3, <2>4, <2>6
<1> QED BY <1>1, <1>2

LEMMA ProductType ==
  ASSUME NEW a \in Nat \cup {Infinite}, NEW b \in Nat \cup {Infinite},
         NEW c \in Nat \cup {Infinite}
  PROVE  Product(a, b, c) \in Nat \cup {Infinite}
<1>1. \A x, y \in Nat : x * y \in Nat
  OBVIOUS
<1>2. \A x, y, z \in Nat : x * y * z \in Nat
  <2> SUFFICES ASSUME NEW x \in Nat, NEW y \in Nat, NEW z \in Nat PROVE x * y * z \in Nat
    OBVIOUS
  <2>1. x * y \in Nat
    BY <1>1
  <2> QED BY <1>1, <2>1
<1> QED BY <1>2 DEF Product

LEMMA JoinBoundType ==
  ASSUME NEW s \in Strategies, NEW t \in Strategies, NEW d \in Nat \cup {Infinite},
         NEW e \in Nat \cup {Infinite}
  PROVE  JoinBound(s, t, d, e) \in Nat \cup {Infinite}
<1>1. s.threshold \in Nat \cup {Infinite} /\ t.threshold \in Nat \cup {Infinite}
  BY StrategiesAssumption
<1>2. /\ TruncationStrategyStability(s) \in Nat \cup {Infinite}
      /\ TruncationStrategyStability(t) \in Nat \cup {Infinite}
  BY <1>1 DEF TruncationStrategyStability
<1> DEFINE x == ChangesThrough(s, t, e)
           y == ChangesThrough(t, s, d)
<1>3. x \in Nat \cup {Infinite} /\ y \in Nat \cup {Infinite}
  BY <1>1, <1>2, ProductType DEF ChangesThrough
<1>4. JoinBound(s, t, d, e) = IF Infinite \in {x, y} THEN Infinite ELSE Square(x + y)
  BY DEF JoinBound
<1> HIDE DEF x, y
<1>5. CASE Infinite \in {x, y}
  BY <1>4, <1>5
<1>6. CASE Infinite \notin {x, y}
  <2>1. x + y \in Nat
    BY <1>3, <1>6
  <2>2. \A n \in Nat : n * n \in Nat
    OBVIOUS
  <2>3. \A n \in Nat : Square(n) \in Nat \cup {Infinite}
    BY <2>2 DEF Square
  <2> QED BY <1>4, <1>6, <2>1, <2>3
<1> QED BY <1>5, <1>6

LEMMA PrivateJoinKeepsInv ==
  ASSUME DictInv, PrivateJoin
  PROVE  DictInv'
<1> DEFINE T(k, on, s, f) == Truncated(dict[k].left[<<>>], on, s, f)
           V(k, on, s, f) == Truncated(dict[k].right[<<>>], on, s, f)
           E(k, l, on, s, t, f, g, nulls) ==
             Entry(JoinedSchema(k, l, on, nulls), SymmetricDifference,
                   JoinedTable(T(k, on, s, f), T(l, on, t, g), k, l, on, nulls),
                   JoinedTable(V(k, on, s, f), V(l, on, t, g), k, l, on, nulls),
                   JoinBound(s, t, Root(dict[k].bound), Root(dict[l].bound)))
<1>1. PICK k \in DOMAIN dict : \E l \in DOMAIN dict \ {k} :
        \E on \in SUBSET (DOMAIN dict[k].schema \cap DOMAIN dict[l].schema),
           s, t \in Strategies, nulls \in BOOLEAN :
          /\ CanJoinKeys(k, l, on)
          /\ \E f \in Orders(BothTables(k)), g \in Orders(BothTables(l)) :
               LeaveFor(E(k, l, on, s, t, f, g, nulls))
  BY DEF PrivateJoin
<1>2. PICK l \in DOMAIN dict \ {k} :
        \E on \in SUBSET (DOMAIN dict[k].schema \cap DOMAIN dict[l].schema),
           s, t \in Strategies, nulls \in BOOLEAN :
          /\ CanJoinKeys(k, l, on)
          /\ \E f \in Orders(BothTables(k)), g \in Orders(BothTables(l)) :
               LeaveFor(E(k, l, on, s, t, f, g, nulls))
  BY <1>1
<1>3. PICK on \in SUBSET (DOMAIN dict[k].schema \cap DOMAIN dict[l].schema),
           s, t \in Strategies, nulls \in BOOLEAN :
        /\ CanJoinKeys(k, l, on)
        /\ \E f \in Orders(BothTables(k)), g \in Orders(BothTables(l)) :
             LeaveFor(E(k, l, on, s, t, f, g, nulls))
  BY <1>2
<1>4. PICK f \in Orders(BothTables(k)), g \in Orders(BothTables(l)) :
        LeaveFor(E(k, l, on, s, t, f, g, nulls))
  BY <1>3
<1>5. ASSUME NEW j \in DOMAIN dict
      PROVE  /\ Sound(dict[j])
             /\ Legal(dict[j].left[<<>>], dict[j].schema)
             /\ Legal(dict[j].right[<<>>], dict[j].schema)
  <2>1. dict[j].metric = SymmetricDifference
    BY DEF PrivateJoin
  <2>2. dict[j].metric.over = "table"
    BY <2>1 DEF SymmetricDifference, Metric
  <2> QED BY <2>2 DEF DictInv, Sound
<1>6. /\ Legal(T(k, on, s, f), dict[k].schema) /\ Legal(T(l, on, t, g), dict[l].schema)
      /\ Legal(V(k, on, s, f), dict[k].schema) /\ Legal(V(l, on, t, g), dict[l].schema)
  BY <1>5, TruncatedIsLegal
<1>7. /\ IsMetric(SymmetricDifference)
      /\ \A schema1 : SupportsDomain(SymmetricDifference, schema1)
  BY DEF IsMetric, SupportsDomain, SymmetricDifference, Metric
<1>8. JoinBound(s, t, Root(dict[k].bound), Root(dict[l].bound)) \in Nat \cup {Infinite}
  BY <1>3, <1>5, RootType, JoinBoundType DEF Sound
<1> HIDE DEF T, V
<1>9. Sound(E(k, l, on, s, t, f, g, nulls))
  BY <1>3, <1>5, <1>6, <1>7, <1>8, JoinIsSound
<1> HIDE DEF E
<1> QED BY <1>4, <1>9, LeaveForKeepsInv

LEMMA KeyMetric ==
  ASSUME NEW e, Sound(e), IsKeyMetric(e.metric)
  PROVE  e.metric.by = {} /\ e.metric.each = {KeyColumn(e)}
<1>1. e.metric.by = {} /\ Cardinality(e.metric.each) = 1
  BY DEF IsKeyMetric
<1>2. IsFiniteSet(e.metric.each)
  BY FS_Subset DEF Sound, SupportsDomain, IsSchema
<1>3. \E c : e.metric.each = {c}
  BY <1>1, <1>2, FS_Singleton
<1> QED BY <1>1, <1>3 DEF KeyColumn

LEMMA PrivateJoinOnKeyKeepsInv ==
  ASSUME DictInv, PrivateJoinOnKey
  PROVE  DictInv'
<1> DEFINE E(k, l, on, nulls) ==
             Entry(JoinedSchema(k, l, on, nulls), dict[k].metric,
                   JoinedTable(dict[k].left[<<>>], dict[l].left[<<>>], k, l, on, nulls),
                   JoinedTable(dict[k].right[<<>>], dict[l].right[<<>>], k, l, on, nulls),
                   dict[k].bound)
<1>1. PICK k \in DOMAIN dict : \E l \in DOMAIN dict \ {k} :
        \E on \in SUBSET (DOMAIN dict[k].schema \cap DOMAIN dict[l].schema),
           new \in DictKeys, nulls \in BOOLEAN :
          /\ CanJoinKeys(k, l, on)
          /\ EndAt(Extended(Only(new, E(k, l, on, nulls)), dict), over)
  BY DEF PrivateJoinOnKey
<1>2. PICK l \in DOMAIN dict \ {k} :
        \E on \in SUBSET (DOMAIN dict[k].schema \cap DOMAIN dict[l].schema),
           new \in DictKeys, nulls \in BOOLEAN :
          /\ CanJoinKeys(k, l, on)
          /\ EndAt(Extended(Only(new, E(k, l, on, nulls)), dict), over)
  BY <1>1
<1>3. PICK on \in SUBSET (DOMAIN dict[k].schema \cap DOMAIN dict[l].schema),
           new \in DictKeys, nulls \in BOOLEAN :
        /\ CanJoinKeys(k, l, on)
        /\ EndAt(Extended(Only(new, E(k, l, on, nulls)), dict), over)
  BY <1>2
<1>4. over = "keys" /\ KeysInv
  BY DEF PrivateJoinOnKey, DictInv
<1>5. ASSUME NEW j \in DOMAIN dict
      PROVE  /\ Sound(dict[j]) /\ dict[j].metric.over = "table"
             /\ Legal(dict[j].left[<<>>], dict[j].schema)
             /\ Legal(dict[j].right[<<>>], dict[j].schema)
  <2>1. dict[j].metric.over = "table" /\ Sound(dict[j])
    BY <1>4 DEF KeysInv, DictInv
  <2> QED BY <2>1 DEF Sound
<1> DEFINE e == E(k, l, on, nulls)
           d == Extended(Only(new, e), dict)
<1>6. /\ e.metric = dict[k].metric /\ e.schema = JoinedSchema(k, l, on, nulls)
      /\ e.bound = dict[k].bound
  BY EntryFields
<1>7. SupportsDomain(dict[k].metric, JoinedSchema(k, l, on, nulls))
  <2>1. EndAt(d, over)
    BY <1>3
  <2> HIDE DEF e
  <2>2. new \in DOMAIN d /\ d[new] = e
    BY DEF Extended, Only
  <2> HIDE DEF d
  <2>3. /\ KeyColumn(e) \in DOMAIN e.schema
        /\ e.schema[KeyColumn(e)].kind # "float"
    BY <1>4, <2>1, <2>2 DEF EndAt, SupportsKeys
  <2>4. IsKeyMetric(dict[k].metric)
    BY <1>4 DEF KeysInv, SupportsKeys
  <2>5. KeyColumn(e) = KeyColumn(dict[k])
    BY <1>6 DEF KeyColumn
  <2>6. dict[k].metric.by = {} /\ dict[k].metric.each = {KeyColumn(dict[k])}
    BY <1>5, <2>4, KeyMetric
  <2> QED BY <1>6, <2>3, <2>5, <2>6 DEF SupportsDomain
<1>8. IsMetric(dict[k].metric) /\ dict[k].bound \in Nat \cup {Infinite}
  BY <1>5 DEF Sound
<1>9. Sound(e)
  BY <1>3, <1>5, <1>7, <1>8, JoinIsSound
<1> HIDE DEF e
<1>10. \A j \in DOMAIN d : d[j] = e \/ (j \in DOMAIN dict /\ d[j] = dict[j])
  BY DEF Extended, Only
<1>11. DOMAIN d = DOMAIN dict \cup {new}
  BY DEF Extended, Only
<1> HIDE DEF d
<1>12. \A j \in DOMAIN d : /\ Sound(d[j]) /\ d[j].metric.over = "table"
                           /\ d[j].bound = dict[k].bound
  <2>1. \A j \in DOMAIN dict : dict[j].bound = dict[k].bound
    BY <1>4 DEF KeysInv
  <2>2. e.metric.over = "table"
    BY <1>5, <1>6
  <2> QED BY <1>5, <1>6, <1>9, <1>10, <2>1, <2>2
<1>13. EndAt(d, over)
  BY <1>3 DEF d, e
<1>14. DOMAIN d \subseteq DictKeys /\ DOMAIN d # {}
  BY <1>11 DEF DictInv
<1> QED BY <1>4, <1>12, <1>13, <1>14, EndAtKeepsInv

LEMMA ValueStepIsStep ==
  ASSUME ValueStep
  PROVE  /\ Next /\ dict' = dict /\ over' = over /\ from' = from
         /\ over = "keys" /\ from # NoKey /\ IsKeyMetric(metric)
<1>1. ASSUME PublicJoinValue PROVE PublicJoin
  BY <1>1 DEF PublicJoinValue, PublicJoin
<1>2. OfOneValue /\ Next
  BY <1>1 DEF ValueStep, FilterValue, SelectValue, RenameValue, MapValue, FlatMapValue,
              FlatMapByKeyValue, DropInfsValue, DropNaNsValue, DropNullsValue,
              ReplaceInfsValue, ReplaceNaNsValue, ReplaceNullsValue,
              LimitRowsPerGroupValue, LimitKeysPerGroupValue,
              LimitRowsPerKeyPerGroupValue, PublicJoinValue, PersistValue, Next
<1> QED BY <1>2 DEF OfOneValue

(* All value steps but renaming keep the metric.                           *)
LEMMA ValueStepMetric ==
  ASSUME ValueStep
  PROVE  RenameValue \/ metric' = metric
<1>1. CASE \/ FilterValue \/ SelectValue \/ MapValue \/ FlatMapValue \/ FlatMapByKeyValue
           \/ DropInfsValue \/ DropNaNsValue \/ DropNullsValue
  BY <1>1 DEF FilterValue, SelectValue, MapValue, FlatMapValue, FlatMapByKeyValue,
              DropInfsValue, DropNaNsValue, DropNullsValue, Filter, Select, Map, FlatMap,
              FlatMapByKey, DropInfs, DropNaNs, DropNulls, DropRows, Chain, ChainParts,
              Announce
<1>2. CASE ReplaceInfsValue \/ ReplaceNaNsValue \/ ReplaceNullsValue
  BY <1>2 DEF ReplaceInfsValue, ReplaceNaNsValue, ReplaceNullsValue, ReplaceInfs,
              ReplaceNaNs, ReplaceNulls, ReplaceCells, Chain, ChainParts, Announce
<1>3. CASE LimitRowsPerGroupValue \/ LimitKeysPerGroupValue
  BY <1>3 DEF LimitRowsPerGroupValue, LimitKeysPerGroupValue, SameMetric
<1>4. CASE LimitRowsPerKeyPerGroupValue
  <2>1. PICK C \in (SUBSET DOMAIN schema) \ {{}}, n \in Thresholds :
          \E key \in DOMAIN schema \ C :
            /\ metric \in {IfGroupedBy(C), IfGroupedByAgg({key}, "sum", C),
                           IfGroupedByAgg({key}, "l2", C)}
            /\ metric' = RowsPerKeyMetric(C, key)
    BY <1>4, Zenon DEF LimitRowsPerKeyPerGroupValue, LimitRowsPerKeyPerGroup, Chain, ChainParts,
                Announce
  <2>2. PICK key : /\ metric \in {IfGroupedBy(C), IfGroupedByAgg({key}, "sum", C),
                                  IfGroupedByAgg({key}, "l2", C)}
                   /\ metric' = RowsPerKeyMetric(C, key)
    BY <2>1
  <2>3. metric.by = {}
    BY <1>4 DEF LimitRowsPerKeyPerGroupValue, OfOneValue, IsKeyMetric
  <2>4. \A agg : IfGroupedByAgg({key}, agg, C).by = {key}
    BY DEF IfGroupedByAgg, Metric
  <2>5. metric = IfGroupedBy(C)
    BY <2>2, <2>3, <2>4
  <2>6. metric.agg = "none"
    BY <2>5 DEF IfGroupedBy, Metric
  <2>7. RowsPerKeyMetric(C, key) = metric
    BY <2>5, <2>6 DEF RowsPerKeyMetric
  <2> QED BY <2>2, <2>7
<1>5. CASE PublicJoinValue \/ PersistValue
  BY <1>5 DEF PublicJoinValue, PersistValue, PublicJoinAs, Identity, Chain, ChainParts,
              Announce
<1> QED BY <1>1, <1>2, <1>3, <1>4, <1>5 DEF ValueStep
(* In hand, a key with the same rows on both sides keeps the same rows.    *)
LEMMA RenamedKeyRowsStay ==
  ASSUME TableInv, Rename, IsKeyMetric(metric), metric.over = "table",
         NEW v, SameRows(InHand, v)
  PROVE  metric'.over = "table" /\ SameRows(InHand', v)
<1>1. PICK old \in DOMAIN schema, new \in NewColumns \ DOMAIN schema :
        LET name == [c \in DOMAIN schema |-> IF c = old THEN new ELSE c]
        IN Chained(Tally([x \in Copies(left[<<>>]) |-> Renaming(x[1], name)]),
                   Tally([x \in Copies(right[<<>>]) |-> Renaming(x[1], name)]),
                   Renaming(schema, name), RenamedMetric(metric, name), bound)
  BY DEF Rename, Chain, ChainParts, Mapped, Chained
<1> DEFINE name == [c \in DOMAIN schema |-> IF c = old THEN new ELSE c]
           f == [x \in Copies(left[<<>>]) |-> Renaming(x[1], name)]
           g == [x \in Copies(right[<<>>]) |-> Renaming(x[1], name)]
           l == Tally(f)
           r == Tally(g)
           c == KeyColumn(InHand)
           k == Only(c, v)
           D == {name[x] : x \in {c}}
<1>2. Chained(l, r, Renaming(schema, name), RenamedMetric(metric, name), bound)
  BY <1>1
<1>3. InHand.metric = metric /\ InHand.left = left /\ InHand.right = right
  BY EntryFields DEF InHand
<1>4. metric.by = {} /\ metric.each = {c}
  <2> HIDE DEF c
  <2> QED BY <1>3, InHandIsSound, KeyMetric DEF c
<1>5. /\ metric'.over = "table" /\ metric'.each = D
  <2>1. metric' = RenamedMetric(metric, name)
    BY <1>2 DEF Chained, Announce
  <2>2. {"by", "each", "over"} \subseteq DOMAIN metric
    BY DEF TableInv, IsMetric, SymmetricDifference, Metric
  <2> HIDE DEF name, c
  <2>3. /\ RenamedMetric(metric, name).over = metric.over
        /\ RenamedMetric(metric, name).each = {name[x] : x \in metric.each}
    BY <2>2 DEF RenamedMetric
  <2> QED BY <1>4, <2>1, <2>3
<1>6. AgreeAt(left[<<>>], right[<<>>], {c}, k)
  BY <1>3 DEF SameRows
<1>7. {c} \in SUBSET DOMAIN schema
  <2> HIDE DEF c
  <2> QED BY <1>4 DEF TableInv, TypeOK, SupportsDomain
<1>8. k = [x \in {c} |-> k[x]] /\ Only(name[c], v)[name[c]] = k[c]
  <2> HIDE DEF c, name
  <2> QED BY DEF Only
<1>9. Legal(left[<<>>], schema) /\ Legal(right[<<>>], schema)
  BY InHandIsLegal
<1>10. /\ \A x, y \in DOMAIN schema : name[x] = name[y] => x = y
       /\ DOMAIN f = Copies(left[<<>>])
       /\ \A y \in Copies(left[<<>>]) : f[y] = Renaming(y[1], name)
       /\ DOMAIN g = Copies(right[<<>>])
       /\ \A y \in Copies(right[<<>>]) : g[y] = Renaming(y[1], name)
       /\ D = {name[c]}
  OBVIOUS
<1>11. AgreeAt(l, r, D, Only(name[c], v))
  <2> HIDE DEF c, k, name, f, g, D
  <2> QED BY <1>6, <1>7, <1>8, <1>9, <1>10, RenameAgrees
<1>12. left'[<<>>] = l /\ right'[<<>>] = r
  BY <1>2 DEF Chained, One
<1>13. /\ InHand'.metric = metric' /\ InHand'.left = left' /\ InHand'.right = right'
  BY EntryFields DEF InHand
<1>14. KeyColumn(InHand') = name[c]
  BY <1>5, <1>10, <1>13 DEF KeyColumn
<1> HIDE DEF name, c, k, l, r, D
<1>15. SameRows(InHand', v)
  BY <1>10, <1>11, <1>12, <1>13, <1>14 DEF SameRows
<1> QED BY <1>5, <1>15

LEMMA KeyRowsStay ==
  ASSUME UserFunctions, TableInv, ValueStep, metric.over = "table",
         NEW v, SameRows(InHand, v)
  PROVE  metric'.over = "table" /\ SameRows(InHand', v)
<1>1. CASE RenameValue
  BY <1>1, ValueStepIsStep, RenamedKeyRowsStay DEF RenameValue
<1>2. CASE ~ RenameValue
  <2>1. metric' = metric
    BY <1>2, ValueStepMetric
  <2>2. /\ InHand.metric = metric /\ InHand.left = left /\ InHand.right = right
        /\ InHand'.metric = metric' /\ InHand'.left = left' /\ InHand'.right = right'
    BY EntryFields DEF InHand
  <2>3. metric.by = {} /\ metric.each = {KeyColumn(InHand)}
    BY <2>2, ValueStepIsStep, InHandIsSound, KeyMetric
  <2>4. IsIfGroupedBy(metric) /\ Columns(metric) = {KeyColumn(InHand)}
    BY <2>3 DEF IsIfGroupedBy, Columns
  <2>5. KeyColumn(InHand') = KeyColumn(InHand)
    BY <2>1, <2>2 DEF KeyColumn
  <2>6. GroupsStay
    BY ValueStepIsStep, StepIsLocal
  <2> HIDE DEF InHand
  <2>7. \A k : AgreeAt(left[<<>>], right[<<>>], {KeyColumn(InHand)}, k)
                 => AgreeAt(left'[<<>>], right'[<<>>], {KeyColumn(InHand)}, k)
    BY <2>1, <2>4, <2>6 DEF GroupsStay
  <2>8. SameRows(InHand', v)
    BY <2>2, <2>5, <2>7 DEF SameRows
  <2> QED BY <2>1, <2>8
<1> QED BY <1>1, <1>2

LEMMA ValueStepKeepsInv ==
  ASSUME UserFunctions, DictInv, ValueStep
  PROVE  DictInv'
<1>1. /\ Next /\ dict' = dict /\ over' = over /\ from' = from
      /\ over = "keys" /\ from # NoKey /\ IsKeyMetric(metric)
  BY ValueStepIsStep
<1>2. TableInv /\ KeysInv
  BY <1>1 DEF DictInv
<1>3. TableInv'
  BY <1>1, <1>2, StepKeepsInv
<1>4. metric.over = "table" /\ \A v : SameRows(dict[from], v) => SameRows(InHand, v)
  BY <1>1, <1>2 DEF KeysInv
<1>5. \A v : SameRows(dict[from], v) => SameRows(InHand', v)
  BY <1>2, <1>4, KeyRowsStay
<1>6. metric'.over = "table"
  <2>1. CASE RenameValue
    <3>1. PICK name : metric' = RenamedMetric(metric, name)
      BY <2>1 DEF RenameValue, Rename, Chain, ChainParts, Announce
    <3>2. RenamedMetric(metric, name).over = metric.over
      BY <1>2 DEF RenamedMetric, TableInv, IsMetric, SymmetricDifference, Metric
    <3> QED BY <1>4, <3>1, <3>2
  <2> QED BY <1>4, <2>1, ValueStepMetric
<1>7. SupportsKeys(dict)'
  BY <1>1, <1>2 DEF KeysInv, SupportsKeys
<1>8. KeysInv'
  BY <1>1, <1>2, <1>5, <1>6, <1>7 DEF KeysInv
<1> QED BY <1>1, <1>3, <1>8 DEF DictInv

LEMMA TableStepKeepsInv ==
  ASSUME UserFunctions, DictInv, TableStep
  PROVE  DictInv'
<1>1. /\ Next /\ over = "values"
      /\ dict' = dict /\ over' = over /\ from' = from
  BY DEF TableStep
<1>2. TableInv'
  BY <1>1, StepKeepsInv DEF DictInv
<1> QED BY <1>1, <1>2 DEF DictInv

LEMMA InitialDictionaries ==
  ASSUME DictInit
  PROVE  DictInv
<1>1. from = NoKey
  BY DEF DictInit
<1>2. CASE Init /\ dict = <<>> /\ over = "values"
  <2>1. DOMAIN dict = {}
    BY <1>2
  <2> QED BY <1>1, <1>2, <2>1, InitialTables DEF DictInv
<1> DEFINE d(in, L, R) == Neighbours(in, L, R)
<1>3. CASE \E in \in DictInputs : \E L, R \in TablesOf(in) :
             /\ over = in.over
             /\ dict = IF over = "values" THEN d(in, L, R)
                       ELSE [k \in DOMAIN d(in, L, R) |->
                               [d(in, L, R)[k] EXCEPT !.bound = Square(KeysApart(d(in, L, R)))]]
             /\ \A k \in DOMAIN d(in, L, R) : dict[k].bound \in 0 .. in.apart
             /\ schema = <<>> /\ metric = SymmetricDifference
             /\ left = One(EmptyBag) /\ right = One(EmptyBag)
             /\ bound = 0 /\ steps = 0
  <2>1. PICK in \in DictInputs : \E L, R \in TablesOf(in) :
             /\ over = in.over
             /\ dict = IF over = "values" THEN d(in, L, R)
                       ELSE [k \in DOMAIN d(in, L, R) |->
                               [d(in, L, R)[k] EXCEPT !.bound = Square(KeysApart(d(in, L, R)))]]
             /\ \A k \in DOMAIN d(in, L, R) : dict[k].bound \in 0 .. in.apart
             /\ schema = <<>> /\ metric = SymmetricDifference
             /\ left = One(EmptyBag) /\ right = One(EmptyBag)
             /\ bound = 0 /\ steps = 0
    BY <1>3
  <2>2. PICK L \in TablesOf(in), R \in TablesOf(in) :
             /\ over = in.over
             /\ dict = IF over = "values" THEN d(in, L, R)
                       ELSE [k \in DOMAIN d(in, L, R) |->
                               [d(in, L, R)[k] EXCEPT !.bound = Square(KeysApart(d(in, L, R)))]]
             /\ \A k \in DOMAIN d(in, L, R) : dict[k].bound \in 0 .. in.apart
             /\ schema = <<>> /\ metric = SymmetricDifference
             /\ left = One(EmptyBag) /\ right = One(EmptyBag)
             /\ bound = 0 /\ steps = 0
    BY <2>1
  <2> DEFINE N == d(in, L, R)
             all == Square(KeysApart(N))
             t(k) == in.tables[k]
  <2>3. /\ DOMAIN N = DOMAIN in.tables
        /\ \A k \in DOMAIN N :
             N[k] = Entry(t(k).schema, t(k).metric, One(L[k]), One(R[k]),
                          Distance(t(k).metric, One(L[k]), One(R[k])))
    BY Zenon DEF Neighbours
  <2>4. /\ over = "values" => dict = N
        /\ over # "values" => dict = [k \in DOMAIN N |-> [N[k] EXCEPT !.bound = all]]
    BY <2>2
  <2> HIDE DEF N, all
  <2>5. /\ DOMAIN dict = DOMAIN in.tables
        /\ over # "values" => \A k \in DOMAIN dict : dict[k] = [N[k] EXCEPT !.bound = all]
    BY <2>3, <2>4
  <2>6. ASSUME over # "values", NEW k \in DOMAIN dict
        PROVE  dict[k] = Entry(t(k).schema, t(k).metric, One(L[k]), One(R[k]), all)
    <3> DEFINE b == Distance(t(k).metric, One(L[k]), One(R[k]))
    <3>1. dict[k] = [N[k] EXCEPT !.bound = all]
      BY <2>5, <2>6
    <3>2. N[k] = Entry(t(k).schema, t(k).metric, One(L[k]), One(R[k]), b)
      BY <2>3, <2>5
    <3> HIDE DEF b, t
    <3>3. [N[k] EXCEPT !.bound = all]
            = Entry(t(k).schema, t(k).metric, One(L[k]), One(R[k]), all)
      BY <3>2 DEF Entry
    <3> QED BY <3>1, <3>3
  <2>7. ASSUME NEW k \in DOMAIN dict
        PROVE  \E b : dict[k] = Entry(t(k).schema, t(k).metric, One(L[k]), One(R[k]), b)
    <3>1. CASE over = "values"
      BY <2>3, <2>4, <3>1
    <3>2. CASE over # "values"
      BY <3>2, <2>6
    <3> QED BY <3>1, <3>2
  <2>8. ASSUME NEW k \in DOMAIN dict
        PROVE  /\ dict[k].schema = t(k).schema /\ dict[k].metric = t(k).metric
               /\ dict[k].left = One(L[k]) /\ dict[k].right = One(R[k])
               /\ dict[k].bound \in Nat
    <3>1. dict[k].bound \in 0 .. in.apart
      BY <2>2, <2>3, <2>5 DEF N
    <3> QED BY <2>7, <3>1, EntryFields
  <2>9. ASSUME NEW k \in DOMAIN dict
        PROVE  Sound(dict[k]) /\ dict[k].metric.over = "table"
    <3>1. L[k] \in TablesIn(t(k).schema) /\ R[k] \in TablesIn(t(k).schema)
      BY <2>5 DEF TablesOf
    <3>2. Legal(L[k], t(k).schema) /\ Legal(R[k], t(k).schema)
      BY <3>1, InputTablesAreLegal
    <3>3. \A T : DOMAIN One(T) = {<<>>} /\ One(T)[<<>>] = T
      BY DEF One
    <3>4. /\ IsSchema(t(k).schema) /\ IsMetric(t(k).metric)
          /\ t(k).metric.over = "table" /\ SupportsDomain(t(k).metric, t(k).schema)
      BY <2>5, DictInputsAssumption
    <3> HIDE DEF t
    <3> QED BY <2>8, <3>2, <3>3, <3>4 DEF Sound
  <2>10. over \in {"values", "keys"} /\ DOMAIN dict \subseteq DictKeys /\ DOMAIN dict # {}
    BY <2>2, <2>5, DictInputsAssumption
  <2>11. over = "keys" => SupportsKeys(dict)
    <3> SUFFICES ASSUME over = "keys" PROVE SupportsKeys(dict)
      OBVIOUS
    <3>1. SupportsKeys(in.tables)
      BY <2>2, DictInputsAssumption
    <3>2. \A k \in DOMAIN dict : KeyColumn(dict[k]) = KeyColumn(in.tables[k])
      BY <2>8 DEF KeyColumn
    <3> QED BY <2>5, <2>8, <3>1, <3>2 DEF SupportsKeys
  <2>12. over = "keys" => \A j, k \in DOMAIN dict : dict[j].bound = dict[k].bound
    <3>1. over # "values" => \A k \in DOMAIN dict : dict[k].bound = all
      BY <2>6, EntryFields
    <3> QED BY <3>1
  <2>13. over = "keys" => KeysInv
    BY <1>1, <2>9, <2>10, <2>11, <2>12 DEF KeysInv
  <2>14. TableInv
    <3>1. InHand = NothingInHand /\ steps = 0
      BY <2>2 DEF InHand, NothingInHand
    <3>2. Sound(InHand)
      BY <3>1, NothingIsSound
    <3>3. /\ InHand.schema = schema /\ InHand.metric = metric /\ InHand.left = left
          /\ InHand.right = right /\ InHand.bound = bound
      BY EntryFields DEF InHand
    <3> HIDE DEF InHand
    <3>4. steps \in 0 .. MaxSteps
      BY <3>1, BoundsAssumption
    <3> QED BY <3>2, <3>3, <3>4 DEF TableInv, TypeOK, DomainClosed, Sound, Legal
  <2> QED BY <1>1, <2>9, <2>10, <2>13, <2>14 DEF DictInv
<1> QED BY <1>2, <1>3 DEF DictInit

LEMMA DictStepKeepsInv ==
  ASSUME UserFunctions, DictInv, [DictNext]_allVars
  PROVE  DictInv'
<1>1. CASE UNCHANGED allVars
  <2>1. /\ schema' = schema /\ metric' = metric /\ left' = left /\ right' = right
        /\ bound' = bound /\ steps' = steps /\ dict' = dict /\ over' = over /\ from' = from
    BY <1>1 DEF allVars, chainVars
  <2>2. TableInv'
    BY <2>1, StepKeepsInv DEF vars, DictInv
  <2>3. KeysInv => KeysInv'
    BY <2>1 DEF KeysInv, SupportsKeys, InHand
  <2> QED BY <2>1, <2>2, <2>3 DEF DictInv
<1> QED
  BY <1>1, CreateDictKeepsInv, GetValueKeepsInv, SubsetKeepsInv, AugmentKeepsInv,
     TransformValueKeepsInv, ValueStepKeepsInv, TableStepKeepsInv, PrivateJoinKeepsInv,
     PrivateJoinOnKeyKeepsInv DEF DictNext

LEMMA DictTablesStay ==
  ASSUME UserFunctions
  PROVE  DictSpec => []DictInv
<1>1. DictInit => DictInv
  BY InitialDictionaries
<1>2. DictInv /\ [DictNext]_allVars => DictInv'
  BY DictStepKeepsInv
<1> QED BY <1>1, <1>2, PTL DEF DictSpec
(* The types of chains through dictionaries: every table has a metric that *)
(* supports its domain, and under AddRemoveKeys a key column of one type   *)
(* in all tables, and the one bound of the dictionary.                     *)
THEOREM DictChainType ==
  ASSUME UserFunctions
  PROVE  DictSpec => []DictTypeOK
<1>1. ASSUME DictInv, over = "keys"
      PROVE  Cardinality({dict[k].bound : k \in DOMAIN dict}) = 1
  <2>1. /\ DOMAIN dict # {}
        /\ \A j, k \in DOMAIN dict : dict[j].bound = dict[k].bound
    BY <1>1 DEF DictInv, KeysInv
  <2>2. PICK k \in DOMAIN dict : TRUE
    BY <2>1
  <2>3. {dict[j].bound : j \in DOMAIN dict} = {dict[k].bound}
    BY <2>1
  <2> QED BY <2>3, FS_Singleton
<1>2. DictInv => DictTypeOK
  BY <1>1 DEF DictInv, DictTypeOK, TableInv, KeysInv, Sound
<1> QED BY <1>2, DictTablesStay, PTL

(* Every table of a dictionary, and the one in hand, is in the domain that *)
(* the last transformation announced, through joins, copies, renamings and *)
(* transformations of single values in any order.                          *)
THEOREM DictChainDomainClosed ==
  ASSUME UserFunctions
  PROVE  DictSpec => []DictDomainClosed
<1>1. DictInv => DictDomainClosed
  BY DEF DictInv, DictDomainClosed, TableInv, Sound, Legal
<1> QED BY <1>1, DictTablesStay, PTL

LEMMA DifferingKeys ==
  ASSUME NEW d, NEW v
  PROVE  KeyDiffers(d, v) <=> \E k \in DOMAIN d : ~ SameRows(d[k], v)
<1>1. ASSUME NEW T, NEW c
      PROVE  RowsOfKey(T, c, v) = Group(T, {c}, Only(c, v))
  <2>1. \A r : Restrict(r, {c}) = Only(c, v) <=> r[c] = v
    BY DEF Restrict, Only
  <2>2. {x \in DOMAIN T : Restrict(x, {c}) = Only(c, v)} = {x \in DOMAIN T : x[c] = v}
    BY <2>1
  <2>3. /\ RowsOfKey(T, c, v) = Restrict(T, {x \in DOMAIN T : x[c] = v})
        /\ Group(T, {c}, Only(c, v))
             = Restrict(T, {x \in DOMAIN T : Restrict(x, {c}) = Only(c, v)})
    BY Zenon DEF RowsOfKey, Group, Where, RestrictDomain
  <2> QED BY <2>2, <2>3
<1>2. \A e : RowsOfKey(e.left[<<>>], KeyColumn(e), v) # RowsOfKey(e.right[<<>>], KeyColumn(e), v)
               <=> ~ SameRows(e, v)
  BY <1>1, AgreeingGroups DEF SameRows
<1> QED BY <1>2 DEF KeyDiffers

(* Rows of a key meet rows of the same key.                                *)
LEMMA PartnersOfKey ==
  ASSUME NEW T, NEW U, NEW c, NEW v, AgreeAt(T, U, {c}, Only(c, v)),
         NEW on, c \in on, NEW nulls, NEW a, Restrict(a, {c}) = Only(c, v)
  PROVE  Partners(T, a, on, nulls) = Partners(U, a, on, nulls)
<1> DEFINE A == {b \in DOMAIN T : Matches(a, b, on, nulls)}
           B == {b \in DOMAIN U : Matches(a, b, on, nulls)}
<1>1. \A r : Restrict(r, {c}) = Only(c, v) <=> r[c] = v
  BY DEF Restrict, Only
<1>2. \A b : Matches(a, b, on, nulls) => Restrict(b, {c}) = Only(c, v)
  BY <1>1 DEF Matches
<1>3. A = B /\ \A b \in A : T[b] = U[b]
  BY <1>2 DEF AgreeAt
<1>4. Restrict(T, A) = Restrict(U, B)
  <2> HIDE DEF A, B
  <2> QED BY <1>3 DEF Restrict
<1> QED BY <1>4 DEF Partners

LEMMA JoinedKeyRowsStay ==
  ASSUME DictInv, over = "keys", NEW v, \A j \in DOMAIN dict : SameRows(dict[j], v),
         NEW k \in DOMAIN dict, NEW l \in DOMAIN dict, NEW on, NEW nulls \in BOOLEAN,
         CanJoinKeys(k, l, on), JoinsKeys(k, l, on), NEW s, NEW d
  PROVE  SameRows(Entry(s, dict[k].metric,
                        JoinedTable(dict[k].left[<<>>], dict[l].left[<<>>], k, l, on, nulls),
                        JoinedTable(dict[k].right[<<>>], dict[l].right[<<>>], k, l, on, nulls),
                        d), v)
<1> DEFINE c == KeyColumn(dict[k])
           J(T, U) == Join(T, U, DOMAIN dict[k].schema, DOMAIN dict[l].schema, on, "inner", nulls)
           e == Entry(s, dict[k].metric,
                      JoinedTable(dict[k].left[<<>>], dict[l].left[<<>>], k, l, on, nulls),
                      JoinedTable(dict[k].right[<<>>], dict[l].right[<<>>], k, l, on, nulls), d)
<1>1. KeysInv
  BY DEF DictInv
<1>2. ASSUME NEW j \in DOMAIN dict
      PROVE  /\ Sound(dict[j])
             /\ Legal(dict[j].left[<<>>], dict[j].schema)
             /\ Legal(dict[j].right[<<>>], dict[j].schema)
  <2>1. dict[j].metric.over = "table" /\ Sound(dict[j])
    BY <1>1 DEF KeysInv, DictInv
  <2> QED BY <2>1 DEF Sound
<1>3. Joinable(dict[k].schema, dict[l].schema, on)
  BY <1>2 DEF Joinable, CanJoinKeys, Sound
<1>4. c = KeyColumn(dict[l]) /\ c \in on /\ {c} \in SUBSET DOMAIN dict[k].schema
  BY <1>1 DEF JoinsKeys, KeysInv, SupportsKeys
<1> HIDE DEF c
<1>5. /\ AgreeAt(dict[k].left[<<>>], dict[k].right[<<>>], {c}, Only(c, v))
      /\ AgreeAt(dict[l].left[<<>>], dict[l].right[<<>>], {c}, Only(c, v))
  BY <1>4 DEF SameRows, c
<1>6. \A a : Restrict(a, {c}) = Only(c, v) =>
        Partners(dict[l].left[<<>>], a, on, nulls) = Partners(dict[l].right[<<>>], a, on, nulls)
  BY <1>4, <1>5, PartnersOfKey
<1>7. AgreeAt(J(dict[k].left[<<>>], dict[l].left[<<>>]),
              J(dict[k].right[<<>>], dict[l].right[<<>>]), {c}, Only(c, v))
  <2>1. \A x \in {c} : x \in on \/ x \notin DOMAIN dict[l].schema
    BY <1>4
  <2> QED BY <1>2, <1>3, <1>4, <1>5, <1>6, <2>1, JoinAgrees
<1>8. /\ JoinedTable(dict[k].left[<<>>], dict[l].left[<<>>], k, l, on, nulls)
           = One(J(dict[k].left[<<>>], dict[l].left[<<>>]))
      /\ JoinedTable(dict[k].right[<<>>], dict[l].right[<<>>], k, l, on, nulls)
           = One(J(dict[k].right[<<>>], dict[l].right[<<>>]))
  BY DEF JoinedTable
<1> HIDE DEF J
<1>9. /\ e.left[<<>>] = J(dict[k].left[<<>>], dict[l].left[<<>>])
      /\ e.right[<<>>] = J(dict[k].right[<<>>], dict[l].right[<<>>])
      /\ e.metric = dict[k].metric
  BY <1>8, EntryFields DEF One
<1> HIDE DEF e
<1>10. KeyColumn(e) = c
  BY <1>9 DEF KeyColumn, c
<1>11. SameRows(e, v)
  BY <1>7, <1>9, <1>10 DEF SameRows
<1> QED BY <1>11 DEF e

LEMMA SameRowsStay ==
  ASSUME DictInv, DictNext, over = "keys", over' = "keys", dict # <<>>,
         NEW v, \A k \in DOMAIN dict : SameRows(dict[k], v)
  PROVE  \A k \in DOMAIN dict' : SameRows(dict'[k], v)
<1>1. CASE GetValue \/ ValueStep
  <2>1. dict' = dict
    BY <1>1, ValueStepIsStep DEF GetValue
  <2> QED BY <2>1
<1>2. CASE Subset
  <2>1. PICK keys \in (SUBSET DOMAIN dict) \ {{}} : dict' = Restrict(dict, keys)
    BY <1>2 DEF Subset, EndAt
  <2> QED BY <2>1 DEF Restrict
<1>3. CASE TransformValue
  <2> DEFINE e == [InHand EXCEPT !.bound = dict[from].bound]
  <2>1. from \in DOMAIN dict /\ SameRows(InHand, v)
    BY <1>3 DEF TransformValue, DictInv, KeysInv
  <2>2. /\ e.metric = InHand.metric /\ e.left = InHand.left /\ e.right = InHand.right
    BY EntryFields DEF InHand
  <2>3. PICK new \in DictKeys \ DOMAIN dict : dict' = Extended(dict, Only(new, e))
    BY <1>3 DEF TransformValue, EndAt, Augmented
  <2> HIDE DEF e, InHand
  <2>4. KeyColumn(e) = KeyColumn(InHand)
    BY <2>2 DEF KeyColumn
  <2>5. SameRows(e, v)
    BY <2>1, <2>2, <2>4 DEF SameRows
  <2>6. \A k \in DOMAIN dict' : dict'[k] = e \/ (k \in DOMAIN dict /\ dict'[k] = dict[k])
    BY <2>3 DEF Extended, Only
  <2> QED BY <2>5, <2>6
<1>4. CASE PrivateJoinOnKey
  <2> DEFINE E(k, l, on, nulls) ==
               Entry(JoinedSchema(k, l, on, nulls), dict[k].metric,
                     JoinedTable(dict[k].left[<<>>], dict[l].left[<<>>], k, l, on, nulls),
                     JoinedTable(dict[k].right[<<>>], dict[l].right[<<>>], k, l, on, nulls),
                     dict[k].bound)
  <2>1. PICK k \in DOMAIN dict : \E l \in DOMAIN dict \ {k} :
          \E on \in SUBSET (DOMAIN dict[k].schema \cap DOMAIN dict[l].schema),
             new \in DictKeys, nulls \in BOOLEAN :
            /\ CanJoinKeys(k, l, on)
            /\ JoinsKeys(k, l, on)
            /\ dict' = Extended(Only(new, E(k, l, on, nulls)), dict)
    BY <1>4 DEF PrivateJoinOnKey, EndAt
  <2>2. PICK l \in DOMAIN dict \ {k} :
          \E on \in SUBSET (DOMAIN dict[k].schema \cap DOMAIN dict[l].schema),
             new \in DictKeys, nulls \in BOOLEAN :
            /\ CanJoinKeys(k, l, on)
            /\ JoinsKeys(k, l, on)
            /\ dict' = Extended(Only(new, E(k, l, on, nulls)), dict)
    BY <2>1
  <2>3. PICK on \in SUBSET (DOMAIN dict[k].schema \cap DOMAIN dict[l].schema),
             new \in DictKeys, nulls \in BOOLEAN :
          /\ CanJoinKeys(k, l, on)
          /\ JoinsKeys(k, l, on)
          /\ dict' = Extended(Only(new, E(k, l, on, nulls)), dict)
    BY <2>2
  <2>4. SameRows(E(k, l, on, nulls), v)
    BY <2>3, JoinedKeyRowsStay
  <2> HIDE DEF E
  <2>5. \A j \in DOMAIN dict' :
          dict'[j] = E(k, l, on, nulls) \/ (j \in DOMAIN dict /\ dict'[j] = dict[j])
    BY <2>3 DEF Extended, Only
  <2> QED BY <2>4, <2>5
<1>5. ~ CreateDictFromValue
  BY DEF CreateDictFromValue
<1>6. ~ (CopyAndTransformValue \/ TransformInPlace \/ RenameKey \/ TableStep \/ PrivateJoin)
  BY DEF CopyAndTransformValue, TransformInPlace, RenameKey, TableStep, PrivateJoin
<1> QED BY <1>1, <1>2, <1>3, <1>4, <1>5, <1>6 DEF DictNext

(* Under AddRemoveKeys a key with the same rows on both sides in all       *)
(* tables has the same rows in every table that is made of them, by        *)
(* transformations of the rows of a key and joins on the key column, for   *)
(* any tables, user functions and hashes: which is why TransformValue and  *)
(* PrivateJoinOnKey may return d_in as their stability.                    *)
THEOREM DictKeysStayApart ==
  ASSUME UserFunctions
  PROVE  DictSpec => KeysStayApart
<1>1. ASSUME DictInv, DictNext, over = "keys", dict # <<>>, over' = "keys"
      PROVE  \A v : KeyDiffers(dict', v) => KeyDiffers(dict, v)
  BY <1>1, SameRowsStay, DifferingKeys
<1>2. DictInv /\ [DictNext]_allVars =>
        [over = "keys" /\ dict # <<>> /\ over' = "keys" /\ dict' # <<>> =>
           \A v \in LeftKeys(dict') \cup RightKeys(dict') :
             KeyDiffers(dict', v) => KeyDiffers(dict, v)]_allVars
  BY <1>1
<1> QED BY <1>2, DictTablesStay, PTL DEF DictSpec, KeysStayApart

-----------------------------------------------------------------------------
(* Pairs of differences *)

(* A difference is <<side, <<part, what>>>>: the side that has it, the part *)
(* of the table by the outer grouping, and a copy of a row or a group.     *)
(* Distances that are sums of squares count the pairs within a part.       *)
Pairs(within, D) ==
  {p \in D \X D : within => p[1][2][1] = p[2][2][1]}

LEMMA PairsFinite ==
  ASSUME NEW D, IsFiniteSet(D), NEW within
  PROVE  IsFiniteSet(Pairs(within, D)) /\ Cardinality(Pairs(within, D)) \in Nat
<1>1. IsFiniteSet(D \X D)
  BY FS_Product
<1>2. Pairs(within, D) \in SUBSET (D \X D)
  BY DEF Pairs
<1> QED BY <1>1, <1>2, FS_Subset, FS_CardinalityType

LEMMA ProductOfBounds ==
  ASSUME NEW a \in Nat, NEW b \in Nat, NEW n \in Nat, a <= n, b <= n
  PROVE  a * b <= n * n
<1>1. PICK c \in Nat : n = a + c
  <2>1. n - a \in Nat /\ n = a + (n - a)
    OBVIOUS
  <2> QED BY <2>1
<1>2. PICK d \in Nat : n = b + d
  <2>1. n - b \in Nat /\ n = b + (n - b)
    OBVIOUS
  <2> QED BY <2>1
<1>3. n * n = (a + c) * (b + d)
  BY <1>1, <1>2
<1>4. (a + c) * (b + d) = a * b + a * d + c * b + c * d
  OBVIOUS
<1>5. a * d \in Nat /\ c * b \in Nat /\ c * d \in Nat /\ a * b \in Nat
  OBVIOUS
<1> QED BY <1>3, <1>4, <1>5

(* Every element of Y is the image of at most n elements of X.             *)
Fans(h, n, X, Y) ==
  /\ h \in [X -> Y]
  /\ \A y \in Y : /\ IsFiniteSet({x \in X : h[x] = y})
                  /\ Cardinality({x \in X : h[x] = y}) <= n

LEMMA InjectionFans ==
  ASSUME NEW X, NEW Y, NEW h \in [X -> Y], \A x, y \in X : h[x] = h[y] => x = y
  PROVE  Fans(h, 1, X, Y)
<1> SUFFICES ASSUME NEW y \in Y
             PROVE  /\ IsFiniteSet({x \in X : h[x] = y})
                    /\ Cardinality({x \in X : h[x] = y}) <= 1
  BY DEF Fans
<1> DEFINE F == {x \in X : h[x] = y}
<1>1. F = {} \/ \E x : F = {x}
  OBVIOUS
<1> HIDE DEF F
<1>2. ASSUME F = {} PROVE IsFiniteSet(F) /\ Cardinality(F) <= 1
  <2>1. IsFiniteSet({}) /\ Cardinality({}) = 0
    BY FS_EmptySet
  <2> QED BY <1>2, <2>1
<1>3. ASSUME NEW x, F = {x} PROVE IsFiniteSet(F) /\ Cardinality(F) <= 1
  <2>1. IsFiniteSet({x}) /\ Cardinality({x}) = 1
    BY FS_Singleton
  <2> QED BY <1>3, <2>1
<1>4. IsFiniteSet(F) /\ Cardinality(F) <= 1
  BY <1>1, <1>2, <1>3
<1> QED BY <1>4 DEF F

LEMMA FannedFinite ==
  ASSUME NEW X, NEW Y, IsFiniteSet(Y), NEW n \in Nat, NEW h, Fans(h, n, X, Y)
  PROVE  IsFiniteSet(X) /\ Cardinality(X) \in Nat /\ Cardinality(X) <= n * Cardinality(Y)
BY FanOut DEF Fans

(* All pairs, or those within a part, if those are mapped into a part.     *)
LEMMA PairsFan ==
  ASSUME NEW D, IsFiniteSet(D), NEW E, NEW n \in Nat, NEW g, Fans(g, n, E, D),
         NEW w, NEW v,
         \A x, y \in E : (w => x[2][1] = y[2][1]) => (v => g[x][2][1] = g[y][2][1])
  PROVE  /\ IsFiniteSet(E)
         /\ Cardinality(Pairs(w, E)) <= (n * n) * Cardinality(Pairs(v, D))
<1> DEFINE P == Pairs(w, E)
           Q == Pairs(v, D)
           h == [p \in P |-> <<g[p[1]], g[p[2]]>>]
           F(y) == {x \in E : g[x] = y}
<1>1. g \in [E -> D] /\ \A y \in D : IsFiniteSet(F(y)) /\ Cardinality(F(y)) <= n
  BY DEF Fans
<1>2. IsFiniteSet(E)
  BY FannedFinite
<1>3. h \in [P -> Q]
  <2>1. ASSUME NEW p \in P PROVE <<g[p[1]], g[p[2]]>> \in Q
    <3>1. p[1] \in E /\ p[2] \in E /\ (w => p[1][2][1] = p[2][2][1])
      BY DEF Pairs
    <3>2. g[p[1]] \in D /\ g[p[2]] \in D /\ (v => g[p[1]][2][1] = g[p[2]][2][1])
      BY <1>1, <3>1
    <3> QED BY <3>2 DEF Pairs
  <2> QED BY <2>1
<1>4. IsFiniteSet(Q) /\ n * n \in Nat
  BY PairsFinite
<1>5. ASSUME NEW q \in Q
      PROVE  /\ IsFiniteSet({p \in P : h[p] = q})
             /\ Cardinality({p \in P : h[p] = q}) <= n * n
  <2> DEFINE X == F(q[1])
             Y == F(q[2])
  <2>1. q[1] \in D /\ q[2] \in D
    BY DEF Pairs
  <2>2. {p \in P : h[p] = q} \in SUBSET (X \X Y)
    <3> SUFFICES ASSUME NEW p \in P, h[p] = q PROVE p \in X \X Y
      OBVIOUS
    <3>1. p \in E \X E
      BY DEF Pairs
    <3>2. g[p[1]] = q[1] /\ g[p[2]] = q[2]
      <4>1. h[p] = <<g[p[1]], g[p[2]]>>
        OBVIOUS
      <4> HIDE DEF h
      <4> QED BY <4>1
    <3> QED BY <3>1, <3>2
  <2>3. IsFiniteSet(X) /\ IsFiniteSet(Y) /\ Cardinality(X) <= n /\ Cardinality(Y) <= n
    BY <1>1, <2>1
  <2> HIDE DEF X, Y, h, P
  <2>4. Cardinality(X) \in Nat /\ Cardinality(Y) \in Nat
    BY <2>3, FS_CardinalityType
  <2>5. /\ IsFiniteSet(X \X Y)
        /\ Cardinality(X \X Y) = Cardinality(X) * Cardinality(Y)
    BY <2>3, FS_Product
  <2>6. Cardinality(X) * Cardinality(Y) <= n * n
    BY <2>3, <2>4, ProductOfBounds
  <2>7. /\ IsFiniteSet({p \in P : h[p] = q})
        /\ Cardinality({p \in P : h[p] = q}) <= Cardinality(X \X Y)
    BY <2>2, <2>5, FS_Subset
  <2>8. Cardinality({p \in P : h[p] = q}) \in Nat /\ Cardinality(X) * Cardinality(Y) \in Nat
    BY <2>4, <2>7, FS_CardinalityType
  <2> QED BY <2>5, <2>6, <2>7, <2>8
<1> HIDE DEF P, Q, h
<1>6. Cardinality(P) <= (n * n) * Cardinality(Q)
  BY <1>3, <1>4, <1>5, FanOut
<1> QED BY <1>2, <1>6 DEF P, Q

(* Pairs within a part, if no two elements of a part have the same image.  *)
LEMMA PairsWithinFan ==
  ASSUME NEW D, IsFiniteSet(D), NEW E, NEW n \in Nat, NEW g, Fans(g, n, E, D),
         \A x, y \in E : g[x] = g[y] /\ x[2][1] = y[2][1] => x = y
  PROVE  /\ IsFiniteSet(E)
         /\ Cardinality(Pairs(TRUE, E)) <= n * Cardinality(Pairs(FALSE, D))
<1> DEFINE P == Pairs(TRUE, E)
           Q == Pairs(FALSE, D)
           h == [p \in P |-> <<g[p[1]], g[p[2]]>>]
           F(y) == {x \in E : g[x] = y}
<1>1. g \in [E -> D] /\ \A y \in D : IsFiniteSet(F(y)) /\ Cardinality(F(y)) <= n
  BY DEF Fans
<1>2. IsFiniteSet(E)
  BY FannedFinite
<1>3. h \in [P -> Q]
  <2>1. ASSUME NEW p \in P PROVE <<g[p[1]], g[p[2]]>> \in Q
    <3>1. p[1] \in E /\ p[2] \in E
      BY DEF Pairs
    <3>2. g[p[1]] \in D /\ g[p[2]] \in D
      BY <1>1, <3>1
    <3> QED BY <3>2 DEF Pairs
  <2> QED BY <2>1
<1>4. IsFiniteSet(Q)
  BY PairsFinite
<1>5. ASSUME NEW q \in Q
      PROVE  /\ IsFiniteSet({p \in P : h[p] = q})
             /\ Cardinality({p \in P : h[p] = q}) <= n
  <2> DEFINE X == F(q[1])
             S == {p \in P : h[p] = q}
             first == [p \in S |-> p[1]]
  <2>1. q[1] \in D
    BY DEF Pairs
  <2>2. ASSUME NEW p \in S
        PROVE  /\ p \in E \X E /\ p[1][2][1] = p[2][2][1]
               /\ g[p[1]] = q[1] /\ g[p[2]] = q[2]
    <3>1. p \in E \X E /\ p[1][2][1] = p[2][2][1]
      BY DEF Pairs
    <3>2. h[p] = <<g[p[1]], g[p[2]]>> /\ h[p] = q
      OBVIOUS
    <3> HIDE DEF h
    <3> QED BY <3>1, <3>2
  <2>3. first \in [S -> X]
    <3>1. \A p \in S : p[1] \in X
      BY <2>2
    <3> HIDE DEF S, X
    <3> QED BY <3>1
  <2> HIDE DEF S
  <2>4. ASSUME NEW p \in S, NEW t \in S, first[p] = first[t]
        PROVE  p = t
    <3>1. p[1] = t[1]
      BY <2>4
    <3>2. p[2] = t[2]
      BY <2>2, <3>1
    <3> QED BY <2>2, <3>1, <3>2
  <2>5. first \in Injection(S, X)
    BY <2>3, <2>4 DEF Injection, IsInjective
  <2>6. IsFiniteSet(X) /\ Cardinality(X) <= n
    BY <1>1, <2>1
  <2> HIDE DEF first, X
  <2>7. IsFiniteSet(S) /\ Cardinality(S) <= Cardinality(X)
    BY <2>5, <2>6, FS_Injection
  <2>8. Cardinality(S) \in Nat /\ Cardinality(X) \in Nat
    BY <2>6, <2>7, FS_CardinalityType
  <2>9. IsFiniteSet(S) /\ Cardinality(S) <= n
    BY <2>6, <2>7, <2>8
  <2> QED BY <2>9 DEF S
<1> HIDE DEF P, Q, h
<1>6. Cardinality(P) <= n * Cardinality(Q)
  BY <1>3, <1>4, <1>5, FanOut
<1> QED BY <1>2, <1>6 DEF P, Q

(* What both sides have: <<1, x>> for x in X, <<2, y>> for y in Y.         *)
Sides(X, Y) == ({1} \X X) \cup ({2} \X Y)

LEMMA SidesCount ==
  ASSUME NEW X, IsFiniteSet(X), NEW Y, IsFiniteSet(Y)
  PROVE  /\ IsFiniteSet(Sides(X, Y))
         /\ Cardinality(Sides(X, Y)) = Cardinality(X) + Cardinality(Y)
<1>1. IsFiniteSet({1}) /\ Cardinality({1}) = 1 /\ IsFiniteSet({2}) /\ Cardinality({2}) = 1
  BY FS_Singleton
<1>2. /\ IsFiniteSet({1} \X X) /\ Cardinality({1} \X X) = 1 * Cardinality(X)
      /\ IsFiniteSet({2} \X Y) /\ Cardinality({2} \X Y) = 1 * Cardinality(Y)
  BY <1>1, FS_Product
<1>3. ({1} \X X) \cap ({2} \X Y) = {}
  OBVIOUS
<1>4. /\ IsFiniteSet(Sides(X, Y))
      /\ Cardinality(Sides(X, Y)) = Cardinality({1} \X X) + Cardinality({2} \X Y)
                                      - Cardinality(({1} \X X) \cap ({2} \X Y))
  BY <1>2, FS_Union DEF Sides
<1>5. Cardinality(({1} \X X) \cap ({2} \X Y)) = 0
  BY <1>3, FS_EmptySet
<1>6. Cardinality(X) \in Nat /\ Cardinality(Y) \in Nat
  BY FS_CardinalityType
<1> QED BY <1>2, <1>4, <1>5, <1>6

SidesMap(h, q, X, Y) ==
  [d \in Sides(X, Y) |-> <<d[1], IF d[1] = 1 THEN h[d[2]] ELSE q[d[2]]>>]

LEMMA SidesFan ==
  ASSUME NEW n, NEW X, NEW Y, NEW V, NEW W, NEW h, Fans(h, n, X, V), NEW q, Fans(q, n, Y, W)
  PROVE  /\ Fans(SidesMap(h, q, X, Y), n, Sides(X, Y), Sides(V, W))
         /\ \A x \in X : SidesMap(h, q, X, Y)[<<1, x>>] = <<1, h[x]>>
         /\ \A y \in Y : SidesMap(h, q, X, Y)[<<2, y>>] = <<2, q[y]>>
<1> DEFINE S == Sides(X, Y)
           T == Sides(V, W)
           g == SidesMap(h, q, X, Y)
<1>1. \A d : d \in S <=> (\E x \in X : d = <<1, x>>) \/ (\E y \in Y : d = <<2, y>>)
  BY DEF Sides
<1>2. \A d : d \in T <=> (\E x \in V : d = <<1, x>>) \/ (\E y \in W : d = <<2, y>>)
  BY DEF Sides
<1>3. h \in [X -> V] /\ q \in [Y -> W]
  BY DEF Fans
<1>4. \A x \in X : <<1, x>> \in S /\ g[<<1, x>>] = <<1, h[x]>>
  BY <1>1 DEF SidesMap
<1>5. \A y \in Y : <<2, y>> \in S /\ g[<<2, y>>] = <<2, q[y]>>
  BY <1>1 DEF SidesMap
<1>6. g \in [S -> T]
  <2>1. DOMAIN g = S /\ g = [d \in DOMAIN g |-> g[d]]
    BY DEF SidesMap
  <2> HIDE DEF g, S, T
  <2>2. \A d \in S : g[d] \in T
    BY <1>1, <1>2, <1>3, <1>4, <1>5
  <2> QED BY <2>1, <2>2
<1> HIDE DEF g, S, T
<1>7. ASSUME NEW t \in T
      PROVE  /\ IsFiniteSet({d \in S : g[d] = t})
             /\ Cardinality({d \in S : g[d] = t}) <= n
  <2>1. ASSUME NEW v \in V, t = <<1, v>>
        PROVE  /\ IsFiniteSet({d \in S : g[d] = t})
               /\ Cardinality({d \in S : g[d] = t}) <= n
    <3> DEFINE F == {x \in X : h[x] = v}
    <3>1. IsFiniteSet(F) /\ Cardinality(F) <= n
      BY DEF Fans
    <3>2. {d \in S : g[d] = t} = {1} \X F
      <4>1. ASSUME NEW d \in S, g[d] = t PROVE d \in {1} \X F
        BY <1>1, <1>4, <1>5, <2>1, <4>1
      <4>2. ASSUME NEW d \in {1} \X F PROVE d \in S /\ g[d] = t
        BY <1>4, <2>1
      <4> QED BY <4>1, <4>2
    <3>3. IsFiniteSet({1}) /\ Cardinality({1}) = 1
      BY FS_Singleton
    <3> HIDE DEF F
    <3>4. IsFiniteSet({1} \X F) /\ Cardinality({1} \X F) = 1 * Cardinality(F)
      BY <3>1, <3>3, FS_Product
    <3>5. 1 * Cardinality(F) = Cardinality(F)
      BY <3>1, FS_CardinalityType
    <3> QED BY <3>1, <3>2, <3>4, <3>5
  <2>2. ASSUME NEW v \in W, t = <<2, v>>
        PROVE  /\ IsFiniteSet({d \in S : g[d] = t})
               /\ Cardinality({d \in S : g[d] = t}) <= n
    <3> DEFINE F == {x \in Y : q[x] = v}
    <3>1. IsFiniteSet(F) /\ Cardinality(F) <= n
      BY DEF Fans
    <3>2. {d \in S : g[d] = t} = {2} \X F
      <4>1. ASSUME NEW d \in S, g[d] = t PROVE d \in {2} \X F
        BY <1>1, <1>4, <1>5, <2>2, <4>1
      <4>2. ASSUME NEW d \in {2} \X F PROVE d \in S /\ g[d] = t
        BY <1>5, <2>2
      <4> QED BY <4>1, <4>2
    <3>3. IsFiniteSet({2}) /\ Cardinality({2}) = 1
      BY FS_Singleton
    <3> HIDE DEF F
    <3>4. IsFiniteSet({2} \X F) /\ Cardinality({2} \X F) = 1 * Cardinality(F)
      BY <3>1, <3>3, FS_Product
    <3>5. 1 * Cardinality(F) = Cardinality(F)
      BY <3>1, FS_CardinalityType
    <3> QED BY <3>1, <3>2, <3>4, <3>5
  <2> QED BY <1>2, <2>1, <2>2
<1>8. Fans(g, n, S, T)
  BY <1>6, <1>7 DEF Fans
<1> QED BY <1>4, <1>5, <1>8 DEF S, T, g

-----------------------------------------------------------------------------
(* Distances as numbers of differences *)

LEMMA GroupIsTable ==
  ASSUME NEW T, IsTable(T), NEW C, NEW k
  PROVE  /\ IsTable(Group(T, C, k))
         /\ \A x : x \in DOMAIN Group(T, C, k) <=> x \in DOMAIN T /\ Restrict(x, C) = k
         /\ \A x \in DOMAIN Group(T, C, k) : Group(T, C, k)[x] = T[x]
         /\ k \notin Keys(T, C) => DOMAIN Group(T, C, k) = {}
<1> DEFINE R == {x \in DOMAIN T : Restrict(x, C) = k}
<1>1. Group(T, C, k) = Restrict(T, R)
  BY DEF Group, Where, RestrictDomain
<1>2. R \in SUBSET DOMAIN T
  OBVIOUS
<1>3. \A x \in R : Restrict(T, R)[x] = T[x]
  BY DEF Restrict
<1>4. IsTable(Restrict(T, R)) /\ DOMAIN Restrict(T, R) = R
  BY <1>2, RestrictIsTable
<1>5. k \notin Keys(T, C) => R = {}
  BY DEF Keys, BagToSet
<1> QED BY <1>1, <1>3, <1>4, <1>5

(* What l has and r has not: copies of rows, or groups by `each'.          *)
InnerMissing(each, l, r) ==
  IF each = {} THEN ExceptAll(l, r)
  ELSE {j \in Keys(l, each) : ~ AgreeAt(l, r, each, j)}

LEMMA InnerMissingFinite ==
  ASSUME NEW each, NEW l, IsTable(l), NEW r
  PROVE  /\ IsFiniteSet(InnerMissing(each, l, r))
         /\ DOMAIN l = {} => InnerMissing(each, l, r) = {}
<1>1. IsFiniteSet(Copies(l)) /\ ExceptAll(l, r) \in SUBSET Copies(l)
  BY CopiesOfTable DEF ExceptAll
<1>2. IsFiniteSet(Keys(l, each))
  BY KeysOfTable
<1>3. {j \in Keys(l, each) : ~ AgreeAt(l, r, each, j)} \in SUBSET Keys(l, each)
  OBVIOUS
<1>4. IsFiniteSet(InnerMissing(each, l, r))
  BY <1>1, <1>2, <1>3, FS_Subset DEF InnerMissing
<1>5. DOMAIN l = {} => ExceptAll(l, r) = {} /\ Keys(l, each) = {}
  BY DEF ExceptAll, Copies, Keys, BagToSet
<1> QED BY <1>4, <1>5 DEF InnerMissing

(* A group that differs counts once for each side that has it.             *)
LEMMA GroupsCount ==
  ASSUME NEW l, IsTable(l), NEW r, IsTable(r), NEW C, C # {}
  PROVE  GroupsApart(l, r, C)
           = Cardinality(Sides(InnerMissing(C, l, r), InnerMissing(C, r, l)))
<1> DEFINE K == Keys(l, C) \cup Keys(r, C)
           apart(a, b) == IF a = b THEN 0 ELSE IF EmptyBag \in {a, b} THEN 1 ELSE 2
           f == [k \in K |-> apart(Group(l, C, k), Group(r, C, k))]
           X == InnerMissing(C, l, r)
           Y == InnerMissing(C, r, l)
           P == [k \in K |-> Sides({x \in X : x = k}, {y \in Y : y = k})]
<1>1. IsFiniteSet(K)
  BY KeysOfTable, FS_Union
<1>2. ASSUME NEW k \in K
      PROVE  IsFiniteSet(P[k]) /\ f[k] = Cardinality(P[k])
  <2> DEFINE x == {z \in X : z = k}
             y == {z \in Y : z = k}
  <2>1. k \in Keys(l, C) <=> Group(l, C, k) # EmptyBag
    <3>1. k \in Keys(l, C) <=> DOMAIN Group(l, C, k) # {}
      BY GroupIsTable DEF Keys, BagToSet
    <3>2. IsABag(Group(l, C, k))
      BY GroupIsTable DEF IsTable
    <3> QED BY <3>1, <3>2 DEF IsABag, EmptyBag, SetToBag
  <2>2. k \in Keys(r, C) <=> Group(r, C, k) # EmptyBag
    <3>1. k \in Keys(r, C) <=> DOMAIN Group(r, C, k) # {}
      BY GroupIsTable DEF Keys, BagToSet
    <3>2. IsABag(Group(r, C, k))
      BY GroupIsTable DEF IsTable
    <3> QED BY <3>1, <3>2 DEF IsABag, EmptyBag, SetToBag
  <2>3. Group(l, C, k) = Group(r, C, k) <=> AgreeAt(l, r, C, k)
    BY AgreeingGroups
  <2>4. AgreeAt(l, r, C, k) <=> AgreeAt(r, l, C, k)
    BY DEF AgreeAt
  <2>5. /\ x = IF k \in Keys(l, C) /\ ~ AgreeAt(l, r, C, k) THEN {k} ELSE {}
        /\ y = IF k \in Keys(r, C) /\ ~ AgreeAt(r, l, C, k) THEN {k} ELSE {}
    BY DEF InnerMissing
  <2>6. f[k] = apart(Group(l, C, k), Group(r, C, k)) /\ P[k] = Sides(x, y)
    OBVIOUS
  <2> HIDE DEF x, y, f, P
  <2>7. /\ IsFiniteSet({}) /\ Cardinality({}) = 0
        /\ IsFiniteSet({k}) /\ Cardinality({k}) = 1
    BY FS_EmptySet, FS_Singleton, Zenon
  <2>8. /\ IsFiniteSet(x) /\ IsFiniteSet(y)
        /\ Cardinality(x) = IF k \in Keys(l, C) /\ ~ AgreeAt(l, r, C, k) THEN 1 ELSE 0
        /\ Cardinality(y) = IF k \in Keys(r, C) /\ ~ AgreeAt(r, l, C, k) THEN 1 ELSE 0
    BY <2>5, <2>7
  <2>9. IsFiniteSet(Sides(x, y)) /\ Cardinality(Sides(x, y)) = Cardinality(x) + Cardinality(y)
    BY <2>8, SidesCount
  <2> QED BY <2>1, <2>2, <2>3, <2>4, <2>6, <2>8, <2>9
<1>3. \A j, k \in K : j # k => P[j] \cap P[k] = {}
  BY DEF Sides
<1>4. UNION {P[k] : k \in K} = Sides(X, Y)
  <2>1. X \subseteq K /\ Y \subseteq K
    BY DEF InnerMissing
  <2>2. ASSUME NEW d \in Sides(X, Y) PROVE d[2] \in K /\ d \in P[d[2]]
    BY <2>1 DEF Sides
  <2>3. \A k \in K : P[k] \subseteq Sides(X, Y)
    BY DEF Sides
  <2> HIDE DEF P, X, Y, K
  <2> QED BY <2>2, <2>3
<1>5. DOMAIN f = K
  OBVIOUS
<1>6. GroupsApart(l, r, C) = SumFunction(f)
  BY DEF GroupsApart
<1> HIDE DEF f, P, K
<1>7. SumFunction(f) = Cardinality(UNION {P[k] : k \in DOMAIN f})
  BY <1>1, <1>2, <1>3, <1>5, SumOfParts
<1> QED BY <1>4, <1>5, <1>6, <1>7

LEMMA InnerCounts ==
  ASSUME NEW m, m.base = "rows", NEW l, IsTable(l), NEW r, IsTable(r)
  PROVE  /\ IsFiniteSet(Sides(InnerMissing(m.each, l, r), InnerMissing(m.each, r, l)))
         /\ InnerDistance(m, l, r)
              = Cardinality(Sides(InnerMissing(m.each, l, r), InnerMissing(m.each, r, l)))
<1>1. /\ IsFiniteSet(InnerMissing(m.each, l, r))
      /\ IsFiniteSet(InnerMissing(m.each, r, l))
  BY InnerMissingFinite
<1>2. m.each # {} => InnerDistance(m, l, r) = GroupsApart(l, r, m.each)
  BY DEF InnerDistance
<1>3. m.each = {} => InnerDistance(m, l, r) = RowsApart(l, r)
  BY DEF InnerDistance
<1>4. m.each = {} => /\ InnerMissing(m.each, l, r) = ExceptAll(l, r)
                     /\ InnerMissing(m.each, r, l) = ExceptAll(r, l)
  BY DEF InnerMissing
<1> QED BY <1>1, <1>2, <1>3, <1>4, SidesCount, GroupsCount DEF RowsApart

(* What l has and r has not, by the part of the table it is in.            *)
Missing(m, l, r) ==
  UNION {{k} \X InnerMissing(m.each, Group(l, m.by, k), Group(r, m.by, k)) :
           k \in Keys(l, m.by)}

(* HammingDistance counts the rows of one side.                            *)
Differences(m, l, r) ==
  Sides(Missing(m, l, r), IF m.base = "hamming" THEN {} ELSE Missing(m, r, l))

LEMMA MissingFinite ==
  ASSUME NEW m, NEW l, IsTable(l), NEW r
  PROVE  IsFiniteSet(Missing(m, l, r))
<1> DEFINE of == [k \in Keys(l, m.by) |->
                    {k} \X InnerMissing(m.each, Group(l, m.by, k), Group(r, m.by, k))]
<1>1. IsFiniteSet(Keys(l, m.by))
  BY KeysOfTable
<1>2. \A k \in Keys(l, m.by) : IsFiniteSet(of[k])
  <2> SUFFICES ASSUME NEW k \in Keys(l, m.by) PROVE IsFiniteSet(of[k])
    OBVIOUS
  <2>1. IsFiniteSet(InnerMissing(m.each, Group(l, m.by, k), Group(r, m.by, k)))
    BY GroupIsTable, InnerMissingFinite
  <2>2. IsFiniteSet({k})
    BY FS_Singleton
  <2>3. of[k] = {k} \X InnerMissing(m.each, Group(l, m.by, k), Group(r, m.by, k))
    OBVIOUS
  <2> QED BY <2>1, <2>2, <2>3, FS_Product
<1>3. Missing(m, l, r) = UNION Range(of)
  BY DEF Missing, Range
<1>4. DOMAIN of = Keys(l, m.by)
  OBVIOUS
<1> HIDE DEF of
<1>5. IsFiniteSet(Range(of)) /\ \A X \in Range(of) : IsFiniteSet(X)
  BY <1>1, <1>2, <1>4, FiniteRange DEF Range
<1> QED BY <1>3, <1>5, FS_UNION

LEMMA MissingElement ==
  ASSUME NEW m, NEW l, IsTable(l), NEW r
  PROVE  /\ \A d \in Missing(m, l, r) : d = <<d[1], d[2]>>
         /\ \A k, x : <<k, x>> \in Missing(m, l, r)
              <=> x \in InnerMissing(m.each, Group(l, m.by, k), Group(r, m.by, k))
<1>1. \A d \in Missing(m, l, r) : d = <<d[1], d[2]>>
  BY DEF Missing
<1>2. ASSUME NEW k, NEW x
      PROVE  <<k, x>> \in Missing(m, l, r)
              <=> x \in InnerMissing(m.each, Group(l, m.by, k), Group(r, m.by, k))
  <2>1. <<k, x>> \in Missing(m, l, r)
          <=> /\ k \in Keys(l, m.by)
              /\ x \in InnerMissing(m.each, Group(l, m.by, k), Group(r, m.by, k))
    BY DEF Missing
  <2>2. k \notin Keys(l, m.by)
          => InnerMissing(m.each, Group(l, m.by, k), Group(r, m.by, k)) = {}
    BY GroupIsTable, InnerMissingFinite
  <2> QED BY <2>1, <2>2
<1> QED BY <1>1, <1>2

(* Rows that are missing: those that exceptAll finds, in their parts.      *)
LEMMA MissingRows ==
  ASSUME NEW m, m.each = {}, NEW l, IsTable(l), NEW r, IsTable(r)
  PROVE  \A d : d \in Missing(m, l, r)
           <=> \E x \in ExceptAll(l, r) : d = <<Restrict(x[1], m.by), x>>
<1>1. ASSUME NEW k, NEW x
      PROVE  x \in ExceptAll(Group(l, m.by, k), Group(r, m.by, k))
               <=> x \in ExceptAll(l, r) /\ Restrict(x[1], m.by) = k
  <2> DEFINE G == Group(l, m.by, k)
             H == Group(r, m.by, k)
  <2>1. /\ IsTable(G) /\ IsTable(H)
        /\ \A y : y \in DOMAIN G <=> y \in DOMAIN l /\ Restrict(y, m.by) = k
        /\ \A y \in DOMAIN G : G[y] = l[y]
        /\ \A y : y \in DOMAIN H <=> y \in DOMAIN r /\ Restrict(y, m.by) = k
        /\ \A y \in DOMAIN H : H[y] = r[y]
    BY GroupIsTable
  <2> HIDE DEF G, H
  <2>2. \A T : IsTable(T) => (x \in Copies(T)
          <=> \E y \in DOMAIN T : \E i \in 1 .. T[y] : x = <<y, i>>)
    BY CopiesOfTable
  <2>3. x \in Copies(G) <=> x \in Copies(l) /\ Restrict(x[1], m.by) = k
    BY <2>1, <2>2
  <2>4. x \in Copies(H) <=> x \in Copies(r) /\ Restrict(x[1], m.by) = k
    BY <2>1, <2>2
  <2> QED BY <2>3, <2>4 DEF ExceptAll, G, H
<1>2. \A k, x : <<k, x>> \in Missing(m, l, r)
        <=> x \in ExceptAll(l, r) /\ Restrict(x[1], m.by) = k
  BY <1>1, MissingElement DEF InnerMissing
<1>3. \A d \in Missing(m, l, r) : d = <<d[1], d[2]>>
  BY MissingElement
<1> QED BY <1>2, <1>3

(* Groups that are missing: those of rows that do not agree.               *)
LEMMA MissingGroups ==
  ASSUME NEW m, m.each # {}, NEW l, IsTable(l), NEW r, IsTable(r)
  PROVE  /\ \A d \in Missing(m, l, r) : d = <<d[1], d[2]>>
         /\ \A k, j : <<k, j>> \in Missing(m, l, r)
              <=> /\ \E x \in DOMAIN l : Restrict(x, m.by) = k /\ Restrict(x, m.each) = j
                  /\ ~ \A x : Restrict(x, m.by) = k /\ Restrict(x, m.each) = j =>
                          /\ x \in DOMAIN l <=> x \in DOMAIN r
                          /\ x \in DOMAIN l => l[x] = r[x]
<1>1. ASSUME NEW k, NEW j
      PROVE  j \in InnerMissing(m.each, Group(l, m.by, k), Group(r, m.by, k))
              <=> /\ \E x \in DOMAIN l : Restrict(x, m.by) = k /\ Restrict(x, m.each) = j
                  /\ ~ \A x : Restrict(x, m.by) = k /\ Restrict(x, m.each) = j =>
                          /\ x \in DOMAIN l <=> x \in DOMAIN r
                          /\ x \in DOMAIN l => l[x] = r[x]
  <2> DEFINE G == Group(l, m.by, k)
             H == Group(r, m.by, k)
  <2>1. /\ \A y : y \in DOMAIN G <=> y \in DOMAIN l /\ Restrict(y, m.by) = k
        /\ \A y \in DOMAIN G : G[y] = l[y]
        /\ \A y : y \in DOMAIN H <=> y \in DOMAIN r /\ Restrict(y, m.by) = k
        /\ \A y \in DOMAIN H : H[y] = r[y]
    BY GroupIsTable
  <2>2. j \in InnerMissing(m.each, G, H) <=> j \in Keys(G, m.each) /\ ~ AgreeAt(G, H, m.each, j)
    BY DEF InnerMissing
  <2> HIDE DEF G, H
  <2>3. j \in Keys(G, m.each)
          <=> \E x \in DOMAIN l : Restrict(x, m.by) = k /\ Restrict(x, m.each) = j
    BY <2>1 DEF Keys, BagToSet
  <2>4. AgreeAt(G, H, m.each, j)
          <=> \A x : Restrict(x, m.by) = k /\ Restrict(x, m.each) = j =>
                          /\ x \in DOMAIN l <=> x \in DOMAIN r
                          /\ x \in DOMAIN l => l[x] = r[x]
    BY <2>1 DEF AgreeAt
  <2> QED BY <2>2, <2>3, <2>4 DEF G, H
<1> QED BY <1>1, MissingElement

LEMMA DifferencesFinite ==
  ASSUME NEW m, NEW l, IsTable(l), NEW r, IsTable(r)
  PROVE  IsFiniteSet(Differences(m, l, r))
BY MissingFinite, FS_EmptySet, SidesCount DEF Differences

LEMMA GroupOfAll ==
  ASSUME NEW T, IsTable(T), NEW k, k = Restrict(<<>>, {})
  PROVE  Group(T, {}, k) = T /\ \A x : Restrict(x, {}) = k
<1>1. \A x : Restrict(x, {}) = k
  BY DEF Restrict
<1>2. Group(T, {}, k) = Restrict(T, DOMAIN T)
  <2>1. {x \in DOMAIN T : Restrict(x, {}) = k} = DOMAIN T
    BY <1>1
  <2> QED BY <2>1 DEF Group, Where, RestrictDomain
<1>3. Restrict(T, DOMAIN T) = T
  BY DEF Restrict, IsTable, IsABag
<1> QED BY <1>1, <1>2, <1>3

(* The differences in a part.                                              *)
InPart(m, l, r, k) ==
  Sides({k} \X InnerMissing(m.each, Group(l, m.by, k), Group(r, m.by, k)),
        {k} \X InnerMissing(m.each, Group(r, m.by, k), Group(l, m.by, k)))

LEMMA PartCounts ==
  ASSUME NEW m, m.base = "rows", NEW l, IsTable(l), NEW r, IsTable(r), NEW k
  PROVE  /\ IsFiniteSet(InPart(m, l, r, k))
         /\ InnerDistance(m, Group(l, m.by, k), Group(r, m.by, k))
              = Cardinality(InPart(m, l, r, k))
         /\ \A d : d \in InPart(m, l, r, k) <=> d \in Differences(m, l, r) /\ d[2][1] = k
<1> DEFINE G == Group(l, m.by, k)
           H == Group(r, m.by, k)
           X == InnerMissing(m.each, G, H)
           Y == InnerMissing(m.each, H, G)
<1>1. IsTable(G) /\ IsTable(H)
  BY GroupIsTable
<1>2. IsFiniteSet(X) /\ IsFiniteSet(Y)
  BY <1>1, InnerMissingFinite
<1>3. InnerDistance(m, G, H) = Cardinality(Sides(X, Y))
  BY <1>1, InnerCounts
<1>4. \A d : d \in InPart(m, l, r, k) <=> d \in Differences(m, l, r) /\ d[2][1] = k
  <2>1. Differences(m, l, r) = Sides(Missing(m, l, r), Missing(m, r, l))
    BY DEF Differences
  <2>2. \A d \in Missing(m, l, r) : d = <<d[1], d[2]>>
    BY MissingElement
  <2>3. \A d \in Missing(m, r, l) : d = <<d[1], d[2]>>
    BY MissingElement
  <2>4. \A x : <<k, x>> \in Missing(m, l, r) <=> x \in X
    BY MissingElement
  <2>5. \A x : <<k, x>> \in Missing(m, r, l) <=> x \in Y
    BY MissingElement
  <2> HIDE DEF X, Y
  <2>6. \A d : d \in {k} \X X <=> d \in Missing(m, l, r) /\ d[1] = k
    BY <2>2, <2>4
  <2>7. \A d : d \in {k} \X Y <=> d \in Missing(m, r, l) /\ d[1] = k
    BY <2>3, <2>5
  <2>8. InPart(m, l, r, k) = Sides({k} \X X, {k} \X Y)
    BY DEF InPart, X, Y
  <2>9. \A d : d \in InPart(m, l, r, k)
          <=> \/ \E x \in {k} \X X : d = <<1, x>>
              \/ \E y \in {k} \X Y : d = <<2, y>>
    BY <2>8 DEF Sides
  <2>10. \A d : d \in Differences(m, l, r)
          <=> \/ \E x \in Missing(m, l, r) : d = <<1, x>>
              \/ \E y \in Missing(m, r, l) : d = <<2, y>>
    BY <2>1 DEF Sides
  <2> QED BY <2>6, <2>7, <2>9, <2>10
<1> HIDE DEF G, H, X, Y
<1>5. IsFiniteSet({k}) /\ Cardinality({k}) = 1
  BY FS_Singleton
<1>6. /\ IsFiniteSet({k} \X X) /\ Cardinality({k} \X X) = 1 * Cardinality(X)
      /\ IsFiniteSet({k} \X Y) /\ Cardinality({k} \X Y) = 1 * Cardinality(Y)
  BY <1>2, <1>5, FS_Product
<1>7. Cardinality(X) \in Nat /\ Cardinality(Y) \in Nat
  BY <1>2, FS_CardinalityType
<1>8. /\ IsFiniteSet(InPart(m, l, r, k))
      /\ Cardinality(InPart(m, l, r, k)) = Cardinality({k} \X X) + Cardinality({k} \X Y)
  BY <1>6, SidesCount DEF InPart, X, Y, G, H
<1>9. Cardinality(Sides(X, Y)) = Cardinality(X) + Cardinality(Y)
  BY <1>2, SidesCount
<1>10. InnerDistance(m, G, H) = Cardinality(InPart(m, l, r, k))
  BY <1>3, <1>6, <1>7, <1>8, <1>9
<1> QED BY <1>4, <1>8, <1>10 DEF G, H

LEMMA PartOfDifference ==
  ASSUME NEW m, NEW l, IsTable(l), NEW r, IsTable(r), NEW d \in Differences(m, l, r)
  PROVE  d[2][1] \in Keys(l, m.by) \cup Keys(r, m.by)
<1>1. \A x \in Missing(m, l, r) : x[1] \in Keys(l, m.by)
  BY DEF Missing
<1>2. \A x \in Missing(m, r, l) : x[1] \in Keys(r, m.by)
  BY DEF Missing
<1> QED BY <1>1, <1>2 DEF Differences, Sides

LEMMA SquareCounts ==
  ASSUME NEW D, IsFiniteSet(D)
  PROVE  /\ Square(Cardinality(D)) = Cardinality(Pairs(FALSE, D))
         /\ Square(Cardinality(D)) = Cardinality(D \X D)
         /\ IsFiniteSet(D \X D)
<1>1. Cardinality(D \X D) = Cardinality(D) * Cardinality(D) /\ IsFiniteSet(D \X D)
  BY FS_Product
<1>2. Cardinality(D) \in Nat
  BY FS_CardinalityType
<1>3. Square(Cardinality(D)) = Cardinality(D) * Cardinality(D)
  BY <1>2 DEF Square, Infinite
<1>4. Pairs(FALSE, D) = D \X D
  BY DEF Pairs
<1> QED BY <1>1, <1>3, <1>4

(* The distance of two tables is the number of their differences; the      *)
(* number of pairs of them if it is squared.                               *)
LEMMA DistanceCounts ==
  ASSUME NEW m, IsMetric(m), NEW l, IsTable(l), NEW r, IsTable(r),
         m.base = "hamming" => NumRows(l) = NumRows(r)
  PROVE  /\ m.agg # "l2" => TableDistance(m, l, r) = Cardinality(Differences(m, l, r))
         /\ TableSquare(m, l, r) = Cardinality(Pairs(m.agg = "l2", Differences(m, l, r)))
<1> DEFINE D == Differences(m, l, r)
           K == Keys(l, m.by) \cup Keys(r, m.by)
<1>1. IsFiniteSet(D)
  BY DifferencesFinite
<1>2. IsFiniteSet(K)
  BY KeysOfTable, FS_Union
<1>3. CASE m.base = "hamming"
  <2>1. m.by = {} /\ m.each = {} /\ m.agg # "l2"
    BY <1>3 DEF IsMetric, IsIfGroupedBy
  <2>2. TableDistance(m, l, r) = Cardinality(ExceptAll(l, r))
    BY <1>3, <2>1 DEF TableDistance, InnerDistance
  <2>3. \A d : d \in Missing(m, l, r) <=> \E x \in ExceptAll(l, r) : d = <<Restrict(x[1], {}), x>>
    <3>1. \A d : d \in Missing(m, l, r)
                   <=> \E x \in ExceptAll(l, r) : d = <<Restrict(x[1], m.by), x>>
      BY ONLY <2>1, IsTable(l), IsTable(r), MissingRows
    <3> QED BY <2>1, <3>1
  <2> DEFINE e == Restrict(<<>>, {})
  <2>4. \A x : Restrict(x, {}) = e
    BY DEF Restrict
  <2> HIDE DEF e
  <2>5. Missing(m, l, r) = {e} \X ExceptAll(l, r)
    BY <2>3, <2>4
  <2>6. IsFiniteSet({e}) /\ Cardinality({e}) = 1
    BY FS_Singleton
  <2>7. IsFiniteSet(ExceptAll(l, r))
    <3>1. IsFiniteSet(Copies(l))
      BY CopiesOfTable
    <3> QED BY <3>1, FS_Difference DEF ExceptAll
  <2>8. /\ IsFiniteSet(Missing(m, l, r))
        /\ Cardinality(Missing(m, l, r)) = 1 * Cardinality(ExceptAll(l, r))
    BY <2>5, <2>6, <2>7, FS_Product
  <2>9. Cardinality(ExceptAll(l, r)) \in Nat
    BY <2>7, FS_CardinalityType
  <2>10. IsFiniteSet({}) /\ Cardinality({}) = 0
    BY FS_EmptySet
  <2>11. Cardinality(Sides(Missing(m, l, r), {})) = Cardinality(Missing(m, l, r)) + 0
    BY <2>8, <2>10, SidesCount
  <2>12. D = Sides(Missing(m, l, r), {})
    BY <1>3 DEF Differences
  <2>13. TableDistance(m, l, r) = Cardinality(D)
    BY <2>2, <2>8, <2>9, <2>11, <2>12
  <2>14. TableSquare(m, l, r) = Cardinality(Pairs(FALSE, D))
    BY <1>1, <2>1, <2>13, SquareCounts DEF TableSquare
  <2>15. (m.agg = "l2") = FALSE
    BY <2>1
  <2> QED BY <2>1, <2>13, <2>14, <2>15
<1>4. CASE m.base = "rows" /\ m.by = {}
  <2> DEFINE e == Restrict(<<>>, {})
  <2>1. m.agg # "l2"
    BY <1>4 DEF IsMetric
  <2>2. Group(l, m.by, e) = l /\ Group(r, m.by, e) = r /\ \A x : Restrict(x, {}) = e
    BY <1>4, GroupOfAll
  <2>3. \A d \in D : d[2][1] = e
    <3>1. \A d \in D : d[2][1] \in Keys(l, m.by) \cup Keys(r, m.by)
      BY PartOfDifference
    <3>2. \A T : \A k \in Keys(T, m.by) : k = e
      BY <1>4, <2>2 DEF Keys, BagToSet
    <3> QED BY <3>1, <3>2
  <2> HIDE DEF e, D
  <2>4. InnerDistance(m, l, r) = Cardinality(InPart(m, l, r, e))
    <3>1. InnerDistance(m, Group(l, m.by, e), Group(r, m.by, e)) = Cardinality(InPart(m, l, r, e))
      BY <1>4, PartCounts
    <3> QED BY <2>2, <3>1
  <2>5. InPart(m, l, r, e) = D
    BY <1>4, <2>3, PartCounts DEF D
  <2>6. TableDistance(m, l, r) = Cardinality(D)
    BY <1>4, <2>4, <2>5 DEF TableDistance
  <2>7. TableSquare(m, l, r) = Cardinality(Pairs(FALSE, D))
    BY <1>1, <2>1, <2>6, SquareCounts DEF TableSquare
  <2>8. (m.agg = "l2") = FALSE
    BY <2>1
  <2> QED BY <2>6, <2>7, <2>8 DEF D
<1>5. CASE m.base = "rows" /\ m.by # {}
  <2> DEFINE inner(k) == InnerDistance(m, Group(l, m.by, k), Group(r, m.by, k))
             f == [k \in K |-> inner(k)]
             q == [k \in K |-> Square(inner(k))]
             P == [k \in K |-> InPart(m, l, r, k)]
             R == [k \in K |-> P[k] \X P[k]]
  <2>1. \A k \in K : /\ IsFiniteSet(P[k]) /\ inner(k) = Cardinality(P[k])
                     /\ \A d : d \in P[k] <=> d \in D /\ d[2][1] = k
    BY <1>5, PartCounts
  <2>2. \A d \in D : d[2][1] \in K
    BY PartOfDifference
  <2>3. /\ DOMAIN f = K /\ \A k \in K : f[k] = inner(k)
        /\ DOMAIN q = K /\ \A k \in K : q[k] = Square(inner(k))
        /\ \A k \in K : R[k] = P[k] \X P[k]
    OBVIOUS
  <2>4. m.agg # "l2" => TableDistance(m, l, r) = SumFunction(f)
    BY <1>5 DEF TableDistance, GroupDistances
  <2>5. m.agg = "l2" => TableSquare(m, l, r) = SumFunction(q)
    BY DEF TableSquare, GroupDistances
  <2> HIDE DEF inner, f, q, P, R, D, K
  <2>6. SumFunction(f) = Cardinality(UNION {P[k] : k \in DOMAIN f})
    <3>1. \A k \in DOMAIN f : IsFiniteSet(P[k]) /\ f[k] = Cardinality(P[k])
      BY <2>1, <2>3
    <3>2. \A j, k \in DOMAIN f : j # k => P[j] \cap P[k] = {}
      BY <2>1, <2>3
    <3>3. IsFiniteSet(DOMAIN f)
      BY <1>2, <2>3
    <3> QED BY <3>1, <3>2, <3>3, SumOfParts
  <2>7. UNION {P[k] : k \in K} = D
    BY <2>1, <2>2
  <2>8. SumFunction(q) = Cardinality(UNION {R[k] : k \in DOMAIN q})
    <3>1. \A k \in DOMAIN q : IsFiniteSet(R[k]) /\ q[k] = Cardinality(R[k])
      <4> SUFFICES ASSUME NEW k \in K PROVE IsFiniteSet(R[k]) /\ q[k] = Cardinality(R[k])
        BY <2>3
      <4>1. /\ Square(Cardinality(P[k])) = Cardinality(P[k] \X P[k])
            /\ IsFiniteSet(P[k] \X P[k])
        BY <2>1, SquareCounts
      <4> QED BY <2>1, <2>3, <4>1
    <3>2. \A j, k \in DOMAIN q : j # k => R[j] \cap R[k] = {}
      BY <2>1, <2>3
    <3>3. IsFiniteSet(DOMAIN q)
      BY <1>2, <2>3
    <3> QED BY <3>1, <3>2, <3>3, SumOfParts
  <2>9. UNION {R[k] : k \in K} = Pairs(TRUE, D)
    <3>1. ASSUME NEW p \in Pairs(TRUE, D) PROVE p[1][2][1] \in K /\ p \in R[p[1][2][1]]
      <4>1. p \in D \X D /\ p[1][2][1] = p[2][2][1]
        BY DEF Pairs
      <4>2. p[1][2][1] \in K
        BY <2>2, <4>1
      <4> QED BY <2>1, <2>3, <4>1, <4>2
    <3>2. ASSUME NEW k \in K, NEW p \in R[k] PROVE p \in Pairs(TRUE, D)
      <4>1. p \in P[k] \X P[k]
        BY <2>3
      <4> QED BY <2>1, <4>1 DEF Pairs
    <3> QED BY <3>1, <3>2
  <2>10. m.agg # "l2" => TableDistance(m, l, r) = Cardinality(D)
    BY <2>3, <2>4, <2>6, <2>7
  <2>11. ASSUME m.agg # "l2" PROVE TableSquare(m, l, r) = Cardinality(Pairs(FALSE, D))
    BY <1>1, <2>10, <2>11, SquareCounts DEF TableSquare
  <2>12. m.agg = "l2" => TableSquare(m, l, r) = Cardinality(Pairs(TRUE, D))
    BY <2>3, <2>5, <2>8, <2>9
  <2>13. CASE m.agg = "l2"
    <3>1. (m.agg = "l2") = TRUE
      BY <2>13
    <3> QED BY <2>12, <2>13, <3>1 DEF D
  <2>14. CASE m.agg # "l2"
    <3>1. (m.agg = "l2") = FALSE
      BY <2>14
    <3> QED BY <2>10, <2>11, <2>14, <3>1 DEF D
  <2> QED BY <2>13, <2>14
<1> QED BY <1>3, <1>4, <1>5 DEF IsMetric

-----------------------------------------------------------------------------
(* Stability of a step *)

Comparable(m, l, r) == m.base = "hamming" => NumRows(l) = NumRows(r)
Apart(m, l, r) == Cardinality(Pairs(m.agg = "l2", Differences(m, l, r)))

LEMMA ApartType ==
  ASSUME NEW m, NEW l, IsTable(l), NEW r, IsTable(r)
  PROVE  Apart(m, l, r) \in Nat
BY DifferencesFinite, PairsFinite DEF Apart

LEMMA WithinCounts ==
  ASSUME NEW m, IsMetric(m), m.over = "table", NEW L, DOMAIN L = {<<>>}, NEW R,
         IsTable(L[<<>>]), IsTable(R[<<>>]), NEW b \in Nat \cup {Infinite}
  PROVE  Within(Distance(m, L, R), b)
           <=> b = Infinite \/ (/\ Comparable(m, L[<<>>], R[<<>>])
                                /\ Apart(m, L[<<>>], R[<<>>]) <= b)
<1> DEFINE l == L[<<>>]
           r == R[<<>>]
           f == [k \in {<<>>} |-> TableSquare(m, L[k], R[k])]
<1>1. Distance(m, L, R) = SumFunction(f)
  BY DEF Distance
<1>2. DOMAIN f = {<<>>} /\ f[<<>>] = TableSquare(m, l, r)
  OBVIOUS
<1> HIDE DEF f, l, r
<1>3. TableSquare(m, l, r) \in Int => SumFunction(f) = TableSquare(m, l, r)
  <2>1. f[<<>>] \in Int => SumFunction(f) = f[<<>>]
    BY <1>2, SumOfOne
  <2> QED BY <1>2, <2>1
<1>4. IsTable(l) /\ IsTable(r)
  BY DEF l, r
<1>5. CASE Comparable(m, l, r)
  <2>1. TableSquare(m, l, r) = Apart(m, l, r)
    BY <1>4, <1>5, DistanceCounts DEF Comparable, Apart
  <2>2. Apart(m, l, r) \in Nat
    BY <1>4, ApartType
  <2>3. SumFunction(f) = Apart(m, l, r)
    BY <1>3, <2>1, <2>2
  <2>4. Within(Apart(m, l, r), b) <=> b = Infinite \/ Apart(m, l, r) <= b
    BY <2>2 DEF Within, Infinite
  <2> QED BY <1>1, <1>5, <2>3, <2>4 DEF l, r
<1>6. CASE ~ Comparable(m, l, r)
  <2>1. /\ m.by = {} /\ m.each = {} /\ m.agg # "l2"
        /\ m.base = "hamming" /\ NumRows(l) # NumRows(r)
    BY <1>6 DEF Comparable, IsMetric, IsIfGroupedBy
  <2>2. InnerDistance(m, l, r) = Infinite
    BY <2>1 DEF InnerDistance
  <2>3. TableSquare(m, l, r) = Square(Infinite)
    BY <2>1, <2>2 DEF TableSquare, TableDistance
  <2>4. TableSquare(m, l, r) = Infinite /\ Infinite \in Int
    BY <2>3 DEF Square, Infinite
  <2>5. SumFunction(f) = Infinite
    BY <1>3, <2>4
  <2> QED BY <1>1, <1>6, <2>5 DEF Within, l, r
<1> QED BY <1>5, <1>6

LEMMA TablesInHand ==
  ASSUME TableInv, metric.over = "table"
  PROVE  /\ DOMAIN left = {<<>>} /\ DOMAIN right = {<<>>}
         /\ Legal(left[<<>>], schema) /\ Legal(right[<<>>], schema)
         /\ IsTable(left[<<>>]) /\ IsTable(right[<<>>])
         /\ Stable <=> bound = Infinite
                       \/ (/\ Comparable(metric, left[<<>>], right[<<>>])
                           /\ Apart(metric, left[<<>>], right[<<>>]) <= bound)
<1>1. Legal(left[<<>>], schema) /\ Legal(right[<<>>], schema)
  BY InHandIsLegal
<1>2. IsTable(left[<<>>]) /\ IsTable(right[<<>>])
  BY <1>1 DEF Legal
<1>3. DOMAIN left = {<<>>} /\ DOMAIN right = {<<>>}
  BY DEF TableInv, TypeOK
<1>4. IsMetric(metric) /\ bound \in Nat \cup {Infinite}
  BY DEF TableInv, TypeOK
<1> QED BY <1>1, <1>2, <1>3, <1>4, WithinCounts DEF Stable

(* A step to tables l and r of one part, k times as far apart at most.     *)
LEMMA StableStep ==
  ASSUME TableInv, Stable, NEW l, NEW r, NEW s, NEW m, NEW d, Chained(l, r, s, m, d),
         IsMetric(m), m.over = "table", IsTable(l), IsTable(r),
         NEW k \in Nat, d = Scaled(bound, k) \/ d = Infinite,
         ASSUME bound # Infinite, Comparable(metric, left[<<>>], right[<<>>])
         PROVE  /\ Comparable(m, l, r)
                /\ Apart(m, l, r) <= k * Apart(metric, left[<<>>], right[<<>>])
  PROVE  Stable'
<1> DEFINE a == Apart(metric, left[<<>>], right[<<>>])
           b == Apart(m, l, r)
<1>1. metric.over = "table" /\ left' = One(l) /\ right' = One(r) /\ metric' = m /\ bound' = d
  BY DEF Chained, Announce
<1>2. bound \in Nat \cup {Infinite} /\ d \in Nat \cup {Infinite}
  <2>1. bound \in Nat \cup {Infinite}
    BY DEF TableInv, TypeOK
  <2> QED BY <2>1, ScaledType
<1>3. DOMAIN One(l) = {<<>>} /\ One(l)[<<>>] = l /\ One(r)[<<>>] = r
  BY DEF One
<1>4. Stable' <=> Within(Distance(m, One(l), One(r)), d)
  BY <1>1 DEF Stable
<1>5. Within(Distance(m, One(l), One(r)), d)
        <=> d = Infinite \/ (Comparable(m, l, r) /\ b <= d)
  BY <1>2, <1>3, WithinCounts
<1>6. CASE d = Infinite
  BY <1>4, <1>5, <1>6
<1>7. CASE d # Infinite
  <2>1. bound # Infinite /\ d = bound * k
    BY <1>7 DEF Scaled
  <2>2. Comparable(metric, left[<<>>], right[<<>>]) /\ a <= bound
    BY <1>1, <2>1, TablesInHand
  <2>3. a \in Nat /\ b \in Nat
    BY <1>1, TablesInHand, ApartType
  <2>4. Comparable(m, l, r) /\ b <= k * a
    BY <2>1, <2>2
  <2> HIDE DEF a, b
  <2>5. k * a <= bound * k
    <3>1. bound \in Nat
      BY <1>2, <2>1
    <3>2. PICK c \in Nat : bound = a + c
      <4>1. bound - a \in Nat /\ bound = a + (bound - a)
        BY <2>2, <2>3, <3>1
      <4> QED BY <4>1
    <3>3. bound * k = k * a + k * c
      BY <2>3, <3>2
    <3>4. k * c \in Nat /\ k * a \in Nat
      BY <2>3, <3>2
    <3> QED BY <3>3, <3>4
  <2>6. b <= d
    <3>1. k * a \in Nat /\ d \in Nat
      BY <1>2, <1>7, <2>3
    <3> QED BY <2>1, <2>3, <2>4, <2>5, <3>1
  <2> QED BY <1>4, <1>5, <2>4, <2>6
<1> QED BY <1>6, <1>7

(* The differences of l from r under m come from those of L from R under   *)
(* n, k from each at most.  The parts of the latter, if they matter, are    *)
(* those of the former under other names.                                  *)
Follows(k, m, l, r, n, L, R, name) ==
  \E h : /\ Fans(h, k, Missing(m, l, r), Missing(n, L, R))
         /\ n.agg = "l2" =>
              \A x \in Missing(m, l, r) : h[x][1] = [c \in n.by |-> x[1][name[c]]]

LEMMA FollowingApart ==
  ASSUME NEW k \in Nat, NEW m, NEW n, m.base = n.base, n.agg = "l2" => m.agg = "l2",
         NEW l, IsTable(l), NEW r, IsTable(r), NEW L, IsTable(L), NEW R, IsTable(R),
         NEW name, Follows(k, m, l, r, n, L, R, name), Follows(k, m, r, l, n, R, L, name)
  PROVE  Apart(m, l, r) <= (k * k) * Apart(n, L, R)
<1> DEFINE X == Missing(m, l, r)
           Y == IF m.base = "hamming" THEN {} ELSE Missing(m, r, l)
           V == Missing(n, L, R)
           W == IF m.base = "hamming" THEN {} ELSE Missing(n, R, L)
<1>1. PICK h : /\ Fans(h, k, X, V)
               /\ n.agg = "l2" => \A x \in X : h[x][1] = [c \in n.by |-> x[1][name[c]]]
  BY DEF Follows
<1>2. PICK q : /\ Fans(q, k, Y, W)
               /\ n.agg = "l2" => \A x \in Y : q[x][1] = [c \in n.by |-> x[1][name[c]]]
  <2>1. CASE m.base = "hamming"
    <3> DEFINE e == [x \in {} |-> x]
    <3>1. Fans(e, k, {}, {})
      BY DEF Fans
    <3> HIDE DEF e
    <3>2. Y = {} /\ W = {}
      BY <2>1
    <3> QED BY <3>1, <3>2
  <2>2. CASE m.base # "hamming"
    BY <2>2 DEF Follows
  <2> QED BY <2>1, <2>2
<1>3. Differences(m, l, r) = Sides(X, Y) /\ Differences(n, L, R) = Sides(V, W)
  BY DEF Differences
<1>4. IsFiniteSet(Sides(V, W))
  BY <1>3, DifferencesFinite
<1> HIDE DEF X, Y, V, W
<1> DEFINE g == SidesMap(h, q, X, Y)
<1>5. /\ Fans(g, k, Sides(X, Y), Sides(V, W))
      /\ \A x \in X : g[<<1, x>>] = <<1, h[x]>>
      /\ \A y \in Y : g[<<2, y>>] = <<2, q[y]>>
  <2>1. Fans(h, k, X, V) /\ Fans(q, k, Y, W)
    BY <1>1, <1>2
  <2> QED BY <2>1, SidesFan
<1> HIDE DEF g
<1>6. ASSUME n.agg = "l2", NEW d \in Sides(X, Y)
      PROVE  g[d][2][1] = [c \in n.by |-> d[2][1][name[c]]]
  BY <1>1, <1>2, <1>5, <1>6 DEF Sides
<1> DEFINE w == m.agg = "l2"
           v == n.agg = "l2"
<1>7. \A x, y \in Sides(X, Y) : (w => x[2][1] = y[2][1]) => (v => g[x][2][1] = g[y][2][1])
  <2> SUFFICES ASSUME NEW x \in Sides(X, Y), NEW y \in Sides(X, Y), x[2][1] = y[2][1],
                      n.agg = "l2"
               PROVE  g[x][2][1] = g[y][2][1]
    OBVIOUS
  <2>1. /\ g[x][2][1] = [c \in n.by |-> x[2][1][name[c]]]
        /\ g[y][2][1] = [c \in n.by |-> y[2][1][name[c]]]
    BY <1>6
  <2> QED BY <2>1
<1>8. Apart(m, l, r) = Cardinality(Pairs(w, Sides(X, Y)))
  BY <1>3 DEF Apart
<1>9. Apart(n, L, R) = Cardinality(Pairs(v, Sides(V, W)))
  BY <1>3 DEF Apart
<1> HIDE DEF w, v
<1>10. Fans(g, k, Sides(X, Y), Sides(V, W))
  BY <1>5
<1>11. Cardinality(Pairs(w, Sides(X, Y))) <= (k * k) * Cardinality(Pairs(v, Sides(V, W)))
  BY <1>4, <1>7, <1>10, PairsFan
<1> QED BY <1>8, <1>9, <1>11

LEMMA StableByFollowing ==
  ASSUME TableInv, Stable, NEW l, NEW r, NEW s, NEW m, NEW d, Chained(l, r, s, m, d),
         IsMetric(m), m.over = "table", IsTable(l), IsTable(r),
         m.base = metric.base, metric.agg = "l2" => m.agg = "l2",
         Comparable(metric, left[<<>>], right[<<>>]) => Comparable(m, l, r),
         NEW k \in Nat, d = Scaled(bound, k * k) \/ d = Infinite, NEW name,
         Follows(k, m, l, r, metric, left[<<>>], right[<<>>], name),
         Follows(k, m, r, l, metric, right[<<>>], left[<<>>], name)
  PROVE  Stable'
<1>1. metric.over = "table"
  BY DEF Chained, Announce
<1>2. IsTable(left[<<>>]) /\ IsTable(right[<<>>])
  BY <1>1, TablesInHand
<1>3. Apart(m, l, r) <= (k * k) * Apart(metric, left[<<>>], right[<<>>])
  BY <1>2, FollowingApart
<1>4. k * k \in Nat
  OBVIOUS
<1> QED BY <1>3, <1>4, StableStep

-----------------------------------------------------------------------------
(* Rows that a step makes of rows *)

LEMMA SmallerInjects ==
  ASSUME NEW S, IsFiniteSet(S), NEW T, IsFiniteSet(T), Cardinality(S) <= Cardinality(T)
  PROVE  \E f \in Injection(S, T) : TRUE
<1>1. /\ Cardinality(S) \in Nat /\ ExistsBijection(1 .. Cardinality(S), S)
      /\ Cardinality(T) \in Nat /\ ExistsBijection(1 .. Cardinality(T), T)
  BY FS_CardinalityType
<1>2. ExistsInjection(1 .. Cardinality(S), 1 .. Cardinality(T))
  BY <1>1, Fun_NatInjLeq
<1>3. ExistsInjection(S, 1 .. Cardinality(S)) /\ ExistsInjection(1 .. Cardinality(T), T)
  BY <1>1, Fun_ExistsBijEquiv
<1>4. ExistsInjection(S, 1 .. Cardinality(T))
  BY <1>2, <1>3, Fun_ExistsInjTransitive
<1>5. ExistsInjection(S, T)
  BY <1>3, <1>4, Fun_ExistsInjTransitive
<1> QED BY <1>5 DEF ExistsInjection

(* A copy that Tally(f) has and Tally(g) has not comes from an argument    *)
(* that f and g do not agree on; from one of its own.                      *)
LEMMA TallyApart ==
  ASSUME NEW f, IsFiniteSet(DOMAIN f), NEW g, IsFiniteSet(DOMAIN g)
  PROVE  \E inj : /\ \A x \in ExceptAll(Tally(f), Tally(g)) :
                       /\ inj[x] \in DOMAIN f
                       /\ f[inj[x]] = x[1]
                       /\ ~ (inj[x] \in DOMAIN g /\ g[inj[x]] = f[inj[x]])
                  /\ \A x, y \in ExceptAll(Tally(f), Tally(g)) : inj[x] = inj[y] => x = y
<1> DEFINE E == ExceptAll(Tally(f), Tally(g))
           A(v) == {y \in DOMAIN f : f[y] = v}
           B(v) == {y \in DOMAIN g : g[y] = v}
           X(v) == {x \in E : x[1] = v}
           D(v) == A(v) \ B(v)
           into(v) == CHOOSE h \in Injection(X(v), D(v)) : TRUE
           inj == [x \in E |-> into(x[1])[x]]
<1>1. \A v : IsFiniteSet(A(v)) /\ IsFiniteSet(B(v))
  <2> TAKE v
  <2>1. A(v) \in SUBSET DOMAIN f /\ B(v) \in SUBSET DOMAIN g
    OBVIOUS
  <2> QED BY <2>1, FS_Subset
<1>2. IsTable(Tally(f)) /\ IsTable(Tally(g))
  BY TallyIsTable
<1>3. /\ \A v : v \in DOMAIN Tally(f) <=> A(v) # {}
      /\ \A v \in DOMAIN Tally(f) : Tally(f)[v] = Cardinality(A(v))
      /\ \A v : v \in DOMAIN Tally(g) <=> B(v) # {}
      /\ \A v \in DOMAIN Tally(g) : Tally(g)[v] = Cardinality(B(v))
  BY DEF Tally, Range
<1>4. /\ \A x : x \in Copies(Tally(f))
            <=> \E r \in DOMAIN Tally(f) : \E i \in 1 .. Tally(f)[r] : x = <<r, i>>
      /\ \A x : x \in Copies(Tally(g))
            <=> \E r \in DOMAIN Tally(g) : \E i \in 1 .. Tally(g)[r] : x = <<r, i>>
  BY <1>2, CopiesOfTable
<1>5. ASSUME NEW v PROVE into(v) \in Injection(X(v), D(v))
  <2> DEFINE a == Cardinality(A(v))
             b == Cardinality(B(v))
             I == {i \in 1 .. a : i > b}
             second == [x \in X(v) |-> x[2]]
  <2>1. a \in Nat /\ b \in Nat
    BY <1>1, FS_CardinalityType
  <2>2. ASSUME NEW x \in X(v) PROVE x = <<v, x[2]>> /\ x[2] \in I
    <3>1. x \in Copies(Tally(f)) /\ x \notin Copies(Tally(g)) /\ x[1] = v
      BY DEF ExceptAll
    <3>2. PICK r \in DOMAIN Tally(f) : \E i \in 1 .. Tally(f)[r] : x = <<r, i>>
      BY <1>4, <3>1
    <3>3. v \in DOMAIN Tally(f) /\ x = <<v, x[2]>> /\ x[2] \in 1 .. a
      BY <1>3, <3>1, <3>2
    <3>4. ~ x[2] <= b
      <4>1. CASE B(v) = {}
        <5>1. IsFiniteSet({}) /\ Cardinality({}) = 0
          BY FS_EmptySet
        <5>2. b = 0
          BY <4>1, <5>1
        <5> QED BY <2>1, <3>3, <5>2
      <4>2. CASE B(v) # {}
        <5>1. v \in DOMAIN Tally(g) /\ Tally(g)[v] = b
          BY <1>3, <4>2
        <5>2. ~ x[2] \in 1 .. b
          BY <1>4, <3>1, <3>3, <5>1
        <5> QED BY <2>1, <3>3, <5>2
      <4> QED BY <4>1, <4>2
    <3> QED BY <2>1, <3>3, <3>4
  <2> HIDE DEF X, D, A, B, E
  <2>3. second \in [X(v) -> I] /\ \A x, y \in X(v) : second[x] = second[y] => x = y
    BY <2>2
  <2>4. second \in Injection(X(v), I)
    BY <2>3 DEF Injection, IsInjective
  <2> HIDE DEF a, b
  <2>5. I \in SUBSET (b + 1 .. a) /\ IsFiniteSet(b + 1 .. a)
    <3>1. b + 1 \in Int /\ a \in Int
      BY <2>1
    <3>2. IsFiniteSet((b + 1) .. a)
      BY <3>1, FS_Interval
    <3>3. I \in SUBSET (b + 1 .. a)
      BY <2>1
    <3> QED BY <3>2, <3>3
  <2>6. IsFiniteSet(I) /\ Cardinality(I) <= Cardinality(b + 1 .. a)
    BY <2>5, FS_Subset
  <2> HIDE DEF second
  <2>7. IsFiniteSet(X(v)) /\ Cardinality(X(v)) <= Cardinality(I)
    BY <2>4, <2>6, FS_Injection
  <2>8. IsFiniteSet(D(v)) /\ Cardinality(D(v)) = a - Cardinality(A(v) \cap B(v))
    BY <1>1, FS_Difference DEF D, a
  <2>9. Cardinality(A(v) \cap B(v)) <= b /\ Cardinality(A(v) \cap B(v)) <= a
    BY <1>1, FS_Intersection DEF a, b
  <2>10. Cardinality(b + 1 .. a) = IF b + 1 > a THEN 0 ELSE a - (b + 1) + 1
    <3>1. b + 1 \in Int /\ a \in Int
      BY <2>1
    <3> QED BY <3>1, FS_Interval
  <2>11. Cardinality(A(v) \cap B(v)) \in Nat
    BY <1>1, FS_Intersection, FS_CardinalityType
  <2>12. Cardinality(X(v)) \in Nat /\ Cardinality(I) \in Nat
    BY <2>6, <2>7, FS_CardinalityType
  <2> HIDE DEF I
  <2>13. Cardinality(X(v)) <= Cardinality(D(v))
    BY <2>1, <2>6, <2>7, <2>8, <2>9, <2>10, <2>11, <2>12
  <2>14. \E h \in Injection(X(v), D(v)) : TRUE
    BY <2>7, <2>8, <2>13, SmallerInjects
  <2> QED BY <2>14
<1>6. \A x \in E : inj[x] = into(x[1])[x]
  OBVIOUS
<1> HIDE DEF into, inj
<1>7. ASSUME NEW x \in E
      PROVE  inj[x] \in A(x[1]) /\ inj[x] \notin B(x[1])
  <2>1. x \in X(x[1])
    OBVIOUS
  <2>2. into(x[1]) \in [X(x[1]) -> D(x[1])]
    BY <1>5 DEF Injection
  <2> HIDE DEF X
  <2> QED BY <1>6, <2>1, <2>2
<1>8. ASSUME NEW x \in E, NEW y \in E, inj[x] = inj[y] PROVE x = y
  <2>1. x[1] = y[1]
    BY <1>7, <1>8
  <2>2. x \in X(x[1]) /\ y \in X(x[1])
    BY <2>1
  <2>3. into(x[1])[x] = into(x[1])[y]
    BY <1>6, <1>8, <2>1
  <2> HIDE DEF X
  <2>4. into(x[1]) \in Injection(X(x[1]), D(x[1]))
    BY <1>5
  <2> QED BY <2>2, <2>3, <2>4 DEF Injection, IsInjective
<1> QED BY <1>7, <1>8

Itself(C) == [c \in C |-> c]

LEMMA PartIsRestriction ==
  ASSUME NEW m, NEW l, IsTable(l), NEW r, IsTable(r), NEW d \in Missing(m, l, r)
  PROVE  d[1] = [c \in m.by |-> d[1][Itself(m.by)[c]]]
<1>1. d[1] \in Keys(l, m.by)
  BY DEF Missing
<1>2. \A x : Restrict(x, m.by) = [c \in m.by |-> Restrict(x, m.by)[c]]
  BY DEF Restrict
<1>3. d[1] = [c \in m.by |-> d[1][c]]
  BY <1>1, <1>2 DEF Keys
<1> QED BY <1>3 DEF Itself

LEMMA FewerFollow ==
  ASSUME NEW m, NEW n, m.by = n.by, NEW l, IsTable(l), NEW r, IsTable(r), NEW L, NEW R,
         Missing(m, l, r) \subseteq Missing(n, L, R)
  PROVE  Follows(1, m, l, r, n, L, R, Itself(n.by))
<1> DEFINE X == Missing(m, l, r)
           Y == Missing(n, L, R)
           h == [x \in X |-> x]
<1>1. h \in [X -> Y] /\ \A x \in X : h[x] = x
  OBVIOUS
<1>2. \A x \in X : h[x][1] = [c \in n.by |-> x[1][Itself(n.by)[c]]]
  BY PartIsRestriction
<1> HIDE DEF h
<1>3. \A x, y \in X : h[x] = h[y] => x = y
  BY <1>1
<1> HIDE DEF X, Y
<1>4. Fans(h, 1, X, Y)
  BY <1>1, <1>3, InjectionFans
<1> QED BY <1>2, <1>4 DEF Follows, X, Y

LEMMA RestrictFollows ==
  ASSUME NEW m, m.each = {}, NEW L, IsTable(L), NEW R, IsTable(R),
         NEW P \in SUBSET DOMAIN L, NEW Q \in SUBSET DOMAIN R, P \cap DOMAIN R \subseteq Q
  PROVE  Follows(1, m, Restrict(L, P), Restrict(R, Q), m, L, R, Itself(m.by))
<1> DEFINE l == Restrict(L, P)
           r == Restrict(R, Q)
<1>1. IsTable(l) /\ DOMAIN l = P /\ IsTable(r) /\ DOMAIN r = Q
  BY RestrictIsTable
<1>2. (\A x \in P : l[x] = L[x]) /\ (\A x \in Q : r[x] = R[x])
  BY DEF Restrict
<1> HIDE DEF l, r
<1>3. \A T : IsTable(T) => \A x : x \in Copies(T)
          <=> \E y \in DOMAIN T : \E i \in 1 .. T[y] : x = <<y, i>>
  BY CopiesOfTable
<1>4. ExceptAll(l, r) \subseteq ExceptAll(L, R)
  <2> SUFFICES ASSUME NEW x, x \in Copies(l), x \notin Copies(r)
               PROVE  x \in Copies(L) /\ x \notin Copies(R)
    BY DEF ExceptAll
  <2>1. PICK y \in P : \E i \in 1 .. L[y] : x = <<y, i>>
    BY <1>1, <1>2, <1>3
  <2>2. x \in Copies(L)
    BY <1>3, <2>1
  <2>3. ASSUME x \in Copies(R) PROVE FALSE
    <3>1. y \in DOMAIN R /\ \E i \in 1 .. R[y] : x = <<y, i>>
      BY <1>3, <2>1, <2>3
    <3>2. y \in Q /\ r[y] = R[y]
      BY <1>2, <2>1, <3>1
    <3>3. x \in Copies(r)
      BY <1>1, <1>3, <3>1, <3>2
    <3> QED BY <3>3
  <2> QED BY <2>2, <2>3
<1>5. Missing(m, l, r) \subseteq Missing(m, L, R)
  BY <1>1, <1>4, MissingRows
<1>6. Follows(1, m, l, r, m, L, R, Itself(m.by))
  BY <1>1, <1>5, FewerFollow
<1> QED BY <1>6 DEF l, r

(* f[y] is made of the copy a[y] of a row, at most k of each, and of the   *)
(* copies that are in R too by g.                                          *)
IsSource(a, k, f, g, L, R) ==
  /\ \A y \in DOMAIN f : a[y] \in Copies(L)
  /\ \A y \in DOMAIN f : a[y] \in Copies(R) => y \in DOMAIN g /\ g[y] = f[y]
  /\ \A c \in Copies(L) : /\ IsFiniteSet({y \in DOMAIN f : a[y] = c})
                          /\ Cardinality({y \in DOMAIN f : a[y] = c}) <= k

(* inj[x] is what the missing row x is made of; no other is made of it.    *)
Sourced(inj, a, k, m, f, g, n, L, R) ==
  /\ Fans([x \in Missing(m, Tally(f), Tally(g)) |->
             <<Restrict(a[inj[x]][1], n.by), a[inj[x]]>>], k,
          Missing(m, Tally(f), Tally(g)), Missing(n, L, R))
  /\ \A x \in Missing(m, Tally(f), Tally(g)) :
       /\ inj[x] \in DOMAIN f
       /\ f[inj[x]] = x[2][1]
       /\ x[1] = Restrict(x[2][1], m.by)
  /\ \A x, y \in Missing(m, Tally(f), Tally(g)) : inj[x] = inj[y] => x = y

LEMMA RowSources ==
  ASSUME NEW m, m.each = {}, NEW n, n.each = {}, NEW L, IsTable(L), NEW R, IsTable(R),
         NEW f, IsFiniteSet(DOMAIN f), NEW g, IsFiniteSet(DOMAIN g), NEW a, NEW k \in Nat,
         IsSource(a, k, f, g, L, R)
  PROVE  \E inj : Sourced(inj, a, k, m, f, g, n, L, R)
<1> DEFINE l == Tally(f)
           r == Tally(g)
           X == Missing(m, l, r)
           Y == Missing(n, L, R)
<1>1. IsTable(l) /\ IsTable(r)
  BY TallyIsTable
<1>2. PICK tag : /\ \A x \in ExceptAll(l, r) :
                       /\ tag[x] \in DOMAIN f
                       /\ f[tag[x]] = x[1]
                       /\ ~ (tag[x] \in DOMAIN g /\ g[tag[x]] = f[tag[x]])
                 /\ \A x, y \in ExceptAll(l, r) : tag[x] = tag[y] => x = y
  BY TallyApart
<1>3. \A d : d \in X <=> \E x \in ExceptAll(l, r) : d = <<Restrict(x[1], m.by), x>>
  BY <1>1, MissingRows
<1>4. \A d : d \in Y <=> \E x \in ExceptAll(L, R) : d = <<Restrict(x[1], n.by), x>>
  BY MissingRows
<1> DEFINE inj == [x \in X |-> tag[x[2]]]
           h == [x \in X |-> <<Restrict(a[inj[x]][1], n.by), a[inj[x]]>>]
           F(y) == {x \in X : h[x] = y}
<1> HIDE DEF l, r, X, Y
<1>5. \A x \in X : inj[x] = tag[x[2]]
  OBVIOUS
<1>6. \A x \in X : h[x] = <<Restrict(a[inj[x]][1], n.by), a[inj[x]]>>
  OBVIOUS
<1>7. \A x \in X : /\ x[2] \in ExceptAll(l, r) /\ x = <<Restrict(x[2][1], m.by), x[2]>>
                   /\ x[1] = Restrict(x[2][1], m.by)
  BY <1>3
<1> HIDE DEF inj
<1>8. \A x \in X : inj[x] \in DOMAIN f /\ f[inj[x]] = x[2][1] /\ a[inj[x]] \in ExceptAll(L, R)
  BY <1>2, <1>5, <1>7 DEF ExceptAll, IsSource
<1>9. \A x, y \in X : inj[x] = inj[y] => x = y
  BY <1>2, <1>5, <1>7
<1>10. h \in [X -> Y]
  <2>1. \A x \in X : <<Restrict(a[inj[x]][1], n.by), a[inj[x]]>> \in Y
    BY <1>4, <1>8
  <2> QED BY <2>1
<1>11. ASSUME NEW y \in Y PROVE IsFiniteSet(F(y)) /\ Cardinality(F(y)) <= k
  <2> DEFINE S == F(y)
             T == {z \in DOMAIN f : a[z] = y[2]}
             e == [x \in S |-> inj[x]]
  <2>1. y[2] \in Copies(L)
    BY <1>4 DEF ExceptAll
  <2>2. \A x \in S : x \in X /\ a[inj[x]] = y[2]
    BY <1>6
  <2>3. IsFiniteSet(T) /\ Cardinality(T) <= k
    BY <2>1 DEF IsSource
  <2> HIDE DEF S
  <2>4. e \in [S -> T]
    BY <1>8, <2>2
  <2>5. \A x, z \in S : e[x] = e[z] => x = z
    BY <1>9, <2>2
  <2>6. e \in Injection(S, T)
    BY <2>4, <2>5 DEF Injection, IsInjective
  <2> HIDE DEF e, T
  <2>7. IsFiniteSet(S) /\ Cardinality(S) <= Cardinality(T)
    BY <2>3, <2>6, FS_Injection
  <2>8. Cardinality(S) \in Nat /\ Cardinality(T) \in Nat
    BY <2>3, <2>7, FS_CardinalityType
  <2>9. Cardinality(S) <= k
    BY <2>3, <2>7, <2>8
  <2> QED BY <2>7, <2>9 DEF S
<1>12. Fans(h, k, X, Y)
  <2> HIDE DEF h
  <2> QED BY <1>10, <1>11 DEF Fans
<1>13. Fans([x \in X |-> <<Restrict(a[inj[x]][1], n.by), a[inj[x]]>>], k, X, Y)
  BY <1>12
<1> HIDE DEF h
<1>14. /\ Fans([x \in X |-> <<Restrict(a[inj[x]][1], n.by), a[inj[x]]>>], k, X, Y)
       /\ \A x \in X : inj[x] \in DOMAIN f /\ f[inj[x]] = x[2][1] /\ x[1] = Restrict(x[2][1], m.by)
       /\ \A x, y \in X : inj[x] = inj[y] => x = y
  BY <1>7, <1>8, <1>9, <1>13
<1>15. Sourced(inj, a, k, m, f, g, n, L, R)
  BY <1>14 DEF Sourced, X, Y, l, r
<1> QED BY <1>15

LEMMA RowsFollow ==
  ASSUME NEW m, m.each = {}, NEW n, n.each = {}, NEW L, IsTable(L), NEW R, IsTable(R),
         NEW f, IsFiniteSet(DOMAIN f), NEW g, IsFiniteSet(DOMAIN g), NEW a, NEW k \in Nat,
         IsSource(a, k, f, g, L, R),
         NEW name,
         n.agg = "l2" => \A y \in DOMAIN f : \A c \in n.by :
                           name[c] \in m.by /\ a[y][1][c] = f[y][name[c]]
  PROVE  Follows(k, m, Tally(f), Tally(g), n, L, R, name)
<1> DEFINE X == Missing(m, Tally(f), Tally(g))
<1>0. PICK inj : Sourced(inj, a, k, m, f, g, n, L, R)
  BY RowSources
<1>1. /\ Fans([x \in X |-> <<Restrict(a[inj[x]][1], n.by), a[inj[x]]>>], k,
              X, Missing(n, L, R))
      /\ \A x \in X : /\ inj[x] \in DOMAIN f
                      /\ f[inj[x]] = x[2][1]
                      /\ x[1] = Restrict(x[2][1], m.by)
  BY <1>0 DEF Sourced
<1> HIDE DEF X
<1> DEFINE h == [x \in X |-> <<Restrict(a[inj[x]][1], n.by), a[inj[x]]>>]
<1>2. ASSUME n.agg = "l2", NEW x \in X PROVE h[x][1] = [c \in n.by |-> x[1][name[c]]]
  <2>1. h[x][1] = [c \in n.by |-> a[inj[x]][1][c]]
    BY DEF Restrict
  <2>2. \A c \in n.by : a[inj[x]][1][c] = x[2][1][name[c]] /\ name[c] \in m.by
    BY <1>1, <1>2
  <2>3. \A c \in m.by : x[1][c] = x[2][1][c]
    <3>1. x[1] = Restrict(x[2][1], m.by)
      BY <1>1
    <3> QED BY <3>1 DEF Restrict
  <2> HIDE DEF h
  <2> QED BY <2>1, <2>2, <2>3
<1>3. Fans(h, k, X, Missing(n, L, R))
  BY <1>1
<1> HIDE DEF h
<1> QED BY <1>2, <1>3 DEF Follows, X

LEMMA TallyRows ==
  ASSUME NEW f, IsFiniteSet(DOMAIN f)
  PROVE  NumRows(Tally(f)) = Cardinality(DOMAIN f)
<1> DEFINE T == Tally(f)
           P == [v \in DOMAIN T |-> {v} \X (1 .. T[v])]
           Q == [v \in DOMAIN T |-> {y \in DOMAIN f : f[y] = v}]
<1>1. IsTable(T) /\ DOMAIN T = Range(f)
  BY TallyIsTable
<1>2. IsFiniteSet(DOMAIN T) /\ \A v \in DOMAIN T : T[v] \in Nat
  BY <1>1 DEF IsTable, IsABag, BagToSet
<1>3. \A v \in DOMAIN T : T[v] = Cardinality({y \in DOMAIN f : f[y] = v})
  BY DEF Tally
<1>4. Copies(T) = UNION {P[v] : v \in DOMAIN T}
  BY DEF Copies, BagToSet
<1>5. DOMAIN f = UNION {Q[v] : v \in DOMAIN T}
  <2>1. \A y \in DOMAIN f : f[y] \in DOMAIN T /\ y \in Q[f[y]]
    BY <1>1 DEF Range
  <2>2. \A v \in DOMAIN T : Q[v] \subseteq DOMAIN f
    OBVIOUS
  <2> HIDE DEF Q
  <2> QED BY <2>1, <2>2
<1>6. \A v \in DOMAIN T : IsFiniteSet(P[v]) /\ T[v] = Cardinality(P[v])
  <2> SUFFICES ASSUME NEW v \in DOMAIN T
               PROVE  IsFiniteSet({v} \X (1 .. T[v])) /\ T[v] = Cardinality({v} \X (1 .. T[v]))
    OBVIOUS
  <2> HIDE DEF T
  <2>1. IsFiniteSet({v}) /\ Cardinality({v}) = 1
    BY FS_Singleton
  <2>2. T[v] \in Nat
    BY <1>2
  <2>3. IsFiniteSet(1 .. T[v]) /\ Cardinality(1 .. T[v]) = T[v]
    BY <2>2, FS_Interval
  <2>4. /\ IsFiniteSet({v} \X (1 .. T[v]))
        /\ Cardinality({v} \X (1 .. T[v])) = 1 * T[v]
    BY <2>1, <2>3, FS_Product
  <2> QED BY <2>2, <2>4
<1>7. \A v \in DOMAIN T : IsFiniteSet(Q[v]) /\ T[v] = Cardinality(Q[v])
  <2>1. \A v \in DOMAIN T : Q[v] \in SUBSET DOMAIN f /\ T[v] = Cardinality(Q[v])
    BY <1>3
  <2> HIDE DEF Q
  <2> QED BY <2>1, FS_Subset
<1>8. \A u, v \in DOMAIN T : u # v => P[u] \cap P[v] = {} /\ Q[u] \cap Q[v] = {}
  OBVIOUS
<1> HIDE DEF T, P, Q
<1>9. SumFunction(T) = Cardinality(UNION {P[v] : v \in DOMAIN T})
  BY <1>2, <1>6, <1>8, SumOfParts
<1>10. SumFunction(T) = Cardinality(UNION {Q[v] : v \in DOMAIN T})
  BY <1>2, <1>7, <1>8, SumOfParts
<1> QED BY <1>4, <1>5, <1>9, <1>10 DEF NumRows, T

(* One row of each copy; rows B[r] of each copy of r.                      *)
LEMMA MappedSource ==
  ASSUME NEW L, IsTable(L), NEW R, NEW f, DOMAIN f = Copies(L), NEW g, DOMAIN g = Copies(R),
         \A y \in Copies(L) : y \in Copies(R) => g[y] = f[y]
  PROVE  IsSource(Itself(Copies(L)), 1, f, g, L, R)
<1> DEFINE a == Itself(Copies(L))
<1>1. \A y \in Copies(L) : a[y] = y
  BY DEF Itself
<1> HIDE DEF a
<1>2. ASSUME NEW c \in Copies(L)
      PROVE  /\ IsFiniteSet({y \in DOMAIN f : a[y] = c})
             /\ Cardinality({y \in DOMAIN f : a[y] = c}) <= 1
  <2>1. {y \in DOMAIN f : a[y] = c} = {c}
    BY <1>1
  <2>2. IsFiniteSet({c}) /\ Cardinality({c}) = 1
    BY FS_Singleton
  <2> QED BY <2>1, <2>2
<1>3. IsSource(a, 1, f, g, L, R)
  BY <1>1, <1>2 DEF IsSource
<1> QED BY <1>3 DEF a

LEMMA FlattenedSource ==
  ASSUME NEW L, IsTable(L), NEW B, \A r \in DOMAIN L : IsTable(B[r]),
         NEW R, IsTable(R), NEW E, \A r \in DOMAIN R : IsTable(E[r]),
         \A r \in DOMAIN L : r \in DOMAIN R => B[r] = E[r],
         NEW k \in Nat, \A r \in DOMAIN L : NumRows(B[r]) <= k
  PROVE  IsSource([x \in Flat(L, B) |-> x[1]], k, [x \in Flat(L, B) |-> x[2][1]],
                  [x \in Flat(R, E) |-> x[2][1]], L, R)
<1> DEFINE a == [x \in Flat(L, B) |-> x[1]]
           f == [x \in Flat(L, B) |-> x[2][1]]
           g == [x \in Flat(R, E) |-> x[2][1]]
<1>1. /\ \A x : x \in Flat(L, B) <=> \E y \in Copies(L) : \E z \in Copies(B[y[1]]) : x = <<y, z>>
      /\ \A x : x \in Flat(R, E) <=> \E y \in Copies(R) : \E z \in Copies(E[y[1]]) : x = <<y, z>>
      /\ \A x \in Flat(L, B) : x[1] \in Copies(L) /\ x[1][1] \in DOMAIN L
  <2>1. /\ IsFiniteSet(Flat(L, B))
        /\ Flattened(L, B) = Tally([x \in Flat(L, B) |-> x[2][1]])
        /\ \A x : x \in Flat(L, B) <=>
                    \E y \in Copies(L) : \E z \in Copies(B[y[1]]) : x = <<y, z>>
        /\ \A x \in Flat(L, B) : /\ x[1] \in Copies(L)
                                 /\ x[1][1] \in DOMAIN L
                                 /\ x[2] \in Copies(B[x[1][1]])
                                 /\ x[2][1] \in DOMAIN B[x[1][1]]
    BY Zenon, FlatCopies
  <2>2. /\ IsFiniteSet(Flat(R, E))
        /\ Flattened(R, E) = Tally([x \in Flat(R, E) |-> x[2][1]])
        /\ \A x : x \in Flat(R, E) <=>
                    \E y \in Copies(R) : \E z \in Copies(E[y[1]]) : x = <<y, z>>
        /\ \A x \in Flat(R, E) : /\ x[1] \in Copies(R)
                                 /\ x[1][1] \in DOMAIN R
                                 /\ x[2] \in Copies(E[x[1][1]])
                                 /\ x[2][1] \in DOMAIN E[x[1][1]]
    BY Zenon, FlatCopies
  <2> QED BY <2>1, <2>2
<1>2. /\ DOMAIN f = Flat(L, B) /\ \A y \in Flat(L, B) : f[y] = y[2][1] /\ a[y] = y[1]
      /\ DOMAIN g = Flat(R, E) /\ \A y \in Flat(R, E) : g[y] = y[2][1]
  OBVIOUS
<1> HIDE DEF a, f, g
<1>3. \A y \in Copies(R) : y[1] \in DOMAIN R
  BY CopiesOfTable
<1>4. \A y \in DOMAIN f : a[y] \in Copies(L)
  BY <1>1, <1>2
<1>5. ASSUME NEW y \in DOMAIN f, a[y] \in Copies(R)
      PROVE  y \in DOMAIN g /\ g[y] = f[y]
  <2>1. y \in Flat(L, B) /\ y[1] \in Copies(R)
    BY <1>2, <1>5
  <2>2. y \in Flat(R, E)
    BY <1>1, <1>3, <2>1
  <2> QED BY <1>2, <2>1, <2>2
<1>6. ASSUME NEW c \in Copies(L)
      PROVE  /\ IsFiniteSet({y \in DOMAIN f : a[y] = c})
             /\ Cardinality({y \in DOMAIN f : a[y] = c}) <= k
  <2> DEFINE S == {y \in DOMAIN f : a[y] = c}
             T == Copies(B[c[1]])
             h == [y \in S |-> y[2]]
  <2>1. c[1] \in DOMAIN L
    BY CopiesOfTable
  <2>2. \A y \in S : y \in Flat(L, B) /\ y[1] = c
    BY <1>2
  <2>3. \A y \in S : y = <<c, y[2]>> /\ y[2] \in T
    BY <1>1, <2>2
  <2> HIDE DEF S
  <2>4. h \in [S -> T] /\ \A y, z \in S : h[y] = h[z] => y = z
    BY <2>3
  <2>5. h \in Injection(S, T)
    BY <2>4 DEF Injection, IsInjective
  <2>6. IsFiniteSet(T) /\ Cardinality(T) <= k /\ Cardinality(T) \in Nat
    <3>1. IsTable(B[c[1]]) /\ NumRows(B[c[1]]) <= k
      BY <2>1
    <3>2. IsFiniteSet(T) /\ NumRows(B[c[1]]) \in Nat
      BY <3>1, CopiesOfTable
    <3> QED BY <3>1, <3>2 DEF NumRows
  <2> HIDE DEF h, T
  <2>7. IsFiniteSet(S) /\ Cardinality(S) <= Cardinality(T)
    BY <2>5, <2>6, FS_Injection
  <2>8. Cardinality(S) \in Nat
    BY <2>7, FS_CardinalityType
  <2>9. IsFiniteSet(S) /\ Cardinality(S) <= k
    BY <2>6, <2>7, <2>8
  <2> QED BY <2>9 DEF S
<1>7. IsSource(a, k, f, g, L, R)
  BY <1>4, <1>5, <1>6 DEF IsSource
<1> QED BY <1>7 DEF a, f, g

-----------------------------------------------------------------------------
(* Steps that keep the metric *)

LEMMA RowOrGroupMetric ==
  ASSUME TableInv
  PROVE  /\ IsIfGroupedBy(metric) <=> metric.by # {} \/ metric.each # {}
         /\ GroupsRows(metric) =>
              \/ metric.by # {} /\ metric.each = {} /\ Columns(metric) = metric.by
              \/ metric.by = {} /\ metric.each # {} /\ Columns(metric) = metric.each
         /\ metric.base \in {"rows", "hamming"}
         /\ metric.base = "hamming" => ~ IsIfGroupedBy(metric)
         /\ metric.by = {} => metric.agg = "none"
         /\ bound \in Nat \cup {Infinite}
         /\ bound = Scaled(bound, 1 * 1)
<1>1. bound \in Nat \cup {Infinite} /\ IsMetric(metric)
  BY DEF TableInv, TypeOK
<1>2. bound = Scaled(bound, 1 * 1)
  BY <1>1 DEF Scaled, Infinite
<1> QED BY <1>1, <1>2 DEF IsMetric, IsIfGroupedBy, GroupsRows, Columns

(* Without an outer grouping, the groups that differ.                      *)
LEMMA MissingAlone ==
  ASSUME NEW m, m.by = {}, m.each # {}, NEW T, IsTable(T), NEW U, IsTable(U)
  PROVE  /\ \A d \in Missing(m, T, U) : d = <<d[1], d[2]>>
         /\ \A k, j : <<k, j>> \in Missing(m, T, U) <=>
              /\ k = Restrict(<<>>, {})
              /\ j \in Keys(T, m.each)
              /\ ~ AgreeAt(T, U, m.each, j)
<1>1. \A j : j \in Keys(T, m.each) <=> \E x \in DOMAIN T : Restrict(x, m.each) = j
  BY DEF Keys, BagToSet
<1>2. \A k, j : <<k, j>> \in Missing(m, T, U)
              <=> /\ \E x \in DOMAIN T : Restrict(x, m.by) = k /\ Restrict(x, m.each) = j
                  /\ ~ \A x : Restrict(x, m.by) = k /\ Restrict(x, m.each) = j =>
                          /\ x \in DOMAIN T <=> x \in DOMAIN U
                          /\ x \in DOMAIN T => T[x] = U[x]
  BY MissingGroups
<1>3. \A d \in Missing(m, T, U) : d = <<d[1], d[2]>>
  BY MissingElement
<1> DEFINE e == Restrict(<<>>, {})
<1>4. \A x : Restrict(x, m.by) = e
  BY DEF Restrict
<1> HIDE DEF e
<1>5. \A k, j : <<k, j>> \in Missing(m, T, U) <=>
              /\ k = e
              /\ j \in Keys(T, m.each)
              /\ ~ AgreeAt(T, U, m.each, j)
  <2> SUFFICES ASSUME NEW k, NEW j
               PROVE  <<k, j>> \in Missing(m, T, U) <=>
                        k = e /\ j \in Keys(T, m.each) /\ ~ AgreeAt(T, U, m.each, j)
    OBVIOUS
  <2>1. AgreeAt(T, U, m.each, j)
          <=> \A x : Restrict(x, m.each) = j => /\ x \in DOMAIN T <=> x \in DOMAIN U
                                                /\ x \in DOMAIN T => T[x] = U[x]
    BY DEF AgreeAt
  <2>2. CASE k = e
    BY <1>1, <1>2, <1>4, <2>1, <2>2
  <2>3. CASE k # e
    BY <1>2, <1>4, <2>3
  <2> QED BY <2>2, <2>3
<1> QED BY <1>3, <1>5 DEF e

(* Under IfGroupedBy, groups that agreed agree, and no group is new.       *)
LEMMA StableByGroups ==
  ASSUME TableInv, Stable, GroupsStay, metric.by = {}, metric.each # {},
         NEW l, NEW r, NEW s, Chained(l, r, s, metric, bound), IsTable(l), IsTable(r),
         Keys(l, metric.each) \subseteq Keys(left[<<>>], metric.each),
         Keys(r, metric.each) \subseteq Keys(right[<<>>], metric.each)
  PROVE  Stable'
<1> DEFINE L == left[<<>>]
           R == right[<<>>]
           e == Restrict(<<>>, {})
<1>1. metric.over = "table" /\ left' = One(l) /\ right' = One(r) /\ metric' = metric
  BY DEF Chained, Announce
<1>2. IsTable(L) /\ IsTable(R) /\ IsMetric(metric)
  BY <1>1, TablesInHand DEF TableInv
<1>3. left'[<<>>] = l /\ right'[<<>>] = r
  BY <1>1 DEF One
<1>4. \A k : AgreeAt(L, R, metric.each, k) => AgreeAt(l, r, metric.each, k)
  BY <1>1, <1>3 DEF GroupsStay, IsIfGroupedBy, Columns
<1>5. \A T, U, C, k : AgreeAt(T, U, C, k) <=> AgreeAt(U, T, C, k)
  BY DEF AgreeAt
<1> HIDE DEF L, R, e
<1>7. \A T, U : IsTable(T) /\ IsTable(U) =>
        /\ \A d \in Missing(metric, T, U) : d = <<d[1], d[2]>>
        /\ \A k, j : <<k, j>> \in Missing(metric, T, U) <=>
             k = e /\ j \in Keys(T, metric.each) /\ ~ AgreeAt(T, U, metric.each, j)
  BY MissingAlone DEF e
<1>8. Missing(metric, l, r) \subseteq Missing(metric, L, R)
  BY <1>2, <1>4, <1>7 DEF L
<1>9. Missing(metric, r, l) \subseteq Missing(metric, R, L)
  BY <1>2, <1>4, <1>5, <1>7 DEF R
<1>10. /\ Follows(1, metric, l, r, metric, L, R, Itself(metric.by))
       /\ Follows(1, metric, r, l, metric, R, L, Itself(metric.by))
  BY <1>8, <1>9, FewerFollow
<1>11. Comparable(metric, L, R) => Comparable(metric, l, r)
  BY RowOrGroupMetric DEF Comparable
<1>12. bound = Scaled(bound, 1 * 1)
  BY RowOrGroupMetric
<1> QED BY <1>1, <1>2, <1>10, <1>11, <1>12, StableByFollowing DEF L, R

LEMMA InHandFacts ==
  ASSUME TableInv, NEW l, NEW r, NEW s, NEW m, NEW d, Chained(l, r, s, m, d)
  PROVE  /\ metric.over = "table" /\ IsMetric(metric)
         /\ IsTable(left[<<>>]) /\ IsTable(right[<<>>])
         /\ Legal(left[<<>>], schema) /\ Legal(right[<<>>], schema)
         /\ \A T \in {left[<<>>], right[<<>>]} :
              /\ IsFiniteSet(Copies(T))
              /\ \A x \in Copies(T) : x[1] \in DOMAIN T
              /\ \A y \in DOMAIN T : ValidRow(y, schema)
<1>1. metric.over = "table"
  BY DEF Chained, Announce
<1>2. IsMetric(metric)
  BY DEF TableInv
<1>3. /\ IsTable(left[<<>>]) /\ IsTable(right[<<>>])
      /\ Legal(left[<<>>], schema) /\ Legal(right[<<>>], schema)
  BY <1>1, TablesInHand
<1>4. ASSUME NEW T, Legal(T, schema)
      PROVE  /\ IsFiniteSet(Copies(T))
             /\ \A x \in Copies(T) : x[1] \in DOMAIN T
             /\ \A y \in DOMAIN T : ValidRow(y, schema)
  BY <1>4, CopiesOfTable, LegalRow DEF Legal
<1> QED BY <1>1, <1>2, <1>3, <1>4

LEMMA RestrictIsStable ==
  ASSUME TableInv, Stable, GroupsStay, metric = SymmetricDifference \/ GroupsRows(metric),
         NEW P \in SUBSET DOMAIN left[<<>>], NEW Q \in SUBSET DOMAIN right[<<>>],
         P \cap DOMAIN right[<<>>] \subseteq Q, Q \cap DOMAIN left[<<>>] \subseteq P, NEW s,
         Chained(Restrict(left[<<>>], P), Restrict(right[<<>>], Q), s, metric, bound)
  PROVE  Stable'
<1> DEFINE L == left[<<>>]
           R == right[<<>>]
           l == Restrict(L, P)
           r == Restrict(R, Q)
<1>1. IsTable(L) /\ IsTable(R) /\ metric.over = "table" /\ IsMetric(metric)
  BY InHandFacts
<1>2. IsTable(l) /\ DOMAIN l = P /\ IsTable(r) /\ DOMAIN r = Q
  BY <1>1, RestrictIsTable
<1>3. metric.base # "hamming"
  <2>1. metric = SymmetricDifference => metric.base # "hamming"
    BY DEF SymmetricDifference, Metric
  <2>2. GroupsRows(metric) => IsIfGroupedBy(metric)
    BY DEF GroupsRows
  <2> QED BY <2>1, <2>2, RowOrGroupMetric
<1>4. CASE metric.each = {}
  <2>1. /\ Follows(1, metric, l, r, metric, L, R, Itself(metric.by))
        /\ Follows(1, metric, r, l, metric, R, L, Itself(metric.by))
    BY <1>1, <1>4, RestrictFollows
  <2>2. Comparable(metric, L, R) => Comparable(metric, l, r)
    BY <1>3 DEF Comparable
  <2>3. bound = Scaled(bound, 1 * 1)
    BY RowOrGroupMetric
  <2> HIDE DEF l, r
  <2>4. Chained(l, r, s, metric, bound)
    BY DEF l, r
  <2> QED BY <1>1, <1>2, <2>1, <2>2, <2>3, <2>4, StableByFollowing DEF L, R
<1>5. CASE metric.each # {}
  <2>1. metric.by = {}
    <3>1. metric = SymmetricDifference => metric.each = {}
      BY DEF SymmetricDifference, Metric
    <3>2. GroupsRows(metric) => metric.by = {} \/ metric.each = {}
      BY DEF GroupsRows
    <3> QED BY <1>5, <3>1, <3>2
  <2>2. Keys(l, metric.each) \subseteq Keys(L, metric.each)
    BY <1>2 DEF Keys, BagToSet
  <2>3. Keys(r, metric.each) \subseteq Keys(R, metric.each)
    BY <1>2 DEF Keys, BagToSet
  <2> HIDE DEF l, r
  <2>4. Chained(l, r, s, metric, bound)
    BY DEF l, r
  <2> QED BY <1>2, <1>5, <2>1, <2>2, <2>3, <2>4, StableByGroups DEF L, R
<1> QED BY <1>4, <1>5

LEMMA FilterIsStable ==
  ASSUME TableInv, Stable, GroupsStay, Filter
  PROVE  Stable'
<1>1. PICK c \in DOMAIN schema, v \in Cells :
        /\ metric = SymmetricDifference \/ GroupsRows(metric)
        /\ Chained(Restrict(left[<<>>], {r \in DOMAIN left[<<>>] : r[c] = v}),
                   Restrict(right[<<>>], {r \in DOMAIN right[<<>>] : r[c] = v}),
                   schema, metric, bound)
  BY DEF Filter, Chain, ChainParts, Where, RestrictDomain, Chained
<1> DEFINE P == {r \in DOMAIN left[<<>>] : r[c] = v}
           Q == {r \in DOMAIN right[<<>>] : r[c] = v}
<1>2. /\ P \in SUBSET DOMAIN left[<<>>] /\ Q \in SUBSET DOMAIN right[<<>>]
      /\ P \cap DOMAIN right[<<>>] \subseteq Q /\ Q \cap DOMAIN left[<<>>] \subseteq P
  OBVIOUS
<1>3. Chained(Restrict(left[<<>>], P), Restrict(right[<<>>], Q), schema, metric, bound)
  BY <1>1
<1> HIDE DEF P, Q
<1> QED BY <1>1, <1>2, <1>3, RestrictIsStable

LEMMA DropRowsIsStable ==
  ASSUME TableInv, Stable, GroupsStay, NEW what, DropRows(what)
  PROVE  Stable'
<1>1. PICK C \in SUBSET DOMAIN schema :
        /\ metric = SymmetricDifference \/ GroupsRows(metric)
        /\ Chained(Restrict(left[<<>>], {r \in DOMAIN left[<<>>] : \A c \in C : r[c] \notin what}),
                Restrict(right[<<>>], {r \in DOMAIN right[<<>>] : \A c \in C : r[c] \notin what}),
                Without(what, C), metric, bound)
  BY DEF DropRows, Chain, ChainParts, Where, RestrictDomain, Chained
<1> DEFINE P == {r \in DOMAIN left[<<>>] : \A c \in C : r[c] \notin what}
           Q == {r \in DOMAIN right[<<>>] : \A c \in C : r[c] \notin what}
<1>2. /\ P \in SUBSET DOMAIN left[<<>>] /\ Q \in SUBSET DOMAIN right[<<>>]
      /\ P \cap DOMAIN right[<<>>] \subseteq Q /\ Q \cap DOMAIN left[<<>>] \subseteq P
  OBVIOUS
<1>3. Chained(Restrict(left[<<>>], P), Restrict(right[<<>>], Q), Without(what, C), metric, bound)
  BY <1>1
<1> HIDE DEF P, Q
<1> QED BY <1>1, <1>2, <1>3, RestrictIsStable

(* Steps that make rows of rows.                                           *)
LEMMA RowsAreStable ==
  ASSUME TableInv, Stable, NEW f, IsFiniteSet(DOMAIN f), NEW g, IsFiniteSet(DOMAIN g),
         NEW s, NEW m, NEW d, Chained(Tally(f), Tally(g), s, m, d),
         metric.each = {}, IsMetric(m), m.over = "table", m.each = {}, m.base = metric.base,
         metric.agg = "l2" => m.agg = "l2",
         NEW k \in Nat, d = Scaled(bound, k * k) \/ d = Infinite,
         NEW a, IsSource(a, k, f, g, left[<<>>], right[<<>>]),
         NEW b, IsSource(b, k, g, f, right[<<>>], left[<<>>]),
         NEW name,
         metric.agg = "l2" => \A y \in DOMAIN f : \A c \in metric.by :
                                name[c] \in m.by /\ a[y][1][c] = f[y][name[c]],
         metric.agg = "l2" => \A y \in DOMAIN g : \A c \in metric.by :
                                name[c] \in m.by /\ b[y][1][c] = g[y][name[c]],
         metric.base = "hamming" => /\ Cardinality(DOMAIN f) = NumRows(left[<<>>])
                                    /\ Cardinality(DOMAIN g) = NumRows(right[<<>>])
  PROVE  Stable'
<1> DEFINE L == left[<<>>]
           R == right[<<>>]
<1>1. IsTable(L) /\ IsTable(R)
  BY InHandFacts
<1>2. IsTable(Tally(f)) /\ IsTable(Tally(g))
  BY TallyIsTable
<1>3. Follows(k, m, Tally(f), Tally(g), metric, L, R, name)
  BY <1>1, RowsFollow
<1>4. Follows(k, m, Tally(g), Tally(f), metric, R, L, name)
  BY <1>1, RowsFollow
<1>5. Comparable(metric, L, R) => Comparable(m, Tally(f), Tally(g))
  <2>1. NumRows(Tally(f)) = Cardinality(DOMAIN f) /\ NumRows(Tally(g)) = Cardinality(DOMAIN g)
    BY TallyRows
  <2> QED BY <2>1 DEF Comparable
<1> HIDE DEF L, R
<1> QED BY <1>2, <1>3, <1>4, <1>5, StableByFollowing DEF L, R

LEMMA MappedIsStable ==
  ASSUME TableInv, Stable, GroupsStay, IsIfGroupedBy(metric) => GroupsRows(metric),
         NEW f, DOMAIN f = Copies(left[<<>>]), NEW g, DOMAIN g = Copies(right[<<>>]),
         \A y \in DOMAIN f : y \in DOMAIN g => g[y] = f[y],
         IsIfGroupedBy(metric) => \A c \in Columns(metric) :
                                    /\ \A y \in DOMAIN f : f[y][c] = y[1][c]
                                    /\ \A y \in DOMAIN g : g[y][c] = y[1][c],
         NEW s, Chained(Tally(f), Tally(g), s, metric, bound)
  PROVE  Stable'
<1> DEFINE L == left[<<>>]
           R == right[<<>>]
<1>1. /\ IsTable(L) /\ IsTable(R) /\ metric.over = "table" /\ IsMetric(metric)
      /\ IsFiniteSet(DOMAIN f) /\ IsFiniteSet(DOMAIN g)
      /\ \A x \in DOMAIN f : x[1] \in DOMAIN L
      /\ \A x \in DOMAIN g : x[1] \in DOMAIN R
  BY InHandFacts
<1>2. CASE metric.each = {}
  <2> DEFINE a == Itself(DOMAIN f)
             b == Itself(DOMAIN g)
             name == Itself(metric.by)
  <2>1. IsSource(a, 1, f, g, L, R)
    BY <1>1, MappedSource
  <2>2. IsSource(b, 1, g, f, R, L)
    BY <1>1, MappedSource
  <2>3. /\ \A y \in DOMAIN f : a[y] = y
        /\ \A y \in DOMAIN g : b[y] = y
        /\ \A c \in metric.by : name[c] = c
    BY DEF Itself
  <2>4. metric.agg = "l2" => IsIfGroupedBy(metric) /\ Columns(metric) = metric.by
    BY RowOrGroupMetric DEF IsIfGroupedBy, Columns
  <2> HIDE DEF a, b, name
  <2>5. metric.agg = "l2" => \A y \in DOMAIN f : \A c \in metric.by :
                                name[c] \in metric.by /\ a[y][1][c] = f[y][name[c]]
    BY <2>3, <2>4
  <2>6. metric.agg = "l2" => \A y \in DOMAIN g : \A c \in metric.by :
                                name[c] \in metric.by /\ b[y][1][c] = g[y][name[c]]
    BY <2>3, <2>4
  <2>7. Cardinality(DOMAIN f) = NumRows(L) /\ Cardinality(DOMAIN g) = NumRows(R)
    BY DEF NumRows
  <2>8. bound = Scaled(bound, 1 * 1) /\ 1 \in Nat
    BY RowOrGroupMetric
  <2>9. /\ IsSource(a, 1, f, g, left[<<>>], right[<<>>])
        /\ IsSource(b, 1, g, f, right[<<>>], left[<<>>])
        /\ metric.base = "hamming" => /\ Cardinality(DOMAIN f) = NumRows(left[<<>>])
                                      /\ Cardinality(DOMAIN g) = NumRows(right[<<>>])
    BY <2>1, <2>2, <2>7
  <2>10. \E k \in Nat : /\ bound = Scaled(bound, k * k)
                        /\ IsSource(a, k, f, g, left[<<>>], right[<<>>])
                        /\ IsSource(b, k, g, f, right[<<>>], left[<<>>])
    BY <2>8, <2>9
  <2>11. PICK k \in Nat : /\ bound = Scaled(bound, k * k)
                          /\ IsSource(a, k, f, g, left[<<>>], right[<<>>])
                          /\ IsSource(b, k, g, f, right[<<>>], left[<<>>])
    BY <2>10
  <2>12. IsFiniteSet(DOMAIN f) /\ IsFiniteSet(DOMAIN g) /\ metric.over = "table" /\ IsMetric(metric)
    BY <1>1
  <2> HIDE DEF L, R
  <2> QED BY <1>2, <2>5, <2>6, <2>9, <2>11, <2>12, RowsAreStable
<1>3. CASE metric.each # {}
  <2>1. metric.by = {} /\ Columns(metric) = metric.each /\ IsIfGroupedBy(metric)
    BY <1>3, RowOrGroupMetric DEF IsIfGroupedBy, GroupsRows, Columns
  <2>2. /\ IsTable(Tally(f)) /\ DOMAIN Tally(f) = Range(f)
        /\ IsTable(Tally(g)) /\ DOMAIN Tally(g) = Range(g)
    BY <1>1, TallyIsTable
  <2>3. Keys(Tally(f), metric.each) \subseteq Keys(L, metric.each)
    <3>1. \A y \in DOMAIN f : Restrict(f[y], metric.each) = Restrict(y[1], metric.each)
      BY <2>1 DEF Restrict
    <3> QED BY <1>1, <2>2, <3>1 DEF Keys, BagToSet, Range
  <2>4. Keys(Tally(g), metric.each) \subseteq Keys(R, metric.each)
    <3>1. \A y \in DOMAIN g : Restrict(g[y], metric.each) = Restrict(y[1], metric.each)
      BY <2>1 DEF Restrict
    <3> QED BY <1>1, <2>2, <3>1 DEF Keys, BagToSet, Range
  <2> QED BY <1>3, <2>1, <2>2, <2>3, <2>4, StableByGroups
<1> QED BY <1>2, <1>3

LEMMA AnythingIsWithinInfinity ==
  ASSUME NEW l, NEW r, NEW s, NEW m, Chained(l, r, s, m, Infinite)
  PROVE  Stable'
BY DEF Chained, Announce, Stable, Within

(* Rows B[r] of each copy of a row r of the left table, E[r] of the right. *)
LEMMA FlattenedIsStable ==
  ASSUME TableInv, Stable, GroupsStay, metric = SymmetricDifference \/ GroupsRows(metric),
         NEW B, \A r \in DOMAIN left[<<>>] : IsTable(B[r]),
         NEW E, \A r \in DOMAIN right[<<>>] : IsTable(E[r]),
         \A r \in DOMAIN left[<<>>] : r \in DOMAIN right[<<>>] => B[r] = E[r],
         IsIfGroupedBy(metric) => \A c \in Columns(metric) :
           /\ \A r \in DOMAIN left[<<>>] : \A x \in DOMAIN B[r] : x[c] = r[c]
           /\ \A r \in DOMAIN right[<<>>] : \A x \in DOMAIN E[r] : x[c] = r[c],
         NEW s, NEW d, Chained(Flattened(left[<<>>], B), Flattened(right[<<>>], E), s, metric, d),
         metric.each # {} => d = bound,
         NEW k \in Nat,
         metric.each = {} => /\ d = Scaled(bound, k * k)
                             /\ \A r \in DOMAIN left[<<>>] : NumRows(B[r]) <= k
                             /\ \A r \in DOMAIN right[<<>>] : NumRows(E[r]) <= k
  PROVE  Stable'
<1> DEFINE L == left[<<>>]
           R == right[<<>>]
           V == Flat(L, B)
           W == Flat(R, E)
           f == [x \in V |-> x[2][1]]
           g == [x \in W |-> x[2][1]]
<1>1. /\ IsTable(L) /\ IsTable(R) /\ metric.over = "table" /\ IsMetric(metric)
  BY InHandFacts
<1>2. /\ IsFiniteSet(Flat(L, B))
      /\ Flattened(L, B) = Tally([x \in Flat(L, B) |-> x[2][1]])
      /\ \A x : x \in Flat(L, B) <=>
                  \E y \in Copies(L) : \E z \in Copies(B[y[1]]) : x = <<y, z>>
      /\ \A x \in Flat(L, B) : /\ x[1] \in Copies(L)
                               /\ x[1][1] \in DOMAIN L
                               /\ x[2] \in Copies(B[x[1][1]])
                               /\ x[2][1] \in DOMAIN B[x[1][1]]
  <2>1. \A r \in DOMAIN L : IsTable(B[r])
    OBVIOUS
  <2> HIDE DEF L, R
  <2> QED BY Zenon, <1>1, <2>1, FlatCopies
<1>3. /\ IsFiniteSet(Flat(R, E))
      /\ Flattened(R, E) = Tally([x \in Flat(R, E) |-> x[2][1]])
      /\ \A x : x \in Flat(R, E) <=>
                  \E y \in Copies(R) : \E z \in Copies(E[y[1]]) : x = <<y, z>>
      /\ \A x \in Flat(R, E) : /\ x[1] \in Copies(R)
                               /\ x[1][1] \in DOMAIN R
                               /\ x[2] \in Copies(E[x[1][1]])
                               /\ x[2][1] \in DOMAIN E[x[1][1]]
  <2>1. \A r \in DOMAIN R : IsTable(E[r])
    OBVIOUS
  <2> HIDE DEF L, R
  <2> QED BY Zenon, <1>1, <2>1, FlatCopies
<1>4. Flattened(L, B) = Tally(f) /\ Flattened(R, E) = Tally(g)
  BY <1>2, <1>3
<1>5. /\ DOMAIN f = V /\ DOMAIN g = W
      /\ IsFiniteSet(DOMAIN f) /\ IsFiniteSet(DOMAIN g)
      /\ \A x \in V : f[x] = x[2][1] /\ x[1][1] \in DOMAIN L /\ f[x] \in DOMAIN B[x[1][1]]
      /\ \A x \in W : g[x] = x[2][1] /\ x[1][1] \in DOMAIN R /\ g[x] \in DOMAIN E[x[1][1]]
  BY <1>2, <1>3
<1>6. CASE metric.each = {}
  <2> DEFINE a == [x \in V |-> x[1]]
             b == [x \in W |-> x[1]]
             name == Itself(metric.by)
  <2>1. IsSource(a, k, f, g, L, R)
    BY <1>1, <1>6, FlattenedSource
  <2>2. IsSource(b, k, g, f, R, L)
    BY <1>1, <1>6, FlattenedSource
  <2>3. /\ \A y \in V : a[y] = y[1]
        /\ \A y \in W : b[y] = y[1]
        /\ \A c \in metric.by : name[c] = c
    BY DEF Itself
  <2>4. metric.agg = "l2" => IsIfGroupedBy(metric) /\ Columns(metric) = metric.by
    BY RowOrGroupMetric DEF IsIfGroupedBy, Columns
  <2> HIDE DEF a, b, name, f, g, V, W
  <2>5. metric.agg = "l2" => \A y \in DOMAIN f : \A c \in metric.by :
                                name[c] \in metric.by /\ a[y][1][c] = f[y][name[c]]
    BY <1>5, <2>3, <2>4
  <2>6. metric.agg = "l2" => \A y \in DOMAIN g : \A c \in metric.by :
                                name[c] \in metric.by /\ b[y][1][c] = g[y][name[c]]
    BY <1>5, <2>3, <2>4
  <2>7. metric.base # "hamming"
    <3>1. metric = SymmetricDifference => metric.base # "hamming"
      BY DEF SymmetricDifference, Metric
    <3>2. GroupsRows(metric) => IsIfGroupedBy(metric)
      BY DEF GroupsRows
    <3> QED BY <3>1, <3>2, RowOrGroupMetric
  <2>8. IsFiniteSet(DOMAIN f) /\ IsFiniteSet(DOMAIN g) /\ metric.over = "table" /\ IsMetric(metric)
    BY <1>1, <1>5
  <2>9. Chained(Tally(f), Tally(g), s, metric, d) /\ d = Scaled(bound, k * k)
    BY <1>4, <1>6
  <2>10. /\ IsSource(a, k, f, g, left[<<>>], right[<<>>])
         /\ IsSource(b, k, g, f, right[<<>>], left[<<>>])
    BY <2>1, <2>2
  <2> HIDE DEF L, R
  <2> QED BY <1>6, <2>5, <2>6, <2>7, <2>8, <2>9, <2>10, RowsAreStable
<1>7. CASE metric.each # {}
  <2>1. metric.by = {} /\ Columns(metric) = metric.each /\ IsIfGroupedBy(metric)
    <3>1. metric = SymmetricDifference => metric.each = {}
      BY DEF SymmetricDifference, Metric
    <3> QED BY <1>7, <3>1, RowOrGroupMetric DEF IsIfGroupedBy, GroupsRows, Columns
  <2> HIDE DEF f, g, V, W
  <2>2. /\ IsTable(Tally(f)) /\ DOMAIN Tally(f) = Range(f)
        /\ IsTable(Tally(g)) /\ DOMAIN Tally(g) = Range(g)
    BY <1>5, TallyIsTable
  <2>3. Keys(Tally(f), metric.each) \subseteq Keys(L, metric.each)
    <3>1. \A y \in DOMAIN f : Restrict(f[y], metric.each) = Restrict(y[1][1], metric.each)
      BY <1>5, <2>1 DEF Restrict
    <3> QED BY <1>5, <2>2, <3>1 DEF Keys, BagToSet, Range
  <2>4. Keys(Tally(g), metric.each) \subseteq Keys(R, metric.each)
    <3>1. \A y \in DOMAIN g : Restrict(g[y], metric.each) = Restrict(y[1][1], metric.each)
      BY <1>5, <2>1 DEF Restrict
    <3> QED BY <1>5, <2>2, <3>1 DEF Keys, BagToSet, Range
  <2>5. Chained(Tally(f), Tally(g), s, metric, bound)
    BY <1>4, <1>7
  <2> QED BY <1>7, <2>1, <2>2, <2>3, <2>4, <2>5, StableByGroups
<1> QED BY <1>6, <1>7

LEMMA SelectIsStable ==
  ASSUME TableInv, Stable, GroupsStay, Select
  PROVE  Stable'
<1>1. PICK C \in SUBSET DOMAIN schema :
        /\ IsIfGroupedBy(metric) => GroupsRows(metric)
        /\ IsIfGroupedBy(metric) => Columns(metric) \subseteq C
        /\ Chained(Tally([x \in Copies(left[<<>>]) |-> Restrict(x[1], C)]),
                   Tally([x \in Copies(right[<<>>]) |-> Restrict(x[1], C)]),
                   Restrict(schema, C), metric, bound)
  BY DEF Select, Chain, ChainParts, Mapped, Chained
<1> DEFINE f == [x \in Copies(left[<<>>]) |-> Restrict(x[1], C)]
           g == [x \in Copies(right[<<>>]) |-> Restrict(x[1], C)]
<1>2. /\ DOMAIN f = Copies(left[<<>>]) /\ \A y \in DOMAIN f : f[y] = Restrict(y[1], C)
      /\ DOMAIN g = Copies(right[<<>>]) /\ \A y \in DOMAIN g : g[y] = Restrict(y[1], C)
  OBVIOUS
<1>3. Chained(Tally(f), Tally(g), Restrict(schema, C), metric, bound)
  BY <1>1
<1>4. \A r : \A c \in C : Restrict(r, C)[c] = r[c]
  BY DEF Restrict
<1> HIDE DEF f, g
<1>5. IsIfGroupedBy(metric) => \A c \in Columns(metric) :
                                    /\ \A y \in DOMAIN f : f[y][c] = y[1][c]
                                    /\ \A y \in DOMAIN g : g[y][c] = y[1][c]
  BY <1>1, <1>2, <1>4
<1>6. \A y \in DOMAIN f : y \in DOMAIN g => g[y] = f[y]
  BY <1>2
<1> QED BY <1>1, <1>2, <1>3, <1>5, <1>6, MappedIsStable

LEMMA MapIsStable ==
  ASSUME UserFunctions, TableInv, Stable, GroupsStay, Map
  PROVE  Stable'
<1>1. PICK t \in RowTransformers :
        /\ t.single
        /\ IsIfGroupedBy(metric) => GroupsRows(metric) /\ t.augment
        /\ Chained(Tally([x \in Copies(left[<<>>]) |-> OutputRows(t, x[1], 1)[1]]),
                   Tally([x \in Copies(right[<<>>]) |-> OutputRows(t, x[1], 1)[1]]),
                   OutputSchema(t), metric, bound)
  BY DEF Map, Chain, ChainParts, Mapped, Chained
<1> DEFINE f == [x \in Copies(left[<<>>]) |-> OutputRows(t, x[1], 1)[1]]
           g == [x \in Copies(right[<<>>]) |-> OutputRows(t, x[1], 1)[1]]
<1>2. /\ DOMAIN f = Copies(left[<<>>]) /\ \A y \in DOMAIN f : f[y] = OutputRows(t, y[1], 1)[1]
      /\ DOMAIN g = Copies(right[<<>>]) /\ \A y \in DOMAIN g : g[y] = OutputRows(t, y[1], 1)[1]
  OBVIOUS
<1>3. Chained(Tally(f), Tally(g), OutputSchema(t), metric, bound)
  BY <1>1
<1>4. ASSUME t.augment, NEW r, ValidRow(r, schema), NEW c \in DOMAIN schema
      PROVE  OutputRows(t, r, 1)[1][c] = r[c]
  <2>1. 1 \in DOMAIN OutputRows(t, r, 1)
    BY <1>1, <1>4, OutputIsValid
  <2>2. OutputRows(t, r, 1)[1] = OutputRow(t, r, RowsOf(t, r)[1])
    BY <2>1 DEF OutputRows
  <2>3. OutputRow(t, r, RowsOf(t, r)[1]) = Extended(r, RowsOf(t, r)[1])
    BY <1>4 DEF OutputRow
  <2>4. c \in DOMAIN r
    BY <1>4 DEF ValidRow
  <2> QED BY <2>2, <2>3, <2>4 DEF Extended
<1>5. /\ \A y \in Copies(left[<<>>]) : ValidRow(y[1], schema)
      /\ \A y \in Copies(right[<<>>]) : ValidRow(y[1], schema)
  BY <1>1, InHandFacts
<1> HIDE DEF f, g
<1>6. IsIfGroupedBy(metric) => \A c \in Columns(metric) :
                                    /\ \A y \in DOMAIN f : f[y][c] = y[1][c]
                                    /\ \A y \in DOMAIN g : g[y][c] = y[1][c]
  BY <1>1, <1>2, <1>4, <1>5, ColumnsOfGroups
<1>7. \A y \in DOMAIN f : y \in DOMAIN g => g[y] = f[y]
  BY <1>2
<1> QED BY <1>1, <1>2, <1>3, <1>6, <1>7, MappedIsStable

LEMMA ReplaceCellsIsStable ==
  ASSUME TableInv, Stable, GroupsStay, NEW what, NEW c \in DOMAIN schema, NEW with,
         ReplaceCells(what, c, with), IsIfGroupedBy(metric) => c \notin Columns(metric)
  PROVE  Stable'
<1>1. /\ IsIfGroupedBy(metric) => GroupsRows(metric)
      /\ Chained(Tally([x \in Copies(left[<<>>]) |-> Replaced(x[1], what, c, with)]),
                 Tally([x \in Copies(right[<<>>]) |-> Replaced(x[1], what, c, with)]),
                 Without(what, {c}), metric, bound)
  BY DEF ReplaceCells, Chain, ChainParts, Mapped, Chained, Replaced
<1> DEFINE f == [x \in Copies(left[<<>>]) |-> Replaced(x[1], what, c, with)]
           g == [x \in Copies(right[<<>>]) |-> Replaced(x[1], what, c, with)]
<1>2. /\ DOMAIN f = Copies(left[<<>>]) /\ \A y \in DOMAIN f : f[y] = Replaced(y[1], what, c, with)
      /\ DOMAIN g = Copies(right[<<>>]) /\ \A y \in DOMAIN g : g[y] = Replaced(y[1], what, c, with)
  OBVIOUS
<1>3. Chained(Tally(f), Tally(g), Without(what, {c}), metric, bound)
  BY <1>1
<1>4. ASSUME NEW r, NEW e, e # c
      PROVE  Replaced(r, what, c, with)[e] = r[e]
  BY <1>4 DEF Replaced
<1> HIDE DEF f, g
<1>5. IsIfGroupedBy(metric) => \A e \in Columns(metric) :
                                    /\ \A y \in DOMAIN f : f[y][e] = y[1][e]
                                    /\ \A y \in DOMAIN g : g[y][e] = y[1][e]
  BY <1>2, <1>4
<1>6. \A y \in DOMAIN f : y \in DOMAIN g => g[y] = f[y]
  BY <1>2
<1> QED BY <1>1, <1>2, <1>3, <1>5, <1>6, MappedIsStable

LEMMA FlatMapIsStable ==
  ASSUME UserFunctions, TableInv, Stable, GroupsStay, FlatMap
  PROVE  Stable'
<1> DEFINE B(T, t, max) == [r \in DOMAIN T |-> Tally(OutputRows(t, r, max))]
<1>1. PICK t \in RowTransformers, max \in Thresholds \cup {Infinite} :
        /\ metric = SymmetricDifference \/ (GroupsRows(metric) /\ t.augment)
        /\ Chained(Flattened(left[<<>>], B(left[<<>>], t, max)),
                   Flattened(right[<<>>], B(right[<<>>], t, max)),
                   OutputSchema(t), metric, FlatMapBound(max))
  BY DEF FlatMap, Chain, ChainParts, FlatMapped, BagToSet, Chained
<1>2. IsIfGroupedBy(metric) => t.augment
  BY <1>1 DEF IsIfGroupedBy, SymmetricDifference, Metric
<1>3. max \in Nat \cup {Infinite}
  BY BoundsAssumption
<1>4. ASSUME NEW r, ValidRow(r, schema)
      PROVE  /\ IsTable(Tally(OutputRows(t, r, max)))
             /\ max # Infinite => NumRows(Tally(OutputRows(t, r, max))) <= max
             /\ t.augment => \A x \in DOMAIN Tally(OutputRows(t, r, max)) :
                               \A c \in DOMAIN schema : x[c] = r[c]
  <2> DEFINE o == OutputRows(t, r, max)
             len == Len(RowsOf(t, r))
             n == IF max = Infinite \/ len < max THEN len ELSE max
  <2>1. IsFiniteSet(DOMAIN o)
    BY <1>3, <1>4, OutputIsValid
  <2>2. DOMAIN o = 1 .. n /\ len \in Nat
    BY DEF OutputRows, UserFunctions, RowsAsAnnounced
  <2>3. \A i \in DOMAIN o : t.augment => o[i] = Extended(r, RowsOf(t, r)[i])
    BY DEF OutputRows, OutputRow
  <2> HIDE DEF o, len
  <2>4. max # Infinite => n \in Nat /\ n <= max
    BY <1>3, <2>2
  <2> HIDE DEF n
  <2>5. max # Infinite => Cardinality(1 .. n) <= max
    <3> SUFFICES ASSUME max # Infinite PROVE Cardinality(1 .. n) <= max
      OBVIOUS
    <3>1. 1 \in Int /\ n \in Int /\ n \in Nat /\ n <= max /\ max \in Nat
      BY <1>3, <2>4
    <3>2. Cardinality(1 .. n) = IF 1 > n THEN 0 ELSE n - 1 + 1
      BY <3>1, FS_Interval
    <3> QED BY <3>1, <3>2
  <2>6. /\ IsTable(Tally(o)) /\ DOMAIN Tally(o) = Range(o)
        /\ NumRows(Tally(o)) = Cardinality(DOMAIN o)
    BY <2>1, TallyIsTable, TallyRows
  <2>7. \A c \in DOMAIN schema : \A q : Extended(r, q)[c] = r[c]
    BY <1>4 DEF ValidRow, Extended
  <2>8. t.augment => \A x \in DOMAIN Tally(o) : \A c \in DOMAIN schema : x[c] = r[c]
    BY <2>3, <2>6, <2>7 DEF Range
  <2>9. max # Infinite => NumRows(Tally(o)) <= max
    BY <2>2, <2>5, <2>6
  <2> QED BY <2>6, <2>8, <2>9 DEF o
<1> DEFINE D == B(left[<<>>], t, max)
           E == B(right[<<>>], t, max)
<1>5. /\ \A r \in DOMAIN left[<<>>] : D[r] = Tally(OutputRows(t, r, max))
      /\ \A r \in DOMAIN right[<<>>] : E[r] = Tally(OutputRows(t, r, max))
  OBVIOUS
<1>6. /\ \A r \in DOMAIN left[<<>>] : ValidRow(r, schema)
      /\ \A r \in DOMAIN right[<<>>] : ValidRow(r, schema)
  BY <1>1, InHandFacts
<1>7. Chained(Flattened(left[<<>>], D), Flattened(right[<<>>], E),
              OutputSchema(t), metric, FlatMapBound(max))
  BY <1>1
<1> HIDE DEF B, D, E
<1>8. /\ \A r \in DOMAIN left[<<>>] : IsTable(D[r])
      /\ \A r \in DOMAIN right[<<>>] : IsTable(E[r])
      /\ \A r \in DOMAIN left[<<>>] : r \in DOMAIN right[<<>>] => D[r] = E[r]
  BY <1>4, <1>5, <1>6
<1>9. IsIfGroupedBy(metric) => \A c \in Columns(metric) :
           /\ \A r \in DOMAIN left[<<>>] : \A x \in DOMAIN D[r] : x[c] = r[c]
           /\ \A r \in DOMAIN right[<<>>] : \A x \in DOMAIN E[r] : x[c] = r[c]
  BY <1>2, <1>4, <1>5, <1>6, ColumnsOfGroups
<1>10. metric = SymmetricDifference \/ GroupsRows(metric)
  BY <1>1
<1>11. metric.each # {} => metric.by = {} /\ FlatMapBound(max) = bound
  <2>1. metric = SymmetricDifference => metric.each = {}
    BY DEF SymmetricDifference, Metric
  <2> QED BY <1>10, <2>1, RowOrGroupMetric DEF FlatMapBound
<1>12. metric.each = {} => FlatMapBound(max) = IF max = Infinite THEN Infinite
                                               ELSE Scaled(bound, max * max)
  BY DEF FlatMapBound
<1>13. CASE FlatMapBound(max) = Infinite
  BY <1>7, <1>13, AnythingIsWithinInfinity
<1>14. CASE metric.each # {}
  <2>1. 0 \in Nat
    OBVIOUS
  <2> QED BY <1>7, <1>8, <1>9, <1>10, <1>11, <1>14, <2>1, FlattenedIsStable
<1>15. CASE metric.each = {} /\ max # Infinite
  <2>1. /\ max \in Nat
        /\ \A r \in DOMAIN left[<<>>] : NumRows(D[r]) <= max
        /\ \A r \in DOMAIN right[<<>>] : NumRows(E[r]) <= max
    BY <1>3, <1>4, <1>5, <1>6, <1>15
  <2> QED BY <1>7, <1>8, <1>9, <1>10, <1>12, <1>15, <2>1, FlattenedIsStable
<1> QED BY <1>12, <1>13, <1>14, <1>15

-----------------------------------------------------------------------------
(* Hamming distance *)

(* A step whose tables are as close as it announces.                       *)
LEMMA StableIfClose ==
  ASSUME TableInv, Stable, NEW l, NEW r, NEW s, NEW m, NEW d, Chained(l, r, s, m, d),
         IsMetric(m), m.over = "table", IsTable(l), IsTable(r), d \in Nat \cup {Infinite},
         ASSUME d # Infinite, bound # Infinite => /\ Comparable(metric, left[<<>>], right[<<>>])
                                                  /\ Apart(metric, left[<<>>], right[<<>>]) <= bound
         PROVE  Comparable(m, l, r) /\ Apart(m, l, r) <= d
  PROVE  Stable'
<1>1. metric.over = "table" /\ left' = One(l) /\ right' = One(r) /\ metric' = m /\ bound' = d
  BY DEF Chained, Announce
<1>2. DOMAIN One(l) = {<<>>} /\ One(l)[<<>>] = l /\ One(r)[<<>>] = r
  BY DEF One
<1>3. Stable' <=> Within(Distance(m, One(l), One(r)), d)
  BY <1>1 DEF Stable
<1>4. Within(Distance(m, One(l), One(r)), d)
        <=> d = Infinite \/ (Comparable(m, l, r) /\ Apart(m, l, r) <= d)
  BY <1>2, WithinCounts
<1>5. bound # Infinite => /\ Comparable(metric, left[<<>>], right[<<>>])
                          /\ Apart(metric, left[<<>>], right[<<>>]) <= bound
  BY <1>1, TablesInHand
<1> QED BY <1>3, <1>4, <1>5

LEMMA IdentityIsStable ==
  ASSUME TableInv, Stable, Identity
  PROVE  Stable'
<1>1. Chained(left[<<>>], right[<<>>], schema, metric, bound)
  BY DEF Identity, Chain, ChainParts, Same, Chained
<1>2. /\ IsTable(left[<<>>]) /\ IsTable(right[<<>>]) /\ IsMetric(metric) /\ metric.over = "table"
  BY <1>1, InHandFacts
<1>3. bound \in Nat \cup {Infinite}
  BY DEF TableInv, TypeOK
<1> QED BY <1>1, <1>2, <1>3, StableIfClose

(* Under SymmetricDifference a row that is replaced counts on either side. *)
LEMMA RowsApartCount ==
  ASSUME NEW L, IsTable(L), NEW R, IsTable(R)
  PROVE  /\ IsFiniteSet(ExceptAll(L, R)) /\ IsFiniteSet(ExceptAll(R, L))
         /\ Cardinality(ExceptAll(L, R)) \in Nat /\ Cardinality(ExceptAll(R, L)) \in Nat
         /\ NumRows(L) = NumRows(R) => Cardinality(ExceptAll(L, R)) = Cardinality(ExceptAll(R, L))
<1>1. IsFiniteSet(Copies(L)) /\ IsFiniteSet(Copies(R))
  BY CopiesOfTable
<1>2. /\ IsFiniteSet(Copies(L) \ Copies(R))
      /\ Cardinality(Copies(L) \ Copies(R))
           = Cardinality(Copies(L)) - Cardinality(Copies(L) \cap Copies(R))
  BY <1>1, FS_Difference
<1>3. /\ IsFiniteSet(Copies(R) \ Copies(L))
      /\ Cardinality(Copies(R) \ Copies(L))
           = Cardinality(Copies(R)) - Cardinality(Copies(R) \cap Copies(L))
  BY <1>1, FS_Difference
<1>4. Copies(L) \cap Copies(R) = Copies(R) \cap Copies(L)
  OBVIOUS
<1>5. /\ Cardinality(Copies(L) \ Copies(R)) \in Nat /\ Cardinality(Copies(R) \ Copies(L)) \in Nat
  BY <1>2, <1>3, FS_CardinalityType
<1> QED BY <1>2, <1>3, <1>4, <1>5 DEF NumRows, ExceptAll

(* By rows, without an outer grouping: copies that the other side has not. *)
LEMMA RowsMissing ==
  ASSUME NEW m, m.by = {}, m.each = {}, NEW L, IsTable(L), NEW R, IsTable(R)
  PROVE  /\ IsFiniteSet(Missing(m, L, R))
         /\ Cardinality(Missing(m, L, R)) = Cardinality(ExceptAll(L, R))
<1> DEFINE X == Missing(m, L, R)
           Y == ExceptAll(L, R)
           e == Restrict(<<>>, {})
           f == [x \in Y |-> <<e, x>>]
<1>1. \A x : Restrict(x, m.by) = e
  BY DEF Restrict
<1>2. \A d : d \in X <=> \E x \in Y : d = <<Restrict(x[1], m.by), x>>
  BY MissingRows
<1> HIDE DEF X, Y, e
<1>3. \A d : d \in X <=> \E x \in Y : d = <<e, x>>
  BY <1>1, <1>2
<1>4. f \in [Y -> X] /\ (\A x, y \in Y : f[x] = f[y] => x = y) /\ \A d \in X : \E x \in Y : f[x] = d
  BY <1>3
<1>5. f \in Bijection(Y, X)
  BY <1>4 DEF Bijection, Injection, IsInjective, Surjection
<1>6. IsFiniteSet(Y)
  BY RowsApartCount DEF Y
<1> HIDE DEF f
<1>7. IsFiniteSet(X) /\ Cardinality(X) = Cardinality(Y)
  <2>1. IsFiniteSet(X)
    BY <1>5, <1>6, FS_Bijection DEF ExistsBijection
  <2>2. Cardinality(X) = Cardinality(Y)
    BY <1>5, <1>6, FS_Bijection DEF ExistsBijection
  <2> QED BY <2>1, <2>2
<1> QED BY <1>7 DEF X, Y

LEMMA HammingCounts ==
  ASSUME NEW L, IsTable(L), NEW R, IsTable(R), NumRows(L) = NumRows(R),
         NEW n, n.base = "hamming", n.by = {}, n.each = {}, n.agg # "l2"
  PROVE  Apart(SymmetricDifference, L, R) <= 4 * Apart(n, L, R)
<1> DEFINE m == SymmetricDifference
           x == Cardinality(ExceptAll(L, R))
           y == Cardinality(ExceptAll(R, L))
           X == Missing(m, L, R)
           Y == Missing(m, R, L)
           Z == Missing(n, L, R)
<1>1. /\ m.base = "rows" /\ m.by = {} /\ m.each = {} /\ m.agg = "none"
  BY DEF SymmetricDifference, Metric
<1> HIDE DEF m
<1>2. x \in Nat /\ y = x
  BY RowsApartCount
<1>3. /\ IsFiniteSet(X) /\ Cardinality(X) = x
      /\ IsFiniteSet(Y) /\ Cardinality(Y) = x
      /\ IsFiniteSet(Z) /\ Cardinality(Z) = x
  BY <1>1, <1>2, RowsMissing
<1>4. Differences(m, L, R) = Sides(X, Y) /\ Differences(n, L, R) = Sides(Z, {})
  BY <1>1 DEF Differences
<1>5. IsFiniteSet({}) /\ Cardinality({}) = 0
  BY FS_EmptySet
<1> HIDE DEF X, Y, Z, x, y
<1>6. IsFiniteSet(Sides(X, Y)) /\ Cardinality(Sides(X, Y)) = x + x
  BY <1>3, SidesCount
<1>7. IsFiniteSet(Sides(Z, {})) /\ Cardinality(Sides(Z, {})) = x
  <2>1. IsFiniteSet(Sides(Z, {})) /\ Cardinality(Sides(Z, {})) = x + 0
    BY <1>3, <1>5, SidesCount
  <2> QED BY <1>2, <2>1
<1>8. Apart(m, L, R) = (x + x) * (x + x) /\ Apart(n, L, R) = x * x
  <2>1. \A D : Pairs(FALSE, D) = D \X D
    BY DEF Pairs
  <2>2. /\ Apart(m, L, R) = Cardinality(Pairs(FALSE, Sides(X, Y)))
        /\ Apart(n, L, R) = Cardinality(Pairs(FALSE, Sides(Z, {})))
    BY <1>1, <1>4 DEF Apart
  <2>3. Cardinality(Sides(X, Y) \X Sides(X, Y)) = (x + x) * (x + x)
    BY <1>6, FS_Product
  <2>4. Cardinality(Sides(Z, {}) \X Sides(Z, {})) = x * x
    BY <1>7, FS_Product
  <2> QED BY <2>1, <2>2, <2>3, <2>4
<1>9. (x + x) * (x + x) = 4 * (x * x) /\ 4 * (x * x) \in Nat
  BY <1>2
<1> QED BY <1>8, <1>9 DEF m

LEMMA HammingIsStable ==
  ASSUME TableInv, Stable, HammingDistanceToSymmetricDifference
  PROVE  Stable'
<1> DEFINE L == left[<<>>]
           R == right[<<>>]
           m == SymmetricDifference
<1>1. metric = HammingDistance /\ Chained(L, R, schema, m, Scaled(bound, 4))
  BY DEF HammingDistanceToSymmetricDifference, Chain, ChainParts, Same, Chained
<1>2. IsTable(L) /\ IsTable(R)
  BY <1>1, InHandFacts
<1>3. /\ m.base = "rows" /\ m.over = "table" /\ IsMetric(m) /\ metric.base = "hamming"
      /\ metric.by = {} /\ metric.each = {} /\ metric.agg # "l2"
  BY <1>1, PlainMetric DEF SymmetricDifference, HammingDistance, Metric
<1>4. ASSUME bound # Infinite, Comparable(metric, L, R)
      PROVE  Comparable(m, L, R) /\ Apart(m, L, R) <= 4 * Apart(metric, L, R)
  BY <1>1, <1>2, <1>3, <1>4, HammingCounts DEF Comparable
<1>5. 4 \in Nat
  OBVIOUS
<1> HIDE DEF m
<1> QED BY <1>1, <1>2, <1>3, <1>4, <1>5, StableStep DEF L, R

-----------------------------------------------------------------------------
(* Public joins *)

(* A public table without rows to join makes the stability of a left join  *)
(* 0, although unmatched rows stay.                                        *)
PublicRows == \A p \in PublicTables : \E r \in DOMAIN p.rows : Null \notin Range(r)

LEMMA SingleRow ==
  ASSUME NEW x
  PROVE  NumRows(SetToBag({x})) = 1
<1>1. DOMAIN SetToBag({x}) = {x} /\ SetToBag({x})[x] = 1
  BY DEF SetToBag
<1> DEFINE T == SetToBag({x})
<1> HIDE DEF T
<1>2. \A y : y \in Copies(T) <=> y = <<x, 1>>
  BY <1>1 DEF Copies, BagToSet, T
<1>3. Copies(T) = {<<x, 1>>}
  BY <1>2
<1> QED BY <1>3, FS_Singleton DEF NumRows, T

LEMMA NoRows == NumRows(EmptyBag) = 0
<1>1. Copies(EmptyBag) = {}
  BY DEF Copies, BagToSet, EmptyBag, SetToBag
<1> QED BY <1>1, FS_EmptySet DEF NumRows

LEMMA SomeRows ==
  ASSUME NEW T, IsTable(T), NEW r \in DOMAIN T
  PROVE  NumRows(T) >= 1
<1>1. T[r] \in Nat \ {0}
  BY DEF IsTable, IsABag
<1>2. <<r, 1>> \in Copies(T)
  BY <1>1, CopiesOfTable
<1>3. IsFiniteSet(Copies(T)) /\ Copies(T) # {}
  BY <1>2, CopiesOfTable
<1>4. Cardinality(Copies(T)) \in Nat /\ Cardinality(Copies(T)) # 0
  BY <1>3, FS_CardinalityType, FS_EmptySet
<1> QED BY <1>4 DEF NumRows

(* No key of the public table has more rows than its join stability.       *)
LEMMA JoinStabilityBounds ==
  ASSUME PublicRows, NEW p \in PublicTables, NEW on \in SUBSET DOMAIN p.schema, NEW nulls,
         metric.each = {}
  PROVE  /\ JoinStability(p, on, nulls) >= 1
         /\ \A k \in Keys(p.rows, on) : (nulls \/ Null \notin Range(k)) =>
              NumRows(Group(p.rows, on, k)) <= JoinStability(p, on, nulls)
<1> DEFINE keys == {k \in Keys(p.rows, on) : nulls \/ Null \notin Range(k)}
           of(k) == NumRows(Group(p.rows, on, k))
           S == {0} \cup {of(k) : k \in keys}
<1>1. IsTable(p.rows)
  BY PublicTablesAssumption
<1>2. \A k : of(k) \in Nat /\ of(k) <= NumRows(p.rows)
  BY <1>1, NoMoreRows DEF Group, Where, RestrictDomain
<1>3. NumRows(p.rows) \in Int /\ NumRows(p.rows) >= 0
  BY <1>1, CopiesOfTable
<1>4. S \in SUBSET Int /\ S \in SUBSET Nat /\ S # {} /\ \A x \in S : x <= NumRows(p.rows)
  <2> HIDE DEF of, keys
  <2>1. \A x \in S : x = 0 \/ \E k : x = of(k)
    OBVIOUS
  <2>2. 0 \in S
    OBVIOUS
  <2> HIDE DEF S
  <2> QED BY <1>2, <1>3, <2>1, <2>2
<1>5. JoinStability(p, on, nulls) = Max(S)
  BY Zenon DEF JoinStability
<1>6. \A k \in keys : of(k) \in S
  OBVIOUS
<1>7. PICK r \in DOMAIN p.rows : Null \notin Range(r)
  BY DEF PublicRows
<1>8. Restrict(r, on) \in keys
  <2>1. Restrict(r, on) \in Keys(p.rows, on)
    BY DEF Keys, BagToSet
  <2>2. on \subseteq DOMAIN r
    BY PublicTablesAssumption DEF InDomain, BagToSet, ValidRow
  <2>3. Null \notin Range(Restrict(r, on))
    BY <1>7, <2>2 DEF Restrict, Range
  <2> QED BY <2>1, <2>3
<1> HIDE DEF S, keys
<1>9. of(Restrict(r, on)) >= 1
  <2>1. /\ IsTable(Group(p.rows, on, Restrict(r, on)))
        /\ r \in DOMAIN Group(p.rows, on, Restrict(r, on))
    BY <1>1, GroupIsTable
  <2> QED BY <2>1, SomeRows
<1> HIDE DEF of
<1>10. \E n \in S : \A x \in S : x <= n
  BY <1>3, <1>4, LargestExists
<1>11. Max(S) \in S /\ \A x \in S : x <= Max(S)
  <2>1. \E n \in S : \A x \in S : n >= x
    BY <1>4, <1>10
  <2> QED BY <1>4, <2>1 DEF Max
<1>12. /\ JoinStability(p, on, nulls) >= 1
       /\ \A k \in keys : of(k) <= JoinStability(p, on, nulls)
  <2>1. of(Restrict(r, on)) <= Max(S) /\ of(Restrict(r, on)) \in Nat /\ Max(S) \in Nat
    BY <1>2, <1>4, <1>6, <1>8, <1>11
  <2>2. Max(S) >= 1
    BY <1>9, <2>1
  <2> QED BY <1>5, <1>6, <1>11, <2>2
<1> QED BY <1>12 DEF keys, of

(* The rows that a row is joined to.                                       *)
LEMMA JoinedRowsKeep ==
  ASSUME NEW ls, NEW rs, NEW on, Joinable(ls, rs, on), NEW R, NEW a, NEW how, NEW nulls
  PROVE  LET rows == JoinedRows(R, a, DOMAIN ls, DOMAIN rs, on, how, nulls)
         IN \A x \in DOMAIN rows : \A c \in DOMAIN ls :
              (c \in on \/ c \notin DOMAIN rs) => x[c] = a[c]
<1> DEFINE P == Partners(R, a, on, nulls)
           f == [x \in Copies(P) |-> JoinedRow(a, x[1], DOMAIN ls, DOMAIN rs, on)]
           none == JoinedRow(a, <<>>, DOMAIN ls, DOMAIN rs, on)
           rows == JoinedRows(R, a, DOMAIN ls, DOMAIN rs, on, how, nulls)
<1>1. rows \in {SetToBag({none}), EmptyBag, Tally(f)}
  BY Zenon DEF JoinedRows
<1>2. DOMAIN SetToBag({none}) = {none} /\ DOMAIN EmptyBag = {}
  BY DEF SetToBag, EmptyBag
<1>3. \A x \in DOMAIN Tally(f) : \E b : x = JoinedRow(a, b, DOMAIN ls, DOMAIN rs, on)
  BY DEF Tally, Range
<1>4. \A x \in DOMAIN rows : \E b : x = JoinedRow(a, b, DOMAIN ls, DOMAIN rs, on)
  <2> HIDE DEF rows, f
  <2> QED BY <1>1, <1>2, <1>3
<1>5. \A b : \A c \in DOMAIN ls : (c \in on \/ c \notin DOMAIN rs) =>
        JoinedRow(a, b, DOMAIN ls, DOMAIN rs, on)[c] = a[c]
  BY KeptName, CellsOfJoin
<1> HIDE DEF rows
<1> QED BY <1>4, <1>5 DEF rows

LEMMA JoinedRowsBound ==
  ASSUME PublicRows, NEW p \in PublicTables, NEW on, Joinable(schema, p.schema, on),
         NEW nulls, metric.each = {}, NEW a, ValidRow(a, schema), NEW how
  PROVE  NumRows(JoinedRows(p.rows, a, DOMAIN schema, DOMAIN p.schema, on, how, nulls))
           <= JoinStability(p, on, nulls)
<1> DEFINE P == Partners(p.rows, a, on, nulls)
           f == [x \in Copies(P) |-> JoinedRow(a, x[1], DOMAIN schema, DOMAIN p.schema, on)]
           none == JoinedRow(a, <<>>, DOMAIN schema, DOMAIN p.schema, on)
           k == Restrict(a, on)
           d == JoinStability(p, on, nulls)
           rows == JoinedRows(p.rows, a, DOMAIN schema, DOMAIN p.schema, on, how, nulls)
<1>1. /\ on \in SUBSET DOMAIN p.schema /\ on \subseteq DOMAIN a /\ on # {}
      /\ IsTable(p.rows) /\ \A b \in DOMAIN p.rows : DOMAIN b = DOMAIN p.schema
  BY PublicTablesAssumption DEF Joinable, ValidateJoin, ValidRow, InDomain, BagToSet
<1>2. /\ d >= 1 /\ d \in Nat
      /\ \A j \in Keys(p.rows, on) : (nulls \/ Null \notin Range(j)) =>
           NumRows(Group(p.rows, on, j)) <= d
  BY <1>1, JoinStabilityBounds, JoinStabilityType
<1>3. CASE P = EmptyBag
  <2>1. rows \in {SetToBag({none}), EmptyBag}
    BY <1>3, Zenon DEF JoinedRows
  <2>2. NumRows(SetToBag({none})) = 1 /\ NumRows(EmptyBag) = 0
    BY SingleRow, NoRows
  <2> HIDE DEF rows, d, none
  <2> QED BY <1>2, <2>1, <2>2 DEF rows, d
<1>4. CASE P # EmptyBag
  <2>1. rows = Tally(f)
    BY <1>4, Zenon DEF JoinedRows
  <2>2. /\ IsTable(P) /\ IsFiniteSet(Copies(P))
        /\ DOMAIN P = {b \in DOMAIN p.rows : Matches(a, b, on, nulls)}
    BY <1>1, RestrictIsTable, CopiesOfTable DEF Partners
  <2>3. DOMAIN P # {}
    <3>1. EmptyBag = [x \in {} |-> 1]
      BY DEF EmptyBag, SetToBag
    <3>2. P = [x \in DOMAIN P |-> P[x]]
      BY DEF Partners, Restrict
    <3> QED BY <1>4, <3>1, <3>2
  <2>4. PICK b \in DOMAIN p.rows : Matches(a, b, on, nulls)
    BY <2>2, <2>3
  <2>5. Restrict(b, on) = k /\ (nulls \/ Null \notin Range(k))
    BY <1>1, <2>4 DEF Matches, Restrict, Range
  <2>6. k \in Keys(p.rows, on)
    BY <2>5 DEF Keys, BagToSet
  <2>7. \A b1 \in DOMAIN p.rows : Matches(a, b1, on, nulls) => Restrict(b1, on) = k
    BY DEF Matches, Restrict
  <2>8. \A b1 \in DOMAIN p.rows : Restrict(b1, on) = k => Matches(a, b1, on, nulls)
    <3> SUFFICES ASSUME NEW b1 \in DOMAIN p.rows, Restrict(b1, on) = k, NEW c \in on
                 PROVE  a[c] = b1[c] /\ (nulls \/ a[c] # Null)
      BY DEF Matches
    <3>1. Restrict(b1, on)[c] = b1[c] /\ k[c] = a[c]
      BY DEF Restrict
    <3> QED BY <2>4, <3>1 DEF Matches
  <2>9. P = Group(p.rows, on, k)
    BY <2>7, <2>8 DEF Partners, Group, Where, RestrictDomain, Restrict
  <2>10. NumRows(P) <= d
    BY <1>2, <2>5, <2>6, <2>9
  <2>11. NumRows(Tally(f)) = NumRows(P)
    <3>1. DOMAIN f = Copies(P)
      OBVIOUS
    <3> HIDE DEF f, P
    <3> QED BY <2>2, <3>1, TallyRows DEF NumRows
  <2> HIDE DEF rows, P, f, d
  <2> QED BY <2>1, <2>10, <2>11 DEF rows, d
<1> QED BY <1>3, <1>4

LEMMA PublicJoinIsStable ==
  ASSUME PublicRows, TableInv, Stable, GroupsStay, NEW how, PublicJoinAs(how)
  PROVE  Stable'
<1> DEFINE J(T, p, on, nulls) ==
             Join(T, p.rows, DOMAIN schema, DOMAIN p.schema, on, how, nulls)
           d(p, on, nulls) == JoinStability(p, on, nulls)
           rows(p, on, nulls, a) ==
             JoinedRows(p.rows, a, DOMAIN schema, DOMAIN p.schema, on, how, nulls)
<1>1. PICK p \in PublicTables, nulls \in BOOLEAN :
        \E on \in SUBSET (DOMAIN schema \cap DOMAIN p.schema) :
          /\ metric = SymmetricDifference \/ GroupsRows(metric)
          /\ ValidateJoin(schema, p.schema, on)
          /\ CanJoin(DOMAIN schema, DOMAIN p.schema, on)
          /\ IsIfGroupedBy(metric) => Columns(metric) \cap (DOMAIN p.schema \ on) = {}
          /\ Chained(J(left[<<>>], p, on, nulls), J(right[<<>>], p, on, nulls),
                     DomainAfterJoin(schema, p.schema, on, how, nulls), metric,
                     Scaled(bound, d(p, on, nulls) * d(p, on, nulls)))
  BY DEF PublicJoinAs, Chain, ChainParts, Chained
<1>2. PICK on \in SUBSET (DOMAIN schema \cap DOMAIN p.schema) :
        /\ metric = SymmetricDifference \/ GroupsRows(metric)
        /\ ValidateJoin(schema, p.schema, on)
        /\ CanJoin(DOMAIN schema, DOMAIN p.schema, on)
        /\ IsIfGroupedBy(metric) => Columns(metric) \cap (DOMAIN p.schema \ on) = {}
        /\ Chained(J(left[<<>>], p, on, nulls), J(right[<<>>], p, on, nulls),
                   DomainAfterJoin(schema, p.schema, on, how, nulls), metric,
                   Scaled(bound, d(p, on, nulls) * d(p, on, nulls)))
  BY <1>1
<1> DEFINE s == DomainAfterJoin(schema, p.schema, on, how, nulls)
           k == d(p, on, nulls)
           B == [a \in DOMAIN left[<<>>] |-> rows(p, on, nulls, a)]
           E == [a \in DOMAIN right[<<>>] |-> rows(p, on, nulls, a)]
<1>3. Joinable(schema, p.schema, on) /\ Legal(p.rows, p.schema)
  BY <1>2, PublicTablesAssumption DEF Joinable, Legal, TableInv
<1>4. k \in Nat
  BY JoinStabilityType
<1>5. metric.each # {} => metric.by = {} /\ k = 1
  <2>1. metric = SymmetricDifference => metric.each = {}
    BY DEF SymmetricDifference, Metric
  <2> QED BY <1>2, <2>1, RowOrGroupMetric DEF JoinStability
<1>6. /\ J(left[<<>>], p, on, nulls) = Flattened(left[<<>>], B)
      /\ J(right[<<>>], p, on, nulls) = Flattened(right[<<>>], E)
  BY JoinIsFlattened
<1>7. ASSUME NEW a, ValidRow(a, schema)
      PROVE  /\ IsTable(rows(p, on, nulls, a))
             /\ IsIfGroupedBy(metric) => \A c \in Columns(metric) :
                  \A x \in DOMAIN rows(p, on, nulls, a) : x[c] = a[c]
             /\ metric.each = {} /\ PublicRows => NumRows(rows(p, on, nulls, a)) <= k
  <2>1. IsTable(rows(p, on, nulls, a))
    BY <1>3, <1>7, JoinedRowsAreLegal DEF Legal
  <2>2. \A x \in DOMAIN rows(p, on, nulls, a) : \A c \in DOMAIN schema :
              (c \in on \/ c \notin DOMAIN p.schema) => x[c] = a[c]
    BY <1>3, JoinedRowsKeep
  <2>3. metric.each = {} => NumRows(rows(p, on, nulls, a)) <= k
    BY <1>3, <1>7, JoinedRowsBound
  <2>4. IsIfGroupedBy(metric) => \A c \in Columns(metric) :
          c \in DOMAIN schema /\ (c \in on \/ c \notin DOMAIN p.schema)
    BY <1>2, ColumnsOfGroups
  <2> HIDE DEF rows, k
  <2> QED BY <2>1, <2>2, <2>3, <2>4
<1>8. /\ \A r \in DOMAIN left[<<>>] : B[r] = rows(p, on, nulls, r)
      /\ \A r \in DOMAIN right[<<>>] : E[r] = rows(p, on, nulls, r)
  OBVIOUS
<1>9. /\ \A r \in DOMAIN left[<<>>] : ValidRow(r, schema)
      /\ \A r \in DOMAIN right[<<>>] : ValidRow(r, schema)
  BY <1>2, InHandFacts
<1>10. Chained(Flattened(left[<<>>], B), Flattened(right[<<>>], E), s, metric,
               Scaled(bound, k * k))
  BY <1>2, <1>6
<1> HIDE DEF J, d, rows, B, E, s, k
<1>11. /\ \A r \in DOMAIN left[<<>>] : IsTable(B[r])
       /\ \A r \in DOMAIN right[<<>>] : IsTable(E[r])
       /\ \A r \in DOMAIN left[<<>>] : r \in DOMAIN right[<<>>] => B[r] = E[r]
  BY <1>7, <1>8, <1>9
<1>12. IsIfGroupedBy(metric) => \A c \in Columns(metric) :
           /\ \A r \in DOMAIN left[<<>>] : \A x \in DOMAIN B[r] : x[c] = r[c]
           /\ \A r \in DOMAIN right[<<>>] : \A x \in DOMAIN E[r] : x[c] = r[c]
  BY <1>7, <1>8, <1>9
<1>13. metric.each = {} => /\ \A r \in DOMAIN left[<<>>] : NumRows(B[r]) <= k
                           /\ \A r \in DOMAIN right[<<>>] : NumRows(E[r]) <= k
  BY <1>7, <1>8, <1>9
<1>14. metric.each # {} => Scaled(bound, k * k) = bound
  BY <1>5, RowOrGroupMetric
<1> QED BY <1>2, <1>4, <1>10, <1>11, <1>12, <1>13, <1>14, FlattenedIsStable

-----------------------------------------------------------------------------
(* Renamed columns *)

(* Groups that differ after columns were renamed differed before.          *)
LEMMA RenamedGroupsFollow ==
  ASSUME NEW s, NEW name, \A c, d \in DOMAIN s : name[c] = name[d] => c = d,
         NEW L, Legal(L, s), NEW R, Legal(R, s),
         NEW n, n.by = {}, n.each # {}, n.each \subseteq DOMAIN s, n.agg # "l2",
         NEW m, m.by = {}, m.each = {name[c] : c \in n.each},
         NEW f, DOMAIN f = Copies(L), \A y \in Copies(L) : f[y] = Renaming(y[1], name),
         NEW g, DOMAIN g = Copies(R), \A y \in Copies(R) : g[y] = Renaming(y[1], name),
         NEW names
  PROVE  Follows(1, m, Tally(f), Tally(g), n, L, R, names)
<1> DEFINE e == Restrict(<<>>, {})
           of(j) == [c \in n.each |-> j[name[c]]]
           X == Missing(m, Tally(f), Tally(g))
           Y == Missing(n, L, R)
           h == [d \in X |-> <<e, of(d[2])>>]
<1>1. /\ IsTable(L) /\ IsTable(R)
      /\ IsFiniteSet(DOMAIN f) /\ IsFiniteSet(DOMAIN g)
      /\ IsTable(Tally(f)) /\ IsTable(Tally(g)) /\ DOMAIN Tally(f) = Range(f)
      /\ \A y \in Copies(L) : y[1] \in DOMAIN L /\ ValidRow(y[1], s)
  <2>1. IsTable(L) /\ IsTable(R)
    BY DEF Legal
  <2>2. IsFiniteSet(DOMAIN f) /\ IsFiniteSet(DOMAIN g)
    BY <2>1, CopiesOfTable
  <2>3. \A y \in Copies(L) : y[1] \in DOMAIN L /\ ValidRow(y[1], s)
    BY <2>1, CopiesOfTable, LegalRow
  <2> QED BY <2>1, <2>2, <2>3, TallyIsTable
<1>2. /\ \A d \in X : d = <<d[1], d[2]>>
      /\ \A k, j : <<k, j>> \in X <=>
           /\ k = Restrict(<<>>, {})
           /\ j \in Keys(Tally(f), m.each)
           /\ ~ AgreeAt(Tally(f), Tally(g), m.each, j)
  <2>1. m.each # {}
    OBVIOUS
  <2> QED BY <1>1, <2>1, MissingAlone
<1>3. \A k, j : <<k, j>> \in Y <=>
           /\ k = Restrict(<<>>, {})
           /\ j \in Keys(L, n.each)
           /\ ~ AgreeAt(L, R, n.each, j)
  BY <1>1, MissingAlone
<1>4. ASSUME NEW r, ValidRow(r, s), NEW c \in n.each
      PROVE  Renaming(r, name)[name[c]] = r[c]
  <2> DEFINE x == CHOOSE y \in DOMAIN r : name[y] = name[c]
  <2>1. DOMAIN r = DOMAIN s
    BY <1>4 DEF ValidRow
  <2>2. x \in DOMAIN r /\ name[x] = name[c]
    BY <2>1
  <2>3. Renaming(r, name)[name[c]] = r[x]
    BY <2>1 DEF Renaming
  <2> HIDE DEF x
  <2> QED BY <2>1, <2>2, <2>3
<1>5. ASSUME NEW j \in Keys(Tally(f), m.each)
      PROVE  /\ of(j) \in Keys(L, n.each)
             /\ j = [c \in m.each |-> j[c]]
  <2>1. PICK y \in DOMAIN f : j = Restrict(f[y], m.each)
    <3>1. PICK x \in Range(f) : j = Restrict(x, m.each)
      BY <1>1 DEF Keys, BagToSet
    <3> QED BY <3>1 DEF Range
  <2>2. j = [c \in m.each |-> f[y][c]]
    BY <2>1 DEF Restrict
  <2>3. \A c \in n.each : j[name[c]] = y[1][c]
    BY <1>1, <1>4, <2>2
  <2>4. of(j) = Restrict(y[1], n.each)
    BY <2>3 DEF Restrict
  <2> HIDE DEF of
  <2>5. of(j) \in Keys(L, n.each)
    BY <1>1, <2>4 DEF Keys, BagToSet
  <2>6. j = [c \in m.each |-> j[c]]
    BY <2>2
  <2> QED BY <2>5, <2>6
<1>6. ASSUME NEW j, AgreeAt(L, R, n.each, of(j))
      PROVE  AgreeAt(Tally(f), Tally(g), m.each, j)
  <2> DEFINE C == n.each
             D == m.each
             k == [c \in C |-> j[name[c]]]
  <2>1. k = [c \in C |-> k[c]] /\ AgreeAt(L, R, C, k) /\ C \in SUBSET DOMAIN s
    BY <1>6
  <2>2. \A c \in C : name[c] \in D /\ j[name[c]] = k[c]
    OBVIOUS
  <2>3. /\ \A x, y \in DOMAIN s : name[x] = name[y] => x = y
        /\ DOMAIN f = Copies(L) /\ \A y \in Copies(L) : f[y] = Renaming(y[1], name)
        /\ DOMAIN g = Copies(R) /\ \A y \in Copies(R) : g[y] = Renaming(y[1], name)
        /\ Legal(L, s) /\ Legal(R, s)
    OBVIOUS
  <2>4. AgreeAt(Tally(f), Tally(g), D, j)
    <3> HIDE DEF C, D, k, of, X, Y, h, e
    <3> QED BY <2>1, <2>2, <2>3, RenameAgrees
  <2> QED BY <2>4
<1>7. ASSUME NEW d \in X PROVE h[d] \in Y
  <2>1. /\ d[2] \in Keys(Tally(f), m.each)
        /\ ~ AgreeAt(Tally(f), Tally(g), m.each, d[2])
    BY <1>2
  <2>2. of(d[2]) \in Keys(L, n.each) /\ ~ AgreeAt(L, R, n.each, of(d[2]))
    BY <1>5, <1>6, <2>1
  <2>3. h[d] = <<e, of(d[2])>>
    OBVIOUS
  <2> HIDE DEF of, h
  <2> QED BY <1>3, <2>2, <2>3
<1>8. ASSUME NEW x \in X, NEW y \in X, h[x] = h[y]
      PROVE  x = y
  <2>1. /\ x = <<e, x[2]>> /\ x[2] \in Keys(Tally(f), m.each)
        /\ y = <<e, y[2]>> /\ y[2] \in Keys(Tally(f), m.each)
    BY <1>2
  <2>2. of(x[2]) = of(y[2])
    BY <1>8
  <2>3. \A c \in n.each : x[2][name[c]] = y[2][name[c]]
    BY <2>2
  <2>4. x[2] = [c \in m.each |-> x[2][c]] /\ y[2] = [c \in m.each |-> y[2][c]]
    BY <1>5, <2>1
  <2>5. x[2] = y[2]
    BY <2>3, <2>4
  <2> QED BY <2>1, <2>5
<1>9. h \in [X -> Y]
  BY <1>7
<1> HIDE DEF h, X, Y
<1>10. Fans(h, 1, X, Y)
  BY <1>8, <1>9, InjectionFans
<1> QED BY <1>10 DEF Follows, X, Y

LEMMA RenameIsStable ==
  ASSUME TableInv, Stable, Rename
  PROVE  Stable'
<1>1. PICK old \in DOMAIN schema, new \in NewColumns \ DOMAIN schema :
        LET name == [c \in DOMAIN schema |-> IF c = old THEN new ELSE c]
        IN /\ IsIfGroupedBy(metric) => GroupsRows(metric)
           /\ Chained(Tally([x \in Copies(left[<<>>]) |-> Renaming(x[1], name)]),
                      Tally([x \in Copies(right[<<>>]) |-> Renaming(x[1], name)]),
                      Renaming(schema, name), RenamedMetric(metric, name), bound)
  BY DEF Rename, Chain, ChainParts, Mapped, Chained
<1> DEFINE name == [c \in DOMAIN schema |-> IF c = old THEN new ELSE c]
           f == [x \in Copies(left[<<>>]) |-> Renaming(x[1], name)]
           g == [x \in Copies(right[<<>>]) |-> Renaming(x[1], name)]
           m == RenamedMetric(metric, name)
<1>2. /\ IsIfGroupedBy(metric) => GroupsRows(metric)
      /\ Chained(Tally(f), Tally(g), Renaming(schema, name), m, bound)
  BY <1>1
<1>3. /\ DOMAIN f = Copies(left[<<>>]) /\ \A y \in Copies(left[<<>>]) : f[y] = Renaming(y[1], name)
      /\ DOMAIN g = Copies(right[<<>>]) /\ \A y \in Copies(right[<<>>]) : g[y] = Renaming(y[1], name)
      /\ \A c, d \in DOMAIN schema : name[c] = name[d] => c = d
  OBVIOUS
<1> HIDE DEF name, f, g
<1>4. /\ IsMetric(metric) /\ metric.over = "table"
      /\ Legal(left[<<>>], schema) /\ Legal(right[<<>>], schema)
      /\ IsTable(left[<<>>]) /\ IsTable(right[<<>>])
      /\ \A y \in DOMAIN f : ValidRow(y[1], schema)
      /\ \A y \in DOMAIN g : ValidRow(y[1], schema)
      /\ IsFiniteSet(DOMAIN f) /\ IsFiniteSet(DOMAIN g)
  BY <1>2, <1>3, InHandFacts
<1>5. metric.by \subseteq DOMAIN schema /\ metric.each \subseteq DOMAIN schema
  BY DEF TableInv, TypeOK, SupportsDomain
<1>6. /\ m.by = {name[c] : c \in metric.by} /\ m.each = {name[c] : c \in metric.each}
      /\ m.base = metric.base /\ m.agg = metric.agg /\ m.over = "table"
      /\ DOMAIN m = DOMAIN metric
  <2>1. {"by", "each"} \subseteq DOMAIN metric
    BY <1>4 DEF IsMetric, SymmetricDifference, Metric
  <2> QED BY <1>4, <2>1 DEF RenamedMetric
<1> HIDE DEF m
<1>7. IsMetric(m)
  <2>1. \A S : {name[c] : c \in S} = {} <=> S = {}
    BY Zenon
  <2>2. (m.by = {} <=> metric.by = {}) /\ (m.each = {} <=> metric.each = {})
    BY <1>6, <2>1, Zenon
  <2> QED BY <1>4, <1>6, <2>2 DEF IsMetric, IsIfGroupedBy
<1>8. ASSUME NEW r, ValidRow(r, schema), NEW c \in DOMAIN schema
      PROVE  Renaming(r, name)[name[c]] = r[c]
  <2> DEFINE x == CHOOSE y \in DOMAIN r : name[y] = name[c]
  <2>1. DOMAIN r = DOMAIN schema
    BY <1>8 DEF ValidRow
  <2>2. x \in DOMAIN r /\ name[x] = name[c]
    BY <2>1
  <2>3. Renaming(r, name)[name[c]] = r[x]
    BY <2>1 DEF Renaming
  <2> HIDE DEF x
  <2> QED BY <1>3, <2>1, <2>2, <2>3
<1>9. CASE metric.each = {}
  <2> DEFINE a == Itself(Copies(left[<<>>]))
             b == Itself(Copies(right[<<>>]))
  <2>1. /\ \A y \in DOMAIN f : y \in DOMAIN g => g[y] = f[y]
        /\ \A y \in DOMAIN g : y \in DOMAIN f => f[y] = g[y]
    BY <1>3
  <2>2. IsSource(a, 1, f, g, left[<<>>], right[<<>>])
    BY <1>3, <1>4, <2>1, MappedSource
  <2>3. IsSource(b, 1, g, f, right[<<>>], left[<<>>])
    BY <1>3, <1>4, <2>1, MappedSource
  <2>4. (\A y \in DOMAIN f : a[y] = y) /\ (\A y \in DOMAIN g : b[y] = y)
    BY <1>3 DEF Itself
  <2> HIDE DEF a, b
  <2>5. /\ \A y \in DOMAIN f : \A c \in metric.by :
                                name[c] \in m.by /\ a[y][1][c] = f[y][name[c]]
        /\ \A y \in DOMAIN g : \A c \in metric.by :
                                name[c] \in m.by /\ b[y][1][c] = g[y][name[c]]
    BY <1>3, <1>4, <1>5, <1>6, <1>8, <2>4
  <2>6. /\ Cardinality(DOMAIN f) = NumRows(left[<<>>])
        /\ Cardinality(DOMAIN g) = NumRows(right[<<>>])
    BY <1>3 DEF NumRows
  <2>7. m.each = {} /\ bound = Scaled(bound, 1 * 1)
    BY <1>6, <1>9, RowOrGroupMetric
  <2>8. 1 \in Nat
    OBVIOUS
  <2>9. PICK k \in Nat : /\ IsSource(a, k, f, g, left[<<>>], right[<<>>])
                         /\ IsSource(b, k, g, f, right[<<>>], left[<<>>])
                         /\ bound = Scaled(bound, k * k)
    BY <2>2, <2>3, <2>7, <2>8
  <2> QED BY <1>2, <1>4, <1>6, <1>7, <1>9, <2>5, <2>6, <2>7, <2>9, RowsAreStable
<1>10. CASE metric.each # {}
  <2>1. metric.by = {} /\ metric.agg # "l2" /\ m.by = {} /\ metric.base # "hamming"
    BY <1>2, <1>6, <1>10, RowOrGroupMetric DEF IsIfGroupedBy
  <2>2. Follows(1, m, Tally(f), Tally(g), metric, left[<<>>], right[<<>>], name)
    BY <1>3, <1>4, <1>5, <1>6, <1>10, <2>1, RenamedGroupsFollow
  <2>3. Follows(1, m, Tally(g), Tally(f), metric, right[<<>>], left[<<>>], name)
    BY <1>3, <1>4, <1>5, <1>6, <1>10, <2>1, RenamedGroupsFollow
  <2>4. IsTable(Tally(f)) /\ IsTable(Tally(g))
    BY <1>4, TallyIsTable
  <2>5. Comparable(m, Tally(f), Tally(g))
    BY <1>6, <2>1 DEF Comparable
  <2>6. 1 \in Nat /\ bound = Scaled(bound, 1 * 1)
    BY RowOrGroupMetric
  <2>7. PICK k \in Nat : /\ Follows(k, m, Tally(f), Tally(g), metric, left[<<>>], right[<<>>], name)
                         /\ Follows(k, m, Tally(g), Tally(f), metric, right[<<>>], left[<<>>], name)
                         /\ bound = Scaled(bound, k * k)
    BY <2>2, <2>3, <2>6
  <2> QED BY <1>2, <1>6, <1>7, <2>1, <2>4, <2>5, <2>7, StableByFollowing
<1> QED BY <1>9, <1>10

-----------------------------------------------------------------------------
(* Functions of groups, and metrics unwrapped *)

LEMMA FlatMapByKeyIsStable ==
  ASSUME UserFunctions, TableInv, Stable, GroupsStay, FlatMapByKey
  PROVE  Stable'
<1>1. PICK key \in DOMAIN schema, t \in GroupTransformers :
        /\ metric = IfGroupedBy({key})
        /\ Chained(Flattened(SetToBag(Keys(left[<<>>], {key})), MadeOfKeys(left[<<>>], t, key)),
                   Flattened(SetToBag(Keys(right[<<>>], {key})), MadeOfKeys(right[<<>>], t, key)),
                   Extended(Restrict(schema, {key}), t.columns), metric, bound)
  BY DEF FlatMapByKey, Chain, ChainParts, FlatMapped, BagToSet, Mapped, Chained, Group,
         Where, RestrictDomain, MadeOfKeys, MadeOfKey, OfKey
<1>2. metric.by = {} /\ metric.each = {key} /\ metric.each # {}
  BY <1>1 DEF IfGroupedBy, Metric
<1>3. ASSUME NEW T, IsTable(T)
      PROVE  LET U == Flattened(SetToBag(Keys(T, {key})), MadeOfKeys(T, t, key))
             IN IsTable(U) /\ Keys(U, {key}) \subseteq Keys(T, {key})
  <2> DEFINE K == SetToBag(Keys(T, {key}))
             B == MadeOfKeys(T, t, key)
             f == [x \in Flat(K, B) |-> x[2][1]]
  <2>1. TableOfEach(T, t, key)
    BY <1>3, MadeOfKeysIsTable
  <2>2. /\ IsTable(K) /\ DOMAIN K = Keys(T, {key})
        /\ \A k \in DOMAIN K : IsTable(B[k]) /\ \A x \in DOMAIN B[k] : Restrict(x, {key}) = k
    BY <2>1, Zenon DEF TableOfEach
  <2> HIDE DEF K, B
  <2>3. \A k \in DOMAIN K : IsTable(B[k])
    BY <2>2
  <2>4. /\ IsFiniteSet(Flat(K, B))
        /\ Flattened(K, B) = Tally([x \in Flat(K, B) |-> x[2][1]])
        /\ \A x : x \in Flat(K, B) <=>
                    \E y \in Copies(K) : \E z \in Copies(B[y[1]]) : x = <<y, z>>
        /\ \A x \in Flat(K, B) : /\ x[1] \in Copies(K)
                                 /\ x[1][1] \in DOMAIN K
                                 /\ x[2] \in Copies(B[x[1][1]])
                                 /\ x[2][1] \in DOMAIN B[x[1][1]]
    BY Zenon, <2>2, <2>3, FlatCopies
  <2>5. /\ DOMAIN f = Flat(K, B) /\ Flattened(K, B) = Tally(f)
        /\ \A x \in DOMAIN f : Restrict(f[x], {key}) \in DOMAIN K
    BY <2>2, <2>4
  <2> HIDE DEF f
  <2>6. IsTable(Tally(f)) /\ DOMAIN Tally(f) = Range(f)
    BY <2>4, <2>5, TallyIsTable
  <2>7. \A x \in Range(f) : Restrict(x, {key}) \in DOMAIN K
    BY <2>5 DEF Range
  <2>8. Keys(Tally(f), {key}) \subseteq Keys(T, {key})
    BY <2>2, <2>6, <2>7 DEF Keys, BagToSet
  <2> QED BY <2>5, <2>6, <2>8 DEF K, B
<1>4. IsTable(left[<<>>]) /\ IsTable(right[<<>>])
  BY <1>1, InHandFacts
<1> QED BY <1>1, <1>2, <1>3, <1>4, StableByGroups

(* Truncation only drops rows.                                             *)
LEMMA TruncatedRows ==
  ASSUME NEW T, IsTable(T), NEW C, NEW n, NEW rank
  PROVE  /\ IsTable(TruncateLargeGroups(T, C, n, rank))
         /\ DOMAIN TruncateLargeGroups(T, C, n, rank) \subseteq DOMAIN T
<1> DEFINE group == [x \in DOMAIN rank |-> Restrict(x[1], C)]
           S == Kept(Copies(T), group, n, rank)
           f == [x \in S |-> x[1]]
<1>1. S \in SUBSET Copies(T)
  BY DEF Kept
<1>2. IsFiniteSet(Copies(T)) /\ \A x \in Copies(T) : x[1] \in DOMAIN T
  BY CopiesOfTable
<1>3. TruncateLargeGroups(T, C, n, rank) = Tally(f)
  BY DEF TruncateLargeGroups, Collected
<1> HIDE DEF S
<1>4. IsFiniteSet(S) /\ DOMAIN f = S /\ Range(f) \subseteq DOMAIN T
  BY <1>1, <1>2, FS_Subset DEF Range
<1> HIDE DEF f
<1> QED BY <1>3, <1>4, TallyIsTable

LEMMA LimitedRows ==
  ASSUME NEW T, IsTable(T), NEW C, NEW K, NEW n, NEW rank
  PROVE  /\ IsTable(LimitKeysPerGroup(T, C, K, n, rank))
         /\ DOMAIN LimitKeysPerGroup(T, C, K, n, rank) \subseteq DOMAIN T
<1> DEFINE group == [k \in DOMAIN rank |-> Restrict(k, C)]
           kept == Kept(Keys(T, C \cup K), group, n, rank)
           P == {r \in DOMAIN T : Restrict(r, C \cup K) \in kept}
<1>1. LimitKeysPerGroup(T, C, K, n, rank) = Restrict(T, P)
  BY DEF LimitKeysPerGroup, Where, RestrictDomain
<1>2. P \in SUBSET DOMAIN T
  OBVIOUS
<1> HIDE DEF P
<1>3. DOMAIN Restrict(T, P) = P
  BY DEF Restrict
<1> QED BY <1>1, <1>2, <1>3, RestrictIsTable

LEMMA FewerRowsAreStable ==
  ASSUME TableInv, Stable, GroupsStay, metric.by = {}, metric.each # {},
         NEW l, NEW r, NEW s, Chained(l, r, s, metric, bound), IsTable(l), IsTable(r),
         DOMAIN l \subseteq DOMAIN left[<<>>], DOMAIN r \subseteq DOMAIN right[<<>>]
  PROVE  Stable'
<1>1. /\ Keys(l, metric.each) \subseteq Keys(left[<<>>], metric.each)
      /\ Keys(r, metric.each) \subseteq Keys(right[<<>>], metric.each)
  BY DEF Keys, BagToSet
<1> QED BY <1>1, StableByGroups

(* The rows that differ are the same however they are grouped.             *)
LEMMA RegroupedFollow ==
  ASSUME NEW m, m.each = {}, NEW n, n.each = {}, n.agg # "l2",
         NEW L, IsTable(L), NEW R, IsTable(R), NEW name
  PROVE  Follows(1, m, L, R, n, L, R, name)
<1> DEFINE X == Missing(m, L, R)
           Y == Missing(n, L, R)
           h == [d \in X |-> <<Restrict(d[2][1], n.by), d[2]>>]
<1>1. \A d : d \in X <=> \E x \in ExceptAll(L, R) : d = <<Restrict(x[1], m.by), x>>
  BY MissingRows
<1>2. \A d : d \in Y <=> \E x \in ExceptAll(L, R) : d = <<Restrict(x[1], n.by), x>>
  BY MissingRows
<1> HIDE DEF X, Y
<1>3. \A d \in X : h[d] \in Y
  BY <1>1, <1>2
<1>4. \A x, y \in X : h[x] = h[y] => x = y
  <2> SUFFICES ASSUME NEW x \in X, NEW y \in X, h[x] = h[y] PROVE x = y
    OBVIOUS
  <2>1. x[2] = y[2]
    OBVIOUS
  <2> QED BY <1>1, <2>1
<1>5. h \in [X -> Y]
  BY <1>3
<1> HIDE DEF h
<1> QED BY <1>4, <1>5, InjectionFans DEF Follows, X, Y

(* Rows are no further apart, squared, than a metric's bound, squared once *)
(* more if the metric adds up squares.                                     *)
LEMMA UnwrappedApart ==
  ASSUME NEW p, IsMetric(p), p.base = "rows", p.each = {},
         NEW L, IsTable(L), NEW R, IsTable(R), NEW b \in Nat, Apart(p, L, R) <= b
  PROVE  Apart(SymmetricDifference, L, R) <= IF p.agg = "l2" THEN b * b ELSE b
<1> DEFINE m == SymmetricDifference
           n == [p EXCEPT !.agg = "sum"]
           name == Itself({})
           D == Differences(p, L, R)
<1>1. /\ m.base = "rows" /\ m.by = {} /\ m.each = {} /\ m.agg = "none" /\ IsMetric(m)
  BY PlainMetric DEF SymmetricDifference, Metric
<1>2. n.agg = "sum" /\ n.by = p.by /\ n.each = {} /\ n.base = "rows"
  BY DEF IsMetric, SymmetricDifference, Metric
<1>3. Differences(n, L, R) = D
  BY <1>2 DEF Differences, Missing
<1> HIDE DEF m, n, name
<1>4. /\ Follows(1, m, L, R, n, L, R, name)
      /\ Follows(1, m, R, L, n, R, L, name)
  BY <1>1, <1>2, RegroupedFollow
<1>5. Apart(m, L, R) <= Apart(n, L, R)
  <2>1. PICK k \in Nat : /\ k = 1
                         /\ Follows(k, m, L, R, n, L, R, name)
                         /\ Follows(k, m, R, L, n, R, L, name)
    BY <1>4
  <2>2. Apart(m, L, R) <= (k * k) * Apart(n, L, R)
    <3>1. n.agg = "l2" => m.agg = "l2"
      BY <1>2
    <3>2. m.base = n.base
      BY <1>1, <1>2
    <3> QED BY <2>1, <3>1, <3>2, FollowingApart
  <2>3. Apart(n, L, R) \in Nat
    BY ApartType
  <2> QED BY <2>1, <2>2, <2>3
<1>6. IsFiniteSet(D)
  BY DifferencesFinite
<1> HIDE DEF D
<1>7. Apart(n, L, R) = Cardinality(D) * Cardinality(D) /\ Cardinality(D) \in Nat
  <2>1. Apart(n, L, R) = Cardinality(Pairs(FALSE, D))
    BY <1>2, <1>3 DEF Apart
  <2>2. Pairs(FALSE, D) = D \X D
    BY DEF Pairs
  <2>3. Cardinality(D \X D) = Cardinality(D) * Cardinality(D)
    BY <1>6, FS_Product
  <2> QED BY <1>6, <2>1, <2>2, <2>3, FS_CardinalityType
<1>8. /\ Cardinality(D) <= Cardinality(Pairs(TRUE, D))
      /\ Cardinality(Pairs(TRUE, D)) \in Nat
  <2> DEFINE same == {<<x, x>> : x \in D}
             f == [x \in D |-> <<x, x>>]
  <2>1. f \in Bijection(D, same)
    BY DEF Bijection, Injection, Surjection, IsInjective
  <2>2. IsFiniteSet(same) /\ Cardinality(same) = Cardinality(D)
    <3> HIDE DEF f, same
    <3> QED BY <1>6, <2>1, FS_Bijection DEF ExistsBijection
  <2>3. same \in SUBSET Pairs(TRUE, D)
    BY DEF Pairs
  <2>4. IsFiniteSet(Pairs(TRUE, D)) /\ Cardinality(Pairs(TRUE, D)) \in Nat
    BY <1>6, PairsFinite
  <2> HIDE DEF same
  <2> QED BY <2>2, <2>3, <2>4, FS_Subset
<1>9. /\ p.agg = "l2" => Apart(p, L, R) = Cardinality(Pairs(TRUE, D))
      /\ p.agg # "l2" => Apart(p, L, R) = Apart(n, L, R)
  BY <1>2, <1>3 DEF Apart, D
<1>10. Apart(m, L, R) \in Nat /\ Apart(p, L, R) \in Nat
  BY ApartType
<1>11. PICK x \in Nat : x = Cardinality(D)
  BY <1>7
<1>12. CASE p.agg = "l2"
  <2>1. x <= b
    <3>1. PICK y \in Nat : y = Cardinality(Pairs(TRUE, D))
      BY <1>8
    <3>2. x <= y
      BY <1>8, <1>11, <3>1
    <3>3. Apart(p, L, R) = y
      BY <1>9, <1>12, <3>1
    <3> QED BY <3>2, <3>3
  <2>2. x * x <= b * b /\ x * x \in Nat /\ b * b \in Nat
    BY <2>1, ProductOfBounds
  <2> QED BY <1>5, <1>7, <1>10, <1>11, <1>12, <2>2 DEF m
<1>13. CASE p.agg # "l2"
  BY <1>5, <1>9, <1>10, <1>13 DEF m
<1> QED BY <1>12, <1>13

(* UnwrapIfGroupedBy is given metrics on rows only: of a metric on groups  *)
(* within groups, the groups would count once more than they did.          *)
UnwrapsRows == UnwrapEach \subseteq {{}}

LEMMA UnwrapIsStable ==
  ASSUME UnwrapsRows, TableInv, Stable, UnwrapIfGroupedBy
  PROVE  Stable'
<1> DEFINE L == left[<<>>]
           R == right[<<>>]
           m == Metric(metric.base, {}, "none", metric.each)
           d == IF metric.agg = "l2" THEN Square(bound) ELSE bound
<1>1. /\ metric.by # {} /\ metric.each = {}
      /\ Chained(L, R, schema, m, d)
  BY DEF UnwrapIfGroupedBy, Chain, ChainParts, Same, Chained, UnwrapsRows
<1>2. /\ IsMetric(metric) /\ metric.over = "table" /\ IsTable(L) /\ IsTable(R)
  BY <1>1, InHandFacts
<1>3. metric.base = "rows"
  BY <1>1, RowOrGroupMetric DEF IsIfGroupedBy
<1>4. /\ m.base = "rows" /\ m.by = {} /\ m.each = {} /\ m.agg = "none" /\ m.over = "table"
      /\ IsMetric(m)
  <2>1. m = SymmetricDifference
    BY <1>1, <1>3 DEF SymmetricDifference
  <2> QED BY <2>1, PlainMetric DEF SymmetricDifference, Metric
<1>5. bound \in Nat \cup {Infinite}
  BY DEF TableInv, TypeOK
<1>6. Comparable(m, L, R)
  BY <1>4 DEF Comparable
<1> HIDE DEF L, R
<1>7. ASSUME d # Infinite, bound # Infinite, Apart(metric, L, R) <= bound
      PROVE  Apart(m, L, R) <= d
  <2>1. bound \in Nat
    BY <1>5, <1>7
  <2>2. Apart(SymmetricDifference, L, R) <= IF metric.agg = "l2" THEN bound * bound ELSE bound
    BY <1>1, <1>2, <1>3, <1>7, <2>1, UnwrappedApart
  <2>3. m = SymmetricDifference
    BY <1>1, <1>3 DEF SymmetricDifference
  <2>4. d = IF metric.agg = "l2" THEN bound * bound ELSE bound
    BY <1>7 DEF Square
  <2> QED BY <2>2, <2>3, <2>4
<1>8. d \in Nat \cup {Infinite}
  <2>1. bound # Infinite => Square(bound) \in Nat
    BY <1>5 DEF Square
  <2>2. bound = Infinite => Square(bound) = Infinite
    BY DEF Square
  <2> QED BY <1>5, <2>1, <2>2
<1>9. d # Infinite => bound # Infinite
  BY DEF Square
<1> HIDE DEF d, m
<1> QED BY <1>1, <1>2, <1>4, <1>6, <1>7, <1>8, <1>9, StableIfClose DEF L, R

-----------------------------------------------------------------------------
(* Unique columns *)

(* ToString stands for a value that tells the copies of rows apart: no two *)
(* of the copies in hand get the same.                                     *)
UniqueIn(C) == \A x, y \in C : ToString(x) = ToString(y) => x = y
UniqueValues == UniqueIn(AllCopies)

WithUnique(x, col) == Extended(x[1], Only(col, ToString(x)))
Numbered(T, col) == SetToBag({WithUnique(x, col) : x \in Copies(T)})

LEMMA NumberedRows ==
  ASSUME NEW col, NEW T, IsTable(T), \A r \in DOMAIN T : col \notin DOMAIN r
  PROVE  /\ IsTable(Numbered(T, col))
         /\ \A x \in Copies(T) : Restrict(WithUnique(x, col), {col}) = Only(col, ToString(x))
         /\ \A r : r \in DOMAIN Numbered(T, col) <=> \E x \in Copies(T) : r = WithUnique(x, col)
         /\ \A r \in DOMAIN Numbered(T, col) : Numbered(T, col)[r] = 1
<1> DEFINE S == {WithUnique(x, col) : x \in Copies(T)}
           f == [x \in Copies(T) |-> WithUnique(x, col)]
<1>1. IsFiniteSet(Copies(T)) /\ \A x \in Copies(T) : x[1] \in DOMAIN T
  BY CopiesOfTable
<1>2. IsFiniteSet(S)
  <2>1. S = Range(f) /\ DOMAIN f = Copies(T)
    BY DEF Range
  <2> HIDE DEF f, S
  <2> QED BY <1>1, <2>1, FiniteRange
<1>3. \A x \in Copies(T) : WithUnique(x, col)[col] = ToString(x)
  BY <1>1 DEF WithUnique, Extended, Only
<1>4. \A x \in Copies(T) : Restrict(WithUnique(x, col), {col}) = Only(col, ToString(x))
  BY <1>3 DEF Restrict, Only
<1>5. \A r : r \in S <=> \E x \in Copies(T) : r = WithUnique(x, col)
  OBVIOUS
<1>6. Numbered(T, col) = SetToBag(S)
  BY DEF Numbered
<1> HIDE DEF S
<1>7. DOMAIN SetToBag(S) = S /\ \A r \in S : SetToBag(S)[r] = 1
  BY DEF SetToBag
<1>8. IsTable(SetToBag(S))
  BY <1>2, SetToBagIsTable
<1> QED BY <1>4, <1>5, <1>6, <1>7, <1>8

(* A number that one side misses was given to a copy that it misses.       *)
LEMMA NumberedFollow ==
  ASSUME NEW col, NEW L, IsTable(L), \A r \in DOMAIN L : col \notin DOMAIN r,
         NEW R, IsTable(R), \A r \in DOMAIN R : col \notin DOMAIN r,
         UniqueIn(Copies(L) \cup Copies(R)), NEW name
  PROVE  Follows(1, IfGroupedBy({col}), Numbered(L, col), Numbered(R, col),
                 SymmetricDifference, L, R, name)
<1> DEFINE m == IfGroupedBy({col})
           n == SymmetricDifference
           l == Numbered(L, col)
           r == Numbered(R, col)
           e == Restrict(<<>>, {})
           X == Missing(m, l, r)
           Y == Missing(n, L, R)
           of(j) == CHOOSE x \in Copies(L) : j = Only(col, ToString(x))
           h == [d \in X |-> <<e, of(d[2])>>]
<1>1. m.by = {} /\ m.each = {col} /\ m.each # {} /\ n.by = {} /\ n.each = {} /\ n.agg # "l2"
  BY DEF IfGroupedBy, SymmetricDifference, Metric
<1>2. /\ IsTable(Numbered(L, col))
      /\ \A x \in Copies(L) : Restrict(WithUnique(x, col), {col}) = Only(col, ToString(x))
      /\ \A y : y \in DOMAIN Numbered(L, col) <=> \E x \in Copies(L) : y = WithUnique(x, col)
      /\ \A y \in DOMAIN Numbered(L, col) : Numbered(L, col)[y] = 1
  BY NumberedRows
<1>3. /\ IsTable(Numbered(R, col))
      /\ \A x \in Copies(R) : Restrict(WithUnique(x, col), {col}) = Only(col, ToString(x))
      /\ \A y : y \in DOMAIN Numbered(R, col) <=> \E x \in Copies(R) : y = WithUnique(x, col)
      /\ \A y \in DOMAIN Numbered(R, col) : Numbered(R, col)[y] = 1
  BY NumberedRows
<1>4. /\ \A d \in X : d = <<d[1], d[2]>>
      /\ \A k, j : <<k, j>> \in X <=>
           /\ k = Restrict(<<>>, {})
           /\ j \in Keys(l, m.each)
           /\ ~ AgreeAt(l, r, m.each, j)
  <2> HIDE DEF m, l, r
  <2> QED BY <1>1, <1>2, <1>3, MissingAlone DEF l, r
<1>5. \A d : d \in Y <=> \E x \in ExceptAll(L, R) : d = <<e, x>>
  <2>1. \A d : d \in Y <=> \E x \in ExceptAll(L, R) : d = <<Restrict(x[1], n.by), x>>
    <3>1. n.each = {}
      BY <1>1
    <3> HIDE DEF n, m, l, r, e, X, h
    <3> QED BY <3>1, MissingRows
  <2>2. \A x : Restrict(x, n.by) = e
    BY <1>1 DEF Restrict
  <2> HIDE DEF Y, e, n
  <2> QED BY <2>1, <2>2
<1>6. \A x, y \in Copies(L) \cup Copies(R) :
        Only(col, ToString(x)) = Only(col, ToString(y)) => x = y
  <2>1. \A v : Only(col, v)[col] = v
    BY DEF Only
  <2> SUFFICES ASSUME NEW x \in Copies(L) \cup Copies(R), NEW y \in Copies(L) \cup Copies(R),
                      Only(col, ToString(x)) = Only(col, ToString(y))
               PROVE  x = y
    OBVIOUS
  <2>2. ToString(x) = ToString(y)
    BY <2>1
  <2> QED BY <2>2 DEF UniqueIn
<1>7. ASSUME NEW j \in Keys(l, m.each)
      PROVE  of(j) \in Copies(L) /\ j = Only(col, ToString(of(j)))
  <2>1. \E x \in Copies(L) : j = Only(col, ToString(x))
    BY <1>1, <1>2 DEF Keys, BagToSet
  <2> QED BY <2>1
<1> HIDE DEF of
<1>8. ASSUME NEW j \in Keys(l, m.each), of(j) \in Copies(R)
      PROVE  AgreeAt(l, r, m.each, j)
  <2> SUFFICES ASSUME NEW x, Restrict(x, {col}) = j
               PROVE  /\ x \in DOMAIN l <=> x \in DOMAIN r
                      /\ x \in DOMAIN l => l[x] = r[x]
    BY <1>1 DEF AgreeAt
  <2>1. x \in DOMAIN l <=> x = WithUnique(of(j), col)
    BY <1>2, <1>6, <1>7
  <2>2. x \in DOMAIN r <=> x = WithUnique(of(j), col)
    <3>1. ASSUME x \in DOMAIN r PROVE x = WithUnique(of(j), col)
      <4>1. PICK y \in Copies(R) : x = WithUnique(y, col)
        BY <1>3, <3>1
      <4>2. Only(col, ToString(y)) = Only(col, ToString(of(j)))
        BY <1>3, <1>7, <4>1
      <4>3. y = of(j)
        BY <1>6, <1>7, <4>1, <4>2
      <4> QED BY <4>1, <4>3
    <3>2. x = WithUnique(of(j), col) => x \in DOMAIN r
      BY <1>3, <1>8
    <3> QED BY <3>1, <3>2
  <2> QED BY <1>2, <1>3, <2>1, <2>2
<1> HIDE DEF X, Y, e, l, r
<1> HIDE DEF m, h
<1>0. \A d \in X : /\ d = <<e, d[2]>> /\ d[2] \in Keys(l, m.each)
                   /\ ~ AgreeAt(l, r, m.each, d[2])
  <2> SUFFICES ASSUME NEW d \in X
               PROVE  /\ d = <<e, d[2]>> /\ d[2] \in Keys(l, m.each)
                      /\ ~ AgreeAt(l, r, m.each, d[2])
    OBVIOUS
  <2>1. d = <<d[1], d[2]>>
    BY <1>4
  <2>2. <<d[1], d[2]>> \in X
    BY <2>1
  <2> QED BY <1>4, <2>1, <2>2 DEF e
<1>9. ASSUME NEW d \in X PROVE h[d] \in Y
  <2>1. d[2] \in Keys(l, m.each) /\ ~ AgreeAt(l, r, m.each, d[2])
    BY <1>0
  <2>2. of(d[2]) \in ExceptAll(L, R)
    BY <1>7, <1>8, <2>1 DEF ExceptAll
  <2>3. h[d] = <<e, of(d[2])>>
    BY DEF h
  <2> QED BY <1>5, <2>2, <2>3
<1>10. ASSUME NEW x \in X, NEW y \in X, h[x] = h[y]
       PROVE  x = y
  <2>1. /\ x = <<e, x[2]>> /\ x[2] \in Keys(l, m.each)
        /\ y = <<e, y[2]>> /\ y[2] \in Keys(l, m.each)
    BY <1>0
  <2>2. of(x[2]) = of(y[2])
    BY <1>10 DEF h
  <2>3. x[2] = y[2]
    BY <1>7, <2>1, <2>2
  <2> QED BY <2>1, <2>3
<1>11. h \in [X -> Y]
  BY <1>9 DEF h
<1>12. n.agg # "l2"
  BY <1>1
<1> HIDE DEF h, X, Y, m, n, l, r
<1>13. Fans(h, 1, X, Y)
  BY <1>10, <1>11, InjectionFans
<1>14. Follows(1, m, l, r, n, L, R, name)
  BY <1>12, <1>13 DEF Follows, X, Y
<1> QED BY <1>14 DEF m, n, l, r

LEMMA AddUniqueColumnIsStable ==
  ASSUME UniqueValues, TableInv, Stable, AddUniqueColumn
  PROVE  Stable'
<1>1. PICK col \in NewColumns \ DOMAIN schema :
        /\ metric = SymmetricDifference
        /\ Chained(Numbered(left[<<>>], col), Numbered(right[<<>>], col),
                   Extended(schema, Only(col, Column("string", {}))), IfGroupedBy({col}), bound)
  BY DEF AddUniqueColumn, Chain, ChainParts, Chained, Numbered, WithUnique
<1> DEFINE m == IfGroupedBy({col})
           L == left[<<>>]
           R == right[<<>>]
           name == Itself({})
<1>2. /\ m.base = "rows" /\ m.over = "table" /\ IsMetric(m)
      /\ metric.base = "rows" /\ metric.agg # "l2"
  BY <1>1, PlainMetric DEF IfGroupedBy, SymmetricDifference, Metric
<1>3. /\ IsTable(L) /\ IsTable(R)
      /\ \A r \in DOMAIN L : col \notin DOMAIN r
      /\ \A r \in DOMAIN R : col \notin DOMAIN r
  BY <1>1, InHandFacts DEF ValidRow
<1>9. UniqueIn(Copies(L) \cup Copies(R)) /\ UniqueIn(Copies(R) \cup Copies(L))
  BY DEF UniqueValues, UniqueIn, AllCopies
<1> HIDE DEF L, R, name
<1>4. /\ Follows(1, m, Numbered(L, col), Numbered(R, col), metric, L, R, name)
      /\ Follows(1, m, Numbered(R, col), Numbered(L, col), metric, R, L, name)
  BY <1>1, <1>3, <1>9, NumberedFollow
<1>5. IsTable(Numbered(L, col)) /\ IsTable(Numbered(R, col))
  BY <1>3, NumberedRows
<1> HIDE DEF m
<1>6. Comparable(m, Numbered(L, col), Numbered(R, col))
  BY <1>2 DEF Comparable
<1>7. 1 \in Nat /\ bound = Scaled(bound, 1 * 1)
  BY RowOrGroupMetric
<1>8. PICK k \in Nat : /\ Follows(k, m, Numbered(L, col), Numbered(R, col), metric, L, R, name)
                       /\ Follows(k, m, Numbered(R, col), Numbered(L, col), metric, R, L, name)
                       /\ bound = Scaled(bound, k * k)
  BY <1>4, <1>7
<1> QED BY <1>1, <1>2, <1>3, <1>5, <1>6, <1>8, StableByFollowing DEF m, L, R

-----------------------------------------------------------------------------
(* Truncation *)

(* A set is listed with all its members.                                   *)
LEMMA ListsAll ==
  ASSUME NEW D, IsFiniteSet(D)
  PROVE  \A x \in D : \E i \in 1 .. Cardinality(D) : Listed(D)[i] = x
<1> DEFINE op == [p \in D \X Seq(D) |-> Append(p[2], p[1])]
           Def(it) == [s \in SUBSET D |->
                         IF s = {} THEN <<>>
                         ELSE Append(it[s \ {CHOOSE x \in s : TRUE}], CHOOSE x \in s : TRUE)]
           iter == CHOOSE it : it = Def(it)
<1>1. \A s \in SUBSET D : s # {} => FoldedFirst(s) \in s
  BY DEF FoldedFirst
<1>2. op \in [D \X Seq(D) -> Seq(D)]
  OBVIOUS
<1>3. PICK g \in [SUBSET D -> Seq(D)] :
        \A s \in SUBSET D : g[s] = FoldStep(op, <<>>, g, s)
  <2> HIDE DEF op
  <2>1. <<>> \in Seq(D)
    OBVIOUS
  <2>2. \E g : IsFold(g, D, Seq(D), op, <<>>)
    BY <1>2, <2>1, FoldExists
  <2> QED BY <2>2 DEF IsFold
<1>4. \A s \in SUBSET D : s # {} =>
        g[s] = Append(g[s \ {FoldedFirst(s)}], FoldedFirst(s))
  <2> SUFFICES ASSUME NEW s \in SUBSET D, s # {}
               PROVE  g[s] = Append(g[s \ {FoldedFirst(s)}], FoldedFirst(s))
    OBVIOUS
  <2>1. g[s] = op[<<FoldedFirst(s), g[s \ {FoldedFirst(s)}]>>]
    BY <1>3 DEF FoldStep
  <2>2. FoldedFirst(s) \in D /\ g[s \ {FoldedFirst(s)}] \in Seq(D)
    BY <1>1, <1>3
  <2> QED BY <2>1, <2>2
<1>5. g[{}] = <<>>
  BY <1>3 DEF FoldStep
<1>6. g = Def(g)
  <2>1. g = [s \in SUBSET D |-> g[s]]
    BY <1>3
  <2> QED BY <1>4, <1>5, <2>1 DEF FoldedFirst
<1>7. iter = Def(iter)
  <2> HIDE DEF Def
  <2> QED BY <1>6
<1>8. Listed(D) = iter[D]
  BY DEF Listed, FoldSet, MapThenFoldSet
<1> HIDE DEF iter
<1>9. /\ iter[{}] = <<>>
      /\ \A s \in SUBSET D : s # {} =>
           iter[s] = Append(iter[s \ {FoldedFirst(s)}], FoldedFirst(s))
  BY <1>7 DEF FoldedFirst
<1> HIDE DEF op, Def
<1> DEFINE G == {s \in SUBSET D :
                   /\ iter[s] \in Seq(D) /\ Len(iter[s]) = Cardinality(s)
                   /\ \A x \in s : \E i \in 1 .. Cardinality(s) : iter[s][i] = x}
<1>10. {} \in G
  <2>1. <<>> \in Seq(D) /\ Len(<<>>) = 0
    OBVIOUS
  <2>2. Cardinality({}) = 0
    BY FS_EmptySet
  <2> QED BY <1>9, <2>1, <2>2
<1>11. ASSUME NEW s \in SUBSET D, s # {}, s \ {FoldedFirst(s)} \in G
       PROVE  s \in G
  <2> DEFINE y == FoldedFirst(s)
             t == s \ {y}
             q == iter[t]
             n == Cardinality(t)
  <2>1. y \in s /\ y \in D
    BY <1>1, <1>11
  <2>2. /\ q \in Seq(D) /\ Len(q) = n
        /\ \A x \in t : \E i \in 1 .. n : q[i] = x
    BY <1>11
  <2>3. IsFiniteSet(s) /\ Cardinality(t) = Cardinality(s) - 1 /\ Cardinality(s) \in Nat
    BY <2>1, FS_Subset, FS_RemoveElement, FS_CardinalityType
  <2>4. n \in Nat /\ Cardinality(s) = n + 1
    BY <2>2, <2>3
  <2>5. iter[s] = Append(q, y)
    BY <1>9, <1>11
  <2>6. \A x \in s : x = y \/ x \in t
    OBVIOUS
  <2> HIDE DEF y, t, q, n
  <2>7. iter[s] \in Seq(D) /\ Len(iter[s]) = n + 1 /\ iter[s][n + 1] = y
    BY <2>1, <2>2, <2>4, <2>5
  <2>8. \A i \in 1 .. n : iter[s][i] = q[i] /\ i \in 1 .. (n + 1)
    BY <2>1, <2>2, <2>4, <2>5
  <2>9. n + 1 \in 1 .. (n + 1)
    BY <2>4
  <2>10. \A x \in s : \E i \in 1 .. (n + 1) : iter[s][i] = x
    BY <2>2, <2>6, <2>7, <2>8, <2>9
  <2> QED BY <2>4, <2>7, <2>10
<1> HIDE DEF G
<1>12. D \in G
  <2>1. SUBSET D \subseteq G
    BY <1>10, <1>11, FoldInduction
  <2> QED BY <2>1
<1> QED BY <1>8, <1>12 DEF G

LEMMA OrdersRankInts ==
  ASSUME NEW S, IsFiniteSet(S), NEW rank \in Orders(S)
  PROVE  \A x \in S : rank[x] \in Int
<1> DEFINE n == Cardinality(S)
           s == Listed(S)
<1>1. n \in Nat
  BY FS_CardinalityType
<1>2. \A x \in S : \E i \in 1 .. n : s[i] = x
  BY ListsAll
<1>3. \A x \in S : \E i \in 1 .. n : s[n + 1 - i] = x
  <2> SUFFICES ASSUME NEW x \in S PROVE \E i \in 1 .. n : s[n + 1 - i] = x
    OBVIOUS
  <2>1. PICK i \in 1 .. n : s[i] = x
    BY <1>2
  <2> DEFINE j == n + 1 - i
  <2>2. j \in 1 .. n /\ n + 1 - j = i
    BY <1>1
  <2> HIDE DEF j
  <2>3. s[n + 1 - j] = x
    BY <2>1, <2>2
  <2> QED BY <2>2, <2>3
<1>4. rank \in Bijection(S, 1 .. n)
      \/ rank = [x \in S |-> CHOOSE i \in 1 .. n : s[i] = x]
      \/ rank = [x \in S |-> CHOOSE i \in 1 .. n : s[n + 1 - i] = x]
  BY DEF Orders
<1> HIDE DEF n, s
<1>5. \A x \in S : rank[x] \in 1 .. n
  BY <1>2, <1>3, <1>4 DEF Bijection, Injection
<1> QED BY <1>1, <1>5

KeptOf(S, group, n, rank, g) == {x \in Kept(S, group, n, rank) : group[x] = g}
CopiesOfGroup(T, C, k) == {x \in Copies(T) : Restrict(x[1], C) = k}
DrawnFrom(f, C, k) == {y \in DOMAIN f : Restrict(f[y], C) = k}

(* Of a group, no more than n are kept.                                    *)
LEMMA KeptAtMost ==
  ASSUME NEW S, IsFiniteSet(S), NEW group, NEW rank, \A x \in S : rank[x] \in Int,
         NEW n \in Nat, NEW g
  PROVE  /\ IsFiniteSet(KeptOf(S, group, n, rank, g))
         /\ Cardinality(KeptOf(S, group, n, rank, g)) <= n
<1> DEFINE K == KeptOf(S, group, n, rank, g)
           place(x) == Place(S, group, rank, x)
           P == {place(x) : x \in K}
<1>1. \A x \in K : x \in S /\ group[x] = g /\ place(x) <= n
  BY DEF Kept, KeptOf
<1>2. K \in SUBSET S
  BY <1>1
<1> HIDE DEF K
<1>3. IsFiniteSet(K) /\ Cardinality(K) \in Nat
  BY <1>2, FS_Subset, FS_CardinalityType
<1>4. CASE K = {}
  BY <1>4, FS_EmptySet DEF K
<1>5. CASE K # {}
  <2>1. \A x \in K : place(x) \in Nat
    BY UpToFinite
  <2>2. P \in SUBSET Int /\ P # {} /\ n \in Int /\ \A p \in P : p <= n
    <3>1. \E x : x \in K
      BY <1>5
    <3> HIDE DEF place
    <3> QED BY <1>1, <2>1, <3>1
  <2>3. \E m \in P : \A p \in P : p <= m
    <3> HIDE DEF P
    <3> QED BY <2>2, LargestExists
  <2>4. PICK z \in K : \A x \in K : place(x) <= place(z)
    BY <2>3
  <2>5. ASSUME NEW x \in K
        PROVE  x \in UpTo(S, group, rank, z)
    <3>1. /\ x \in S /\ z \in S /\ group[x] = group[z]
          /\ rank[x] \in Int /\ rank[z] \in Int
      BY <1>1
    <3>2. CASE rank[z] < rank[x]
      <4>1. place(z) < place(x)
        BY <3>1, <3>2, PlaceIncreases
      <4>2. place(x) <= place(z) /\ place(x) \in Nat /\ place(z) \in Nat
        BY <2>1, <2>4
      <4> HIDE DEF place
      <4> QED BY <4>1, <4>2
    <3>3. CASE rank[x] <= rank[z]
      BY <3>1, <3>3 DEF UpTo
    <3> QED BY <3>1, <3>2, <3>3
  <2>6. IsFiniteSet(UpTo(S, group, rank, z)) /\ place(z) \in Nat
    BY UpToFinite
  <2>7. Cardinality(K) <= place(z)
    <3>1. K \in SUBSET UpTo(S, group, rank, z)
      BY <2>5
    <3> QED BY <2>6, <3>1, FS_Subset DEF Place
  <2>8. place(z) <= n
    BY <1>1
  <2> HIDE DEF place
  <2> QED BY <1>3, <2>6, <2>7, <2>8 DEF K
<1> QED BY <1>4, <1>5

(* The copies of the rows of a group, in a table that was tallied.         *)
LEMMA TallyOfGroup ==
  ASSUME NEW f, IsFiniteSet(DOMAIN f), NEW C, NEW k
  PROVE  /\ IsFiniteSet(CopiesOfGroup(Tally(f), C, k))
         /\ Cardinality(CopiesOfGroup(Tally(f), C, k)) = Cardinality(DrawnFrom(f, C, k))
<1> DEFINE Q == DrawnFrom(f, C, k)
           g == [y \in Q |-> f[y]]
           K == CopiesOfGroup(Tally(f), C, k)
<1>1. Q \in SUBSET DOMAIN f /\ DOMAIN g = Q /\ \A y \in Q : g[y] = f[y]
  BY DEF DrawnFrom
<1>2. IsFiniteSet(Q)
  BY <1>1, FS_Subset
<1>3. \A y : y \in Q <=> y \in DOMAIN f /\ Restrict(f[y], C) = k
  BY DEF DrawnFrom
<1> HIDE DEF Q, g
<1>4. /\ IsTable(Tally(f)) /\ DOMAIN Tally(f) = Range(f)
      /\ IsTable(Tally(g)) /\ DOMAIN Tally(g) = Range(g)
  BY <1>1, <1>2, TallyIsTable
<1>5. \A r : r \in DOMAIN Tally(g) <=> r \in DOMAIN Tally(f) /\ Restrict(r, C) = k
  BY <1>1, <1>3, <1>4 DEF Range
<1>6. ASSUME NEW r \in DOMAIN Tally(g)
      PROVE  Tally(g)[r] = Tally(f)[r]
  <2>1. Restrict(r, C) = k
    BY <1>5
  <2>2. {y \in DOMAIN g : g[y] = r} = {y \in DOMAIN f : f[y] = r}
    BY <1>1, <1>3, <2>1
  <2>3. /\ Tally(g)[r] = Cardinality({y \in DOMAIN g : g[y] = r})
        /\ Tally(f)[r] = Cardinality({y \in DOMAIN f : f[y] = r})
    BY <1>4, <1>5 DEF Tally
  <2> QED BY <2>2, <2>3
<1>7. \A x : x \in Copies(Tally(g)) <=> x \in K
  <2>1. \A x : x \in Copies(Tally(f)) <=>
                 \E r \in DOMAIN Tally(f) : \E i \in 1 .. Tally(f)[r] : x = <<r, i>>
    BY <1>4, CopiesOfTable
  <2>2. \A x : x \in Copies(Tally(g)) <=>
                 \E r \in DOMAIN Tally(g) : \E i \in 1 .. Tally(g)[r] : x = <<r, i>>
    BY <1>4, CopiesOfTable
  <2> QED BY <1>5, <1>6, <2>1, <2>2 DEF CopiesOfGroup
<1>8. Copies(Tally(g)) = K
  BY <1>7
<1>9. IsFiniteSet(Copies(Tally(g)))
  BY <1>4, CopiesOfTable
<1>10. Cardinality(Copies(Tally(g))) = Cardinality(Q)
  BY <1>1, <1>2, TallyRows DEF NumRows
<1> HIDE DEF K
<1> QED BY <1>8, <1>9, <1>10 DEF K, Q

(* Columns split in two say what all of them say.                          *)
LEMMA SplitRestrict ==
  ASSUME NEW x, NEW y, NEW B, NEW C
  PROVE  Restrict(x, B \cup C) = Restrict(y, B \cup C)
           <=> Restrict(x, B) = Restrict(y, B) /\ Restrict(x, C) = Restrict(y, C)
<1>1. \A z, D : Restrict(z, D) = [c \in D |-> z[c]]
  BY DEF Restrict
<1>2. \A D : Restrict(x, D) = Restrict(y, D) <=> \A c \in D : x[c] = y[c]
  <2> SUFFICES ASSUME NEW D
               PROVE  Restrict(x, D) = Restrict(y, D) <=> \A c \in D : x[c] = y[c]
    OBVIOUS
  <2>1. \A c \in D : Restrict(x, D)[c] = x[c] /\ Restrict(y, D)[c] = y[c]
    BY DEF Restrict
  <2> QED BY <1>1, <2>1
<1> QED BY <1>2

(* Truncation keeps k rows of a group: where groups differ, up to k rows.  *)
LEMMA TruncationFollows ==
  ASSUME NEW m, m.each = {}, NEW n, n.each # {}, n.agg = "l2" => m.by = n.by,
         NEW L, IsTable(L), NEW R, IsTable(R), NEW k \in Nat,
         NEW rank, DOMAIN rank = Copies(L) \cup Copies(R), \A x \in DOMAIN rank : rank[x] \in Int
  PROVE  Follows(k, m, TruncateLargeGroups(L, n.by \cup n.each, k, rank),
                 TruncateLargeGroups(R, n.by \cup n.each, k, rank), n, L, R, Itself(n.by))
<1> DEFINE D == n.by \cup n.each
           group == [x \in DOMAIN rank |-> Restrict(x[1], D)]
           P == Kept(Copies(L), group, k, rank)
           f == [x \in P |-> x[1]]
           l == TruncateLargeGroups(L, D, k, rank)
           r == TruncateLargeGroups(R, D, k, rank)
           X == Missing(m, l, r)
           Y == Missing(n, L, R)
           h == [d \in X |-> <<Restrict(d[2][1], n.by), Restrict(d[2][1], n.each)>>]
<1>1. /\ IsTable(l) /\ DOMAIN l \subseteq DOMAIN L
      /\ IsTable(r) /\ DOMAIN r \subseteq DOMAIN R
  BY TruncatedRows
<1>2. l = Tally(f) /\ DOMAIN f = P /\ P \in SUBSET Copies(L) /\ \A x \in P : f[x] = x[1]
  BY DEF TruncateLargeGroups, Collected, Kept
<1>3. IsFiniteSet(Copies(L)) /\ IsFiniteSet(P)
  BY <1>2, CopiesOfTable, FS_Subset
<1>4. ASSUME NEW q
      PROVE  /\ IsFiniteSet({x \in Copies(l) : Restrict(x[1], D) = q})
             /\ Cardinality({x \in Copies(l) : Restrict(x[1], D) = q}) \in Nat
             /\ Cardinality({x \in Copies(l) : Restrict(x[1], D) = q}) <= k
  <2>1. /\ IsFiniteSet({x \in P : group[x] = q})
        /\ Cardinality({x \in P : group[x] = q}) <= k
    <3>1. \A x \in Copies(L) : rank[x] \in Int
      OBVIOUS
    <3>2. P = Kept(Copies(L), group, k, rank)
      OBVIOUS
    <3>3. IsFiniteSet(Copies(L)) /\ k \in Nat
      BY <1>3
    <3> HIDE DEF group, P, D, f, l, r, X, Y, h
    <3>4. /\ IsFiniteSet(KeptOf(Copies(L), group, k, rank, q))
          /\ Cardinality(KeptOf(Copies(L), group, k, rank, q)) <= k
      BY <3>1, <3>3, KeptAtMost
    <3> QED BY <3>2, <3>4 DEF KeptOf
  <2>2. {x \in P : group[x] = q} = {y \in DOMAIN f : Restrict(f[y], D) = q}
    BY <1>2
  <2>3. IsFiniteSet(DOMAIN f)
    BY <1>2, <1>3
  <2> HIDE DEF f, P, group, D, l, r, X, Y, h
  <2>4. /\ IsFiniteSet(CopiesOfGroup(Tally(f), D, q))
        /\ Cardinality(CopiesOfGroup(Tally(f), D, q)) = Cardinality(DrawnFrom(f, D, q))
    BY <2>3, TallyOfGroup
  <2> QED BY <1>2, <2>1, <2>2, <2>4, FS_CardinalityType DEF CopiesOfGroup, DrawnFrom
<1>5. \A d : d \in X <=> \E x \in ExceptAll(l, r) : d = <<Restrict(x[1], m.by), x>>
  <2> HIDE DEF l, r
  <2> QED BY <1>1, MissingRows
<1>6. \A q, j : <<q, j>> \in Y
              <=> /\ \E x \in DOMAIN L : Restrict(x, n.by) = q /\ Restrict(x, n.each) = j
                  /\ ~ \A x : Restrict(x, n.by) = q /\ Restrict(x, n.each) = j =>
                          /\ x \in DOMAIN L <=> x \in DOMAIN R
                          /\ x \in DOMAIN L => L[x] = R[x]
  BY MissingGroups
<1>7. \A q : AgreeAt(L, R, D, q) => AgreeAt(l, r, D, q)
  BY TruncationAgrees
<1> HIDE DEF h, X, Y, l, r, P, f, group
<1>8. ASSUME NEW x \in ExceptAll(l, r)
      PROVE  <<Restrict(x[1], n.by), Restrict(x[1], n.each)>> \in Y
  <2>1. x \in Copies(l) /\ x \notin Copies(r) /\ x[1] \in DOMAIN L
    BY <1>1, CopiesOfTable DEF ExceptAll
  <2>2. ~ AgreeAt(l, r, D, Restrict(x[1], D))
    BY <1>1, <2>1, CopiesAgree
  <2>3. ~ AgreeAt(L, R, D, Restrict(x[1], D))
    BY <1>7, <2>2
  <2>4. PICK y : /\ Restrict(y, D) = Restrict(x[1], D)
                 /\ ~ (/\ y \in DOMAIN L <=> y \in DOMAIN R
                       /\ y \in DOMAIN L => L[y] = R[y])
    BY <2>3 DEF AgreeAt
  <2>5. Restrict(y, n.by) = Restrict(x[1], n.by) /\ Restrict(y, n.each) = Restrict(x[1], n.each)
    BY <2>4, SplitRestrict
  <2> QED BY <1>6, <2>1, <2>4, <2>5
<1>9. \A d \in X : /\ d[2] \in ExceptAll(l, r) /\ d = <<Restrict(d[2][1], m.by), d[2]>>
                   /\ h[d] = <<Restrict(d[2][1], n.by), Restrict(d[2][1], n.each)>>
  BY <1>5 DEF h
<1>10. h \in [X -> Y]
  BY <1>8, <1>9 DEF h
<1>11. ASSUME NEW y \in Y
       PROVE  /\ IsFiniteSet({d \in X : h[d] = y})
              /\ Cardinality({d \in X : h[d] = y}) <= k
  <2> DEFINE F == {d \in X : h[d] = y}
  <2>1. CASE F = {}
    BY <2>1, FS_EmptySet
  <2>2. CASE F # {}
    <3>1. PICK e \in X : h[e] = y
      BY <2>2
    <3> DEFINE q == Restrict(e[2][1], D)
               K == {x \in Copies(l) : Restrict(x[1], D) = q}
               i == [d \in F |-> d[2]]
    <3>2. ASSUME NEW d \in F PROVE d[2] \in K
      <4>1. d \in X /\ h[d] = h[e]
        BY <3>1
      <4>2. /\ Restrict(d[2][1], n.by) = Restrict(e[2][1], n.by)
            /\ Restrict(d[2][1], n.each) = Restrict(e[2][1], n.each)
        BY <1>9, <4>1
      <4>3. Restrict(d[2][1], D) = q
        BY <4>2, SplitRestrict
      <4>4. d[2] \in Copies(l)
        BY <1>9, <4>1 DEF ExceptAll
      <4> QED BY <4>3, <4>4
    <3>3. \A d, c \in F : d[2] = c[2] => d = c
      BY <1>9
    <3> HIDE DEF F, K
    <3>4. i \in Injection(F, K)
      BY <3>2, <3>3 DEF Injection, IsInjective
    <3>5. IsFiniteSet(K) /\ Cardinality(K) \in Nat /\ Cardinality(K) <= k
      BY <1>4 DEF K
    <3> HIDE DEF i
    <3>6. IsFiniteSet(F) /\ Cardinality(F) <= Cardinality(K)
      BY <3>4, <3>5, FS_Injection
    <3> QED BY <3>5, <3>6, FS_CardinalityType DEF F
  <2> QED BY <2>1, <2>2
<1>12. ASSUME n.agg = "l2", NEW d \in X
       PROVE  h[d][1] = [c \in n.by |-> d[1][Itself(n.by)[c]]]
  <2>1. h[d][1] = Restrict(d[2][1], n.by) /\ d[1] = Restrict(d[2][1], n.by)
    BY <1>9, <1>12
  <2> QED BY <2>1 DEF Restrict, Itself
<1>13. Follows(k, m, l, r, n, L, R, Itself(n.by))
  BY <1>10, <1>11, <1>12 DEF Follows, Fans, X, Y
<1> QED BY <1>13 DEF l, r

LEMMA TruncatingIsStable ==
  ASSUME TableInv, Stable, metric.each # {}, NEW n \in Nat, NEW rank \in Orders(AllCopies),
         NEW D, D = metric.by \cup metric.each,
         NEW s, NEW m, IsMetric(m), m.each = {}, m.over = "table", m.base = "rows",
         metric.agg = "l2" => m.agg = "l2" /\ m.by = metric.by,
         Chained(TruncateLargeGroups(left[<<>>], D, n, rank),
                 TruncateLargeGroups(right[<<>>], D, n, rank), s, m, Scaled(bound, n * n))
  PROVE  Stable'
<1> DEFINE L == left[<<>>]
           R == right[<<>>]
           l == TruncateLargeGroups(L, D, n, rank)
           r == TruncateLargeGroups(R, D, n, rank)
           by == metric.by
<1>1. /\ metric.over = "table" /\ IsMetric(metric) /\ IsTable(L) /\ IsTable(R)
      /\ IsFiniteSet(Copies(L)) /\ IsFiniteSet(Copies(R))
  BY InHandFacts
<1>2. metric.base = "rows"
  BY <1>1 DEF IsMetric, IsIfGroupedBy
<1>3. DOMAIN rank = Copies(L) \cup Copies(R)
  BY OrdersRankAll DEF AllCopies
<1>4. \A x \in DOMAIN rank : rank[x] \in Int
  <2>1. IsFiniteSet(AllCopies)
    BY <1>1, FS_Union DEF AllCopies
  <2> QED BY <1>3, <2>1, OrdersRankInts DEF AllCopies
<1>5. IsTable(l) /\ IsTable(r)
  BY <1>1, TruncatedRows
<1>6. Follows(n, m, TruncateLargeGroups(L, metric.by \cup metric.each, n, rank),
                    TruncateLargeGroups(R, metric.by \cup metric.each, n, rank),
              metric, L, R, Itself(metric.by))
  <2> HIDE DEF L, R
  <2> QED BY <1>1, <1>3, <1>4, TruncationFollows
<1>7. Follows(n, m, TruncateLargeGroups(R, metric.by \cup metric.each, n, rank),
                    TruncateLargeGroups(L, metric.by \cup metric.each, n, rank),
              metric, R, L, Itself(metric.by))
  <2>1. DOMAIN rank = Copies(R) \cup Copies(L)
    BY <1>3
  <2> HIDE DEF L, R
  <2> QED BY <1>1, <2>1, <1>4, TruncationFollows
<1>8. Comparable(m, l, r)
  BY DEF Comparable
<1>9. Chained(l, r, s, m, Scaled(bound, n * n))
  OBVIOUS
<1>10. /\ Follows(n, m, l, r, metric, L, R, Itself(by))
       /\ Follows(n, m, r, l, metric, R, L, Itself(by))
  BY <1>6, <1>7
<1> DEFINE name == Itself(by)
           d == Scaled(bound, n * n)
<1>11. Follows(n, m, l, r, metric, left[<<>>], right[<<>>], name)
       /\ Follows(n, m, r, l, metric, right[<<>>], left[<<>>], name)
  BY <1>10
<1>12. d = Scaled(bound, n * n) /\ Chained(l, r, s, m, d)
  BY <1>9
<1> HIDE DEF name, d, l, r, L, R
<1> QED BY <1>2, <1>5, <1>8, <1>11, <1>12, StableByFollowing

LEMMA LimitRowsPerGroupIsStable ==
  ASSUME TableInv, Stable, GroupsStay, LimitRowsPerGroup
  PROVE  Stable'
<1>1. PICK C \in (SUBSET DOMAIN schema) \ {{}}, n \in Thresholds :
        /\ metric = IfGroupedBy(C)
        /\ \E rank \in Orders(AllCopies), m \in {SymmetricDifference, metric} :
             Chained(TruncateLargeGroups(left[<<>>], C, n, rank),
                     TruncateLargeGroups(right[<<>>], C, n, rank), schema, m,
                     IF m = metric THEN bound ELSE Scaled(bound, n * n))
  BY DEF LimitRowsPerGroup, Chain, ChainParts, Chained
<1>2. PICK rank \in Orders(AllCopies), m \in {SymmetricDifference, metric} :
        Chained(TruncateLargeGroups(left[<<>>], C, n, rank),
                TruncateLargeGroups(right[<<>>], C, n, rank), schema, m,
                IF m = metric THEN bound ELSE Scaled(bound, n * n))
  BY <1>1
<1> DEFINE l == TruncateLargeGroups(left[<<>>], C, n, rank)
           r == TruncateLargeGroups(right[<<>>], C, n, rank)
<1>3. metric.by = {} /\ metric.each = C /\ metric.each # {} /\ metric.agg = "none"
  BY <1>1 DEF IfGroupedBy, Metric
<1>4. n \in Nat
  BY BoundsAssumption
<1>5. IsTable(left[<<>>]) /\ IsTable(right[<<>>])
  BY <1>2, InHandFacts
<1>6. CASE m = metric
  <2>1. Chained(l, r, schema, metric, bound)
    BY <1>2, <1>6
  <2>2. /\ IsTable(l) /\ DOMAIN l \subseteq DOMAIN left[<<>>]
        /\ IsTable(r) /\ DOMAIN r \subseteq DOMAIN right[<<>>]
    BY <1>5, TruncatedRows
  <2> HIDE DEF l, r
  <2> QED BY <1>3, <2>1, <2>2, FewerRowsAreStable
<1>7. CASE m # metric
  <2>1. m = SymmetricDifference /\ Chained(l, r, schema, m, Scaled(bound, n * n))
    BY <1>2, <1>7
  <2>2. IsMetric(m) /\ m.each = {} /\ m.over = "table" /\ m.base = "rows"
    BY <2>1 DEF IsMetric, SymmetricDifference, Metric, IsIfGroupedBy
  <2>3. C = metric.by \cup metric.each
    BY <1>3
  <2>4. metric.agg # "l2"
    BY <1>3
  <2> QED BY <1>3, <1>4, <2>1, <2>2, <2>3, <2>4, TruncatingIsStable
<1> QED BY <1>6, <1>7

LEMMA LimitRowsPerKeyPerGroupIsStable ==
  ASSUME TableInv, Stable, GroupsStay, LimitRowsPerKeyPerGroup
  PROVE  Stable'
<1>1. PICK C \in (SUBSET DOMAIN schema) \ {{}}, n \in Thresholds :
        \E key \in DOMAIN schema \ C : \E rank \in Orders(AllCopies) :
          /\ metric \in {IfGroupedBy(C), IfGroupedByAgg({key}, "sum", C),
                         IfGroupedByAgg({key}, "l2", C)}
          /\ Chained(TruncateLargeGroups(left[<<>>], C \cup {key}, n, rank),
                     TruncateLargeGroups(right[<<>>], C \cup {key}, n, rank), schema,
                     RowsPerKeyMetric(C, key),
                     IF metric = IfGroupedBy(C) THEN bound ELSE Scaled(bound, n * n))
  BY DEF LimitRowsPerKeyPerGroup, Chain, ChainParts, Chained
<1>2. PICK key \in DOMAIN schema \ C, rank \in Orders(AllCopies) :
        /\ metric \in {IfGroupedBy(C), IfGroupedByAgg({key}, "sum", C),
                       IfGroupedByAgg({key}, "l2", C)}
        /\ Chained(TruncateLargeGroups(left[<<>>], C \cup {key}, n, rank),
                   TruncateLargeGroups(right[<<>>], C \cup {key}, n, rank), schema,
                   RowsPerKeyMetric(C, key),
                   IF metric = IfGroupedBy(C) THEN bound ELSE Scaled(bound, n * n))
  BY <1>1
<1> DEFINE D == C \cup {key}
           l == TruncateLargeGroups(left[<<>>], D, n, rank)
           r == TruncateLargeGroups(right[<<>>], D, n, rank)
<1>3. C # {} /\ n \in Nat
  BY BoundsAssumption
<1>4. IsTable(left[<<>>]) /\ IsTable(right[<<>>])
  BY <1>2, InHandFacts
<1>5. CASE metric = IfGroupedBy(C)
  <2>1. Chained(l, r, schema, metric, bound)
    <3>1. RowsPerKeyMetric(C, key) = metric
      BY <1>5 DEF RowsPerKeyMetric, IfGroupedBy, Metric
    <3> QED BY <1>2, <1>5, <3>1
  <2>2. /\ IsTable(l) /\ DOMAIN l \subseteq DOMAIN left[<<>>]
        /\ IsTable(r) /\ DOMAIN r \subseteq DOMAIN right[<<>>]
    BY <1>4, TruncatedRows
  <2>3. metric.by = {} /\ metric.each # {}
    BY <1>3, <1>5 DEF IfGroupedBy, Metric
  <2> HIDE DEF l, r
  <2> QED BY <2>1, <2>2, <2>3, FewerRowsAreStable
<1>6. CASE metric # IfGroupedBy(C)
  <2> DEFINE m == IF metric.agg = "sum" THEN SymmetricDifference
                  ELSE IfGroupedByAgg({key}, "l2", {})
  <2>1. Chained(l, r, schema, m, Scaled(bound, n * n))
    BY <1>2, <1>6 DEF RowsPerKeyMetric
  <2>2. metric.by = {key} /\ metric.each = C /\ metric.agg \in {"sum", "l2"}
    BY <1>2, <1>6 DEF IfGroupedByAgg, Metric
  <2>3. IsMetric(m) /\ m.each = {} /\ m.over = "table" /\ m.base = "rows"
    BY DEF IsMetric, SymmetricDifference, Metric, IsIfGroupedBy, IfGroupedByAgg
  <2>4. D = metric.by \cup metric.each
    BY <2>2
  <2>5. metric.agg = "l2" => m.agg = "l2" /\ m.by = metric.by
    BY <2>2 DEF IfGroupedByAgg, Metric
  <2> HIDE DEF m, D
  <2> QED BY <1>3, <2>1, <2>2, <2>3, <2>4, <2>5, TruncatingIsStable
<1> QED BY <1>5, <1>6

-----------------------------------------------------------------------------
(* Keys of a group *)

(* Of a group's keys n are kept: where a group differs, up to n of them.   *)
LEMMA LimitedKeysFan ==
  ASSUME NEW C, C # {}, NEW K, NEW m, m.by = K, m.each = C,
         NEW o, o.by = {}, o.each = C,
         NEW L, IsTable(L), NEW R, IsTable(R), NEW n \in Nat,
         NEW rank, DOMAIN rank = Keys(L, C \cup K) \cup Keys(R, C \cup K),
         \A x \in DOMAIN rank : rank[x] \in Int,
         NEW l, l = LimitKeysPerGroup(L, C, K, n, rank),
         NEW r, r = LimitKeysPerGroup(R, C, K, n, rank),
         NEW h, h = [d \in Missing(m, l, r) |-> <<Restrict(<<>>, {}), d[2]>>]
  PROVE  Fans(h, n, Missing(m, l, r), Missing(o, L, R))
<1> DEFINE D == C \cup K
           group == [k \in DOMAIN rank |-> Restrict(k, C)]
           S == Keys(L, D)
           kept == Kept(S, group, n, rank)
           X == Missing(m, l, r)
           Y == Missing(o, L, R)
<1>1. /\ IsTable(l) /\ DOMAIN l \subseteq DOMAIN L
      /\ IsTable(r) /\ DOMAIN r \subseteq DOMAIN R
  BY LimitedRows
<1>2. IsFiniteSet(S) /\ S \subseteq DOMAIN rank
  BY KeysOfTable
<1>3. \A x \in DOMAIN l : x \in DOMAIN L /\ Restrict(x, D) \in kept
  BY DEF LimitKeysPerGroup, Where, RestrictDomain, Restrict
<1>4. \A j : AgreeAt(L, R, C, j) => AgreeAt(l, r, C, j)
  BY LimitKeysAgrees
<1> HIDE DEF D, group, S, kept
<1>5. /\ \A d \in Missing(m, l, r) : d = <<d[1], d[2]>>
      /\ \A k, j : <<k, j>> \in Missing(m, l, r)
              <=> /\ \E x \in DOMAIN l : Restrict(x, m.by) = k /\ Restrict(x, m.each) = j
                  /\ ~ \A x : Restrict(x, m.by) = k /\ Restrict(x, m.each) = j =>
                          /\ x \in DOMAIN l <=> x \in DOMAIN r
                          /\ x \in DOMAIN l => l[x] = r[x]
  <2>1. m.each # {} /\ IsTable(l) /\ IsTable(r)
    BY <1>1
  <2> QED BY ONLY <2>1, MissingGroups
<1>6. \A k, j : <<k, j>> \in Y
              <=> k = Restrict(<<>>, {}) /\ j \in Keys(L, o.each) /\ ~ AgreeAt(L, R, o.each, j)
  <2>1. o.by = {} /\ o.each # {} /\ IsTable(L) /\ IsTable(R)
    OBVIOUS
  <2> QED BY ONLY <2>1, MissingAlone DEF Y
<1> HIDE DEF Y
<1> USE DEF D, group, S
<1>7. ASSUME NEW d \in X
      PROVE  /\ \E x \in DOMAIN l : Restrict(x, K) = d[1] /\ Restrict(x, C) = d[2]
             /\ <<Restrict(<<>>, {}), d[2]>> \in Y
  <2>1. <<d[1], d[2]>> \in X
    BY <1>5
  <2>2. PICK x \in DOMAIN l : Restrict(x, K) = d[1] /\ Restrict(x, C) = d[2]
    BY <1>5, <2>1
  <2>3. d[2] \in Keys(L, C)
    BY <1>3, <2>2 DEF Keys, BagToSet
  <2>4. ~ AgreeAt(l, r, C, d[2])
    <3>1. ~ \A y : Restrict(y, K) = d[1] /\ Restrict(y, C) = d[2] =>
                          /\ y \in DOMAIN l <=> y \in DOMAIN r
                          /\ y \in DOMAIN l => l[y] = r[y]
      BY <1>5, <2>1
    <3> QED BY <3>1 DEF AgreeAt
  <2> QED BY <1>4, <1>6, <2>2, <2>3, <2>4
<1>8. h \in [X -> Y] /\ \A d \in X : h[d] = <<Restrict(<<>>, {}), d[2]>>
  <2>1. \A d \in X : h[d] = <<Restrict(<<>>, {}), d[2]>> /\ h[d] \in Y
    BY <1>7
  <2>2. h = [d \in X |-> h[d]]
    BY DEF X
  <2> HIDE DEF X
  <2> QED BY <2>1, <2>2
<1> HIDE DEF X
<1>9. ASSUME NEW y \in Y
      PROVE  /\ IsFiniteSet({d \in X : h[d] = y})
             /\ Cardinality({d \in X : h[d] = y}) <= n
  <2> DEFINE F == {d \in X : h[d] = y}
             j == y[2]
             Q == KeptOf(S, group, n, rank, j)
             of(d) == CHOOSE q : \E x \in DOMAIN l : /\ Restrict(x, K) = d[1]
                                                     /\ Restrict(x, C) = d[2]
                                                     /\ q = Restrict(x, D)
             i == [d \in F |-> of(d)]
  <2>1. ASSUME NEW d \in F
        PROVE  \E x \in DOMAIN l : /\ Restrict(x, K) = d[1]
                                   /\ Restrict(x, C) = d[2]
                                   /\ of(d) = Restrict(x, D)
    BY <1>7
  <2>2. \A d \in F : d = <<d[1], d[2]>> /\ d[2] = j
    BY <1>5, <1>8
  <2> HIDE DEF of, F
  <2>3. ASSUME NEW d \in F PROVE of(d) \in Q
    <3>1. PICK x \in DOMAIN l : /\ Restrict(x, K) = d[1]
                                /\ Restrict(x, C) = d[2]
                                /\ of(d) = Restrict(x, D)
      BY <2>1
    <3>2. Restrict(x, D) \in kept /\ Restrict(x, D) \in DOMAIN rank
      BY <1>2, <1>3 DEF kept, Kept
    <3>3. group[Restrict(x, D)] = Restrict(Restrict(x, D), C)
      BY <3>2
    <3>4. Restrict(Restrict(x, D), C) = Restrict(x, C)
      BY DEF Restrict
    <3> QED BY <2>2, <3>1, <3>2, <3>3, <3>4 DEF KeptOf, kept
  <2>4. ASSUME NEW d \in F, NEW e \in F, of(d) = of(e) PROVE d = e
    <3>1. PICK x \in DOMAIN l : /\ Restrict(x, K) = d[1]
                                /\ of(d) = Restrict(x, D)
      BY <2>1
    <3>2. PICK z \in DOMAIN l : /\ Restrict(z, K) = e[1]
                                /\ of(e) = Restrict(z, D)
      BY <2>1
    <3>3. Restrict(x, C \cup K) = Restrict(z, C \cup K)
      BY <2>4, <3>1, <3>2
    <3>4. Restrict(x, K) = Restrict(z, K)
      BY ONLY <3>3, SplitRestrict
    <3> QED BY <2>2, <3>1, <3>2, <3>4
  <2>5. \A x \in S : rank[x] \in Int
    BY <1>2
  <2> HIDE DEF S, group, j
  <2>6. IsFiniteSet(Q) /\ Cardinality(Q) <= n
    BY <1>2, <2>5, KeptAtMost
  <2> HIDE DEF Q
  <2>7. i \in Injection(F, Q)
    BY <2>3, <2>4 DEF Injection, IsInjective
  <2> HIDE DEF i
  <2>8. IsFiniteSet(F) /\ Cardinality(F) <= Cardinality(Q)
    BY <2>6, <2>7, FS_Injection
  <2> QED BY <2>6, <2>8, FS_CardinalityType DEF F
<1> QED BY <1>8, <1>9 DEF Fans, X, Y

LEMMA LimitedKeysAreStable ==
  ASSUME TableInv, Stable, NEW C, C # {}, metric = IfGroupedBy(C), NEW K, K # {},
         NEW n \in Nat, NEW rank \in Orders(AllKeys(C \cup K)),
         NEW agg \in {"sum", "l2"}, NEW s,
         Chained(LimitKeysPerGroup(left[<<>>], C, K, n, rank),
                 LimitKeysPerGroup(right[<<>>], C, K, n, rank), s,
                 IfGroupedByAgg(K, agg, C), Scaled(bound, IF agg = "l2" THEN n ELSE n * n))
  PROVE  Stable'
<1> DEFINE L == left[<<>>]
           R == right[<<>>]
           l == LimitKeysPerGroup(L, C, K, n, rank)
           r == LimitKeysPerGroup(R, C, K, n, rank)
           m == IfGroupedByAgg(K, agg, C)
           d == Scaled(bound, IF agg = "l2" THEN n ELSE n * n)
           k == IF agg = "l2" THEN n ELSE n * n
           h == [x \in Missing(m, l, r) |-> <<Restrict(<<>>, {}), x[2]>>]
           q == [x \in Missing(m, r, l) |-> <<Restrict(<<>>, {}), x[2]>>]
           g == SidesMap(h, q, Missing(m, l, r), Missing(m, r, l))
<1>1. /\ metric.over = "table" /\ IsMetric(metric) /\ IsTable(L) /\ IsTable(R)
  BY InHandFacts
<1>2. metric.base = "rows" /\ metric.by = {} /\ metric.each = C /\ metric.agg = "none"
  BY DEF IfGroupedBy, Metric
<1>3. /\ IsMetric(m) /\ m.over = "table" /\ m.base = "rows"
      /\ m.by = K /\ m.each = C /\ m.agg = agg
  BY DEF IsMetric, Metric, IsIfGroupedBy, IfGroupedByAgg, SymmetricDifference
<1>4. DOMAIN rank = Keys(L, C \cup K) \cup Keys(R, C \cup K)
  BY OrdersRankAll DEF AllKeys
<1>5. \A x \in DOMAIN rank : rank[x] \in Int
  <2>1. IsFiniteSet(AllKeys(C \cup K))
    BY <1>1, KeysOfTable, FS_Union DEF AllKeys
  <2> QED BY <1>4, <2>1, OrdersRankInts DEF AllKeys
<1>6. IsTable(l) /\ IsTable(r)
  BY <1>1, LimitedRows
<1>7. Chained(l, r, s, m, d) /\ d = Scaled(bound, k)
  OBVIOUS
<1>8. k \in Nat
  OBVIOUS
<1> HIDE DEF L, R, m, d
<1>9. Fans(h, n, Missing(m, l, r), Missing(metric, L, R))
  <2>1. l = LimitKeysPerGroup(L, C, K, n, rank) /\ r = LimitKeysPerGroup(R, C, K, n, rank)
    OBVIOUS
  <2>2. h = [x \in Missing(m, l, r) |-> <<Restrict(<<>>, {}), x[2]>>]
    OBVIOUS
  <2> HIDE DEF l, r, h
  <2> QED BY <1>1, <1>2, <1>3, <1>4, <1>5, <2>1, <2>2, LimitedKeysFan
<1>10. Fans(q, n, Missing(m, r, l), Missing(metric, R, L))
  <2>1. l = LimitKeysPerGroup(L, C, K, n, rank) /\ r = LimitKeysPerGroup(R, C, K, n, rank)
    OBVIOUS
  <2>2. q = [x \in Missing(m, r, l) |-> <<Restrict(<<>>, {}), x[2]>>]
    OBVIOUS
  <2>3. DOMAIN rank = Keys(R, C \cup K) \cup Keys(L, C \cup K)
    BY <1>4
  <2> HIDE DEF l, r, q
  <2> QED BY <1>1, <1>2, <1>3, <2>3, <1>5, <2>1, <2>2, LimitedKeysFan
<1>11. /\ Differences(m, l, r) = Sides(Missing(m, l, r), Missing(m, r, l))
       /\ Differences(metric, L, R) = Sides(Missing(metric, L, R), Missing(metric, R, L))
  BY <1>2, <1>3 DEF Differences
<1>12. /\ \A x \in Missing(m, l, r) : h[x] = <<Restrict(<<>>, {}), x[2]>> /\ x = <<x[1], x[2]>>
       /\ \A x \in Missing(m, r, l) : q[x] = <<Restrict(<<>>, {}), x[2]>> /\ x = <<x[1], x[2]>>
  BY <1>6, MissingElement
<1> HIDE DEF h, q, l, r
<1>13. /\ Fans(g, n, Differences(m, l, r), Differences(metric, L, R))
       /\ \A x \in Missing(m, l, r) : g[<<1, x>>] = <<1, h[x]>>
       /\ \A x \in Missing(m, r, l) : g[<<2, x>>] = <<2, q[x]>>
  BY <1>9, <1>10, <1>11, SidesFan
<1>14. IsFiniteSet(Differences(metric, L, R))
  BY <1>1, DifferencesFinite
<1>15. \A x, y \in Differences(m, l, r) : g[x] = g[y] /\ x[2][1] = y[2][1] => x = y
  <2> SUFFICES ASSUME NEW x \in Differences(m, l, r), NEW y \in Differences(m, l, r),
                      g[x] = g[y], x[2][1] = y[2][1]
               PROVE  x = y
    OBVIOUS
  <2> HIDE DEF g
  <2>1. \A z \in Differences(m, l, r) :
          \/ \E w \in Missing(m, l, r) : z = <<1, w>>
          \/ \E w \in Missing(m, r, l) : z = <<2, w>>
    BY <1>11 DEF Sides
  <2>2. \A z \in Differences(m, l, r) :
          z = <<z[1], <<z[2][1], z[2][2]>>>> /\ g[z] = <<z[1], <<Restrict(<<>>, {}), z[2][2]>>>>
    BY <2>1, <1>12, <1>13
  <2> QED BY <2>2
<1>16. ASSUME bound # Infinite, Comparable(metric, L, R)
       PROVE  Comparable(m, l, r) /\ Apart(m, l, r) <= k * Apart(metric, L, R)
  <2>1. Comparable(m, l, r)
    BY <1>3 DEF Comparable
  <2>2. CASE agg = "l2"
    <3> HIDE DEF g
    <3>1. Cardinality(Pairs(TRUE, Differences(m, l, r)))
            <= n * Cardinality(Pairs(FALSE, Differences(metric, L, R)))
      BY <1>13, <1>14, <1>15, PairsWithinFan
    <3>2. /\ Apart(m, l, r) = Cardinality(Pairs(TRUE, Differences(m, l, r)))
          /\ Apart(metric, L, R) = Cardinality(Pairs(FALSE, Differences(metric, L, R)))
      BY <1>2, <1>3, <2>2 DEF Apart
    <3> QED BY <2>1, <2>2, <3>1, <3>2
  <2>3. CASE agg = "sum"
    <3> HIDE DEF g
    <3>1. \A x, y \in Differences(m, l, r) :
            (FALSE => x[2][1] = y[2][1]) => (FALSE => g[x][2][1] = g[y][2][1])
      OBVIOUS
    <3>2. Cardinality(Pairs(FALSE, Differences(m, l, r)))
            <= (n * n) * Cardinality(Pairs(FALSE, Differences(metric, L, R)))
      BY <1>13, <1>14, <3>1, PairsFan
    <3>3. /\ Apart(m, l, r) = Cardinality(Pairs(FALSE, Differences(m, l, r)))
          /\ Apart(metric, L, R) = Cardinality(Pairs(FALSE, Differences(metric, L, R)))
      BY <1>2, <1>3, <2>3 DEF Apart
    <3> QED BY <2>1, <2>3, <3>2, <3>3
  <2> QED BY <2>1, <2>2, <2>3
<1> HIDE DEF k, g
<1> QED BY <1>3, <1>6, <1>7, <1>8, <1>16, StableStep DEF L, R

LEMMA LimitKeysIsStable ==
  ASSUME TableInv, Stable, GroupsStay, LimitKeys
  PROVE  Stable'
<1>1. PICK C \in (SUBSET DOMAIN schema) \ {{}}, n \in Thresholds :
        \E key \in DOMAIN schema \ C : \E rank \in Orders(AllKeys(C \cup {key})),
            m \in {metric, IfGroupedByAgg({key}, "sum", C), IfGroupedByAgg({key}, "l2", C)} :
          /\ metric = IfGroupedBy(C)
          /\ Chained(LimitKeysPerGroup(left[<<>>], C, {key}, n, rank),
                     LimitKeysPerGroup(right[<<>>], C, {key}, n, rank), schema, m,
                     LimitKeysPerGroupBound(m, n))
  BY DEF LimitKeys, Chain, ChainParts, Chained
<1>2. PICK key \in DOMAIN schema \ C : \E rank \in Orders(AllKeys(C \cup {key})),
            m \in {metric, IfGroupedByAgg({key}, "sum", C), IfGroupedByAgg({key}, "l2", C)} :
          /\ metric = IfGroupedBy(C)
          /\ Chained(LimitKeysPerGroup(left[<<>>], C, {key}, n, rank),
                     LimitKeysPerGroup(right[<<>>], C, {key}, n, rank), schema, m,
                     LimitKeysPerGroupBound(m, n))
  BY <1>1
<1>3. PICK rank \in Orders(AllKeys(C \cup {key})),
            m \in {metric, IfGroupedByAgg({key}, "sum", C), IfGroupedByAgg({key}, "l2", C)} :
          /\ metric = IfGroupedBy(C)
          /\ Chained(LimitKeysPerGroup(left[<<>>], C, {key}, n, rank),
                     LimitKeysPerGroup(right[<<>>], C, {key}, n, rank), schema, m,
                     LimitKeysPerGroupBound(m, n))
  BY <1>2
<1> DEFINE l == LimitKeysPerGroup(left[<<>>], C, {key}, n, rank)
           r == LimitKeysPerGroup(right[<<>>], C, {key}, n, rank)
<1>4. C # {} /\ n \in Nat
  BY BoundsAssumption
<1>5. /\ metric.by = {} /\ metric.each = C /\ metric.agg = "none"
      /\ \A agg : /\ IfGroupedByAgg({key}, agg, C).agg = agg
                  /\ IfGroupedByAgg({key}, agg, C).by = {key}
  BY <1>3 DEF IfGroupedBy, IfGroupedByAgg, Metric
<1>6. IsTable(left[<<>>]) /\ IsTable(right[<<>>])
  BY <1>3, InHandFacts
<1>7. CASE m = metric
  <2>1. LimitKeysPerGroupBound(m, n) = bound
    BY <1>5, <1>7 DEF LimitKeysPerGroupBound
  <2>2. Chained(l, r, schema, metric, bound)
    BY <1>3, <1>7, <2>1
  <2>3. /\ IsTable(l) /\ DOMAIN l \subseteq DOMAIN left[<<>>]
        /\ IsTable(r) /\ DOMAIN r \subseteq DOMAIN right[<<>>]
    BY <1>6, LimitedRows
  <2> HIDE DEF l, r
  <2> QED BY <1>4, <1>5, <2>2, <2>3, FewerRowsAreStable
<1>8. ASSUME NEW agg \in {"sum", "l2"}, m = IfGroupedByAgg({key}, agg, C)
      PROVE  Stable'
  <2>1. m # metric /\ m.agg = agg
    BY <1>5, <1>8
  <2>2. LimitKeysPerGroupBound(m, n) = Scaled(bound, IF agg = "l2" THEN n ELSE n * n)
    BY <2>1 DEF LimitKeysPerGroupBound
  <2>3. Chained(l, r, schema, IfGroupedByAgg({key}, agg, C),
                Scaled(bound, IF agg = "l2" THEN n ELSE n * n))
    BY <1>3, <1>8, <2>2
  <2> DEFINE K == {key}
  <2>4. K # {}
    OBVIOUS
  <2>5. Chained(LimitKeysPerGroup(left[<<>>], C, K, n, rank),
                LimitKeysPerGroup(right[<<>>], C, K, n, rank), schema,
                IfGroupedByAgg(K, agg, C), Scaled(bound, IF agg = "l2" THEN n ELSE n * n))
        /\ rank \in Orders(AllKeys(C \cup K))
    BY <2>3
  <2> HIDE DEF K
  <2> QED BY <1>3, <1>4, <2>4, <2>5, LimitedKeysAreStable
<1> QED BY <1>3, <1>7, <1>8

-----------------------------------------------------------------------------
(* Rows under a grouping of their own *)

LEMMA EachOnce ==
  ASSUME NEW S, IsFiniteSet(S)
  PROVE  /\ IsTable(SetToBag(S)) /\ DOMAIN SetToBag(S) = S
         /\ \A x \in Copies(SetToBag(S)) : x[1] \in S /\ x = <<x[1], 1>>
         /\ NumRows(SetToBag(S)) = Cardinality(S)
<1> DEFINE T == SetToBag(S)
<1>1. DOMAIN T = S /\ \A x \in S : T[x] = 1
  BY DEF SetToBag
<1>2. IsTable(T)
  BY SetToBagIsTable
<1> HIDE DEF T
<1>3. \A x : x \in Copies(T) <=> \E r \in DOMAIN T : \E i \in 1 .. T[r] : x = <<r, i>>
  BY <1>2, CopiesOfTable
<1>4. \A x : x \in Copies(T) <=> \E r \in S : x = <<r, 1>>
  BY <1>1, <1>3
<1>5. Copies(T) = S \X {1}
  BY <1>4
<1>6. IsFiniteSet({1}) /\ Cardinality({1}) = 1
  BY FS_Singleton
<1>7. Cardinality(S \X {1}) = Cardinality(S) * 1 /\ Cardinality(S) \in Nat
  BY <1>6, FS_Product, FS_CardinalityType
<1>8. NumRows(T) = Cardinality(S)
  BY <1>5, <1>7 DEF NumRows
<1> QED BY <1>1, <1>2, <1>4, <1>8 DEF T

(* Of the rows a row becomes, max at most, one for each grouping value.    *)
FirstRowsBound(F, g, max) ==
  /\ IsFiniteSet(F) /\ Cardinality(F) <= max
  /\ \A x, y \in F : x[g] = y[g] => x = y

LEMMA FirstOfEachBound ==
  ASSUME UserFunctions, NEW t \in RowTransformers, NEW r, NEW g, NEW max \in Nat
  PROVE  FirstRowsBound(FirstOfEach(OutputRows(t, r, max), g), g, max)
<1> DEFINE rows == OutputRows(t, r, max)
           F == FirstOfEach(rows, g)
           len == Len(RowsOf(t, r))
           n == IF max = Infinite \/ len < max THEN len ELSE max
           first(x) == CHOOSE i \in 1 .. n : rows[i] = x
           q == [x \in F |-> first(x)]
<1>1. len \in Nat
  BY DEF UserFunctions, RowsAsAnnounced
<1>2. DOMAIN rows = 1 .. n
  BY DEF OutputRows
<1> HIDE DEF len, rows
<1>3. n \in Nat /\ n <= max
  BY <1>1 DEF Infinite
<1> HIDE DEF n
<1>4. \A x \in F : \E i \in 1 .. n : /\ x = rows[i]
                                     /\ \A h \in 1 .. i - 1 : rows[h][g] # rows[i][g]
  BY <1>2 DEF FirstOfEach
<1> HIDE DEF F
<1>5. ASSUME NEW x \in F, NEW y \in F, x[g] = y[g]
      PROVE  x = y
  <2>1. PICK i \in 1 .. n : x = rows[i] /\ \A h \in 1 .. i - 1 : rows[h][g] # rows[i][g]
    BY <1>4
  <2>2. PICK j \in 1 .. n : y = rows[j] /\ \A h \in 1 .. j - 1 : rows[h][g] # rows[j][g]
    BY <1>4
  <2>3. i = j \/ i \in 1 .. j - 1 \/ j \in 1 .. i - 1
    BY <1>3
  <2> QED BY <1>5, <2>1, <2>2, <2>3
<1>6. \A x \in F : first(x) \in 1 .. n /\ rows[first(x)] = x
  BY <1>4
<1> HIDE DEF first
<1>7. q \in Injection(F, 1 .. n)
  BY <1>6 DEF Injection, IsInjective
<1>8. IsFiniteSet(1 .. n) /\ Cardinality(1 .. n) <= max
  <2>1. 1 \in Int /\ n \in Int
    BY <1>3
  <2>2. IsFiniteSet(1 .. n) /\ Cardinality(1 .. n) = IF 1 > n THEN 0 ELSE n - 1 + 1
    BY <2>1, FS_Interval
  <2> QED BY <1>3, <2>2
<1> HIDE DEF q
<1>9. IsFiniteSet(F) /\ Cardinality(F) <= Cardinality(1 .. n)
  BY <1>7, <1>8, FS_Injection
<1>10. Cardinality(F) <= max
  BY <1>8, <1>9, FS_CardinalityType
<1> QED BY <1>5, <1>9, <1>10 DEF FirstRowsBound, F, rows

(* h tells the differences within a part apart.                            *)
FansWithin(h, k, m, l, r, n, L, R) ==
  /\ Fans(h, k, Missing(m, l, r), Missing(n, L, R))
  /\ \A x, y \in Missing(m, l, r) : h[x] = h[y] /\ x[1] = y[1] => x = y

FollowsWithin(k, m, l, r, n, L, R) == \E h : FansWithin(h, k, m, l, r, n, L, R)

(* Squares are added up within a part: of up to k differences for one, in  *)
(* parts of their own, come k pairs for one, not k * k.                    *)
LEMMA StableByFansWithin ==
  ASSUME TableInv, Stable, NEW l, NEW r, NEW s, NEW m, NEW k \in Nat,
         Chained(l, r, s, m, Scaled(bound, k)),
         IsMetric(m), m.over = "table", m.base = "rows", m.agg = "l2", IsTable(l), IsTable(r),
         metric.base = "rows", metric.agg # "l2",
         FollowsWithin(k, m, l, r, metric, left[<<>>], right[<<>>]),
         FollowsWithin(k, m, r, l, metric, right[<<>>], left[<<>>])
  PROVE  Stable'
<1>h. PICK h : FansWithin(h, k, m, l, r, metric, left[<<>>], right[<<>>])
  BY DEF FollowsWithin
<1>q. PICK q : FansWithin(q, k, m, r, l, metric, right[<<>>], left[<<>>])
  BY DEF FollowsWithin
<1> DEFINE L == left[<<>>]
           R == right[<<>>]
           g == SidesMap(h, q, Missing(m, l, r), Missing(m, r, l))
           d == Scaled(bound, k)
<1>1. IsTable(L) /\ IsTable(R)
  BY InHandFacts
<1>2. Chained(l, r, s, m, d) /\ d = Scaled(bound, k)
  OBVIOUS
<1> HIDE DEF L, R, d
<1>3. /\ Fans(h, k, Missing(m, l, r), Missing(metric, L, R))
      /\ \A x, y \in Missing(m, l, r) : h[x] = h[y] /\ x[1] = y[1] => x = y
      /\ Fans(q, k, Missing(m, r, l), Missing(metric, R, L))
      /\ \A x, y \in Missing(m, r, l) : q[x] = q[y] /\ x[1] = y[1] => x = y
  BY <1>h, <1>q DEF FansWithin, L, R
<1>4. /\ Differences(m, l, r) = Sides(Missing(m, l, r), Missing(m, r, l))
      /\ Differences(metric, L, R) = Sides(Missing(metric, L, R), Missing(metric, R, L))
  BY DEF Differences
<1>5. /\ Fans(g, k, Differences(m, l, r), Differences(metric, L, R))
      /\ \A x \in Missing(m, l, r) : g[<<1, x>>] = <<1, h[x]>>
      /\ \A x \in Missing(m, r, l) : g[<<2, x>>] = <<2, q[x]>>
  BY <1>3, <1>4, SidesFan
<1> HIDE DEF g
<1>6. IsFiniteSet(Differences(metric, L, R))
  BY <1>1, DifferencesFinite
<1>7. \A x, y \in Differences(m, l, r) : g[x] = g[y] /\ x[2][1] = y[2][1] => x = y
  <2> SUFFICES ASSUME NEW x \in Differences(m, l, r), NEW y \in Differences(m, l, r),
                      g[x] = g[y], x[2][1] = y[2][1]
               PROVE  x = y
    OBVIOUS
  <2>1. \A z \in Differences(m, l, r) :
          \/ z[2] \in Missing(m, l, r) /\ z = <<1, z[2]>> /\ g[z] = <<1, h[z[2]]>>
          \/ z[2] \in Missing(m, r, l) /\ z = <<2, z[2]>> /\ g[z] = <<2, q[z[2]]>>
    BY <1>4, <1>5 DEF Sides
  <2> QED BY <1>3, <2>1
<1>8. Cardinality(Pairs(TRUE, Differences(m, l, r)))
        <= k * Cardinality(Pairs(FALSE, Differences(metric, L, R)))
  BY <1>5, <1>6, <1>7, PairsWithinFan
<1>9. /\ Apart(m, l, r) = Cardinality(Pairs(TRUE, Differences(m, l, r)))
      /\ Apart(metric, L, R) = Cardinality(Pairs(FALSE, Differences(metric, L, R)))
  BY DEF Apart
<1>10. Comparable(m, l, r) /\ Apart(m, l, r) <= k * Apart(metric, L, R)
  BY <1>8, <1>9 DEF Comparable
<1> QED BY <1>2, <1>10, StableStep DEF L, R

(* Rows made of one row that are in different parts.                       *)
LEMMA RowsFanWithin ==
  ASSUME NEW m, m.each = {}, NEW n, n.each = {}, NEW L, IsTable(L), NEW R, IsTable(R),
         NEW f, IsFiniteSet(DOMAIN f), NEW g, IsFiniteSet(DOMAIN g), NEW a, NEW k \in Nat,
         IsSource(a, k, f, g, L, R),
         \A y, z \in DOMAIN f :
           a[y] = a[z] /\ Restrict(f[y], m.by) = Restrict(f[z], m.by) => y = z
  PROVE  FollowsWithin(k, m, Tally(f), Tally(g), n, L, R)
<1> DEFINE X == Missing(m, Tally(f), Tally(g))
           Y == Missing(n, L, R)
<1>1. PICK inj : Sourced(inj, a, k, m, f, g, n, L, R)
  BY RowSources
<1> DEFINE h == [x \in X |-> <<Restrict(a[inj[x]][1], n.by), a[inj[x]]>>]
<1>2. /\ Fans(h, k, X, Y)
      /\ \A x \in X : /\ inj[x] \in DOMAIN f
                      /\ f[inj[x]] = x[2][1]
                      /\ x[1] = Restrict(x[2][1], m.by)
      /\ \A x, y \in X : inj[x] = inj[y] => x = y
  BY <1>1 DEF Sourced
<1>3. \A x \in X : h[x] = <<Restrict(a[inj[x]][1], n.by), a[inj[x]]>>
  OBVIOUS
<1> HIDE DEF h, X, Y
<1>4. \A x, y \in X : h[x] = h[y] /\ x[1] = y[1] => x = y
  <2> SUFFICES ASSUME NEW x \in X, NEW y \in X, h[x] = h[y], x[1] = y[1]
               PROVE  x = y
    OBVIOUS
  <2>1. a[inj[x]] = a[inj[y]]
    BY <1>3
  <2>2. Restrict(f[inj[x]], m.by) = Restrict(f[inj[y]], m.by)
    BY <1>2
  <2> QED BY <1>2, <2>1, <2>2
<1>5. FansWithin(h, k, m, Tally(f), Tally(g), n, L, R)
  BY <1>2, <1>4 DEF FansWithin, X, Y
<1> QED BY <1>5 DEF FollowsWithin

(* What each row of T becomes, and what the rows of the result come from.  *)
FirstRows(T, t, max, g) == [r \in DOMAIN T |-> SetToBag(FirstOfEach(OutputRows(t, r, max), g))]
RowsMade(T, B) == [x \in Flat(T, B) |-> x[2][1]]
SourcesIn(T, B) == [x \in Flat(T, B) |-> x[1]]

MakesFirstRows(T, B, g, max) ==
  /\ \A r \in DOMAIN T : IsTable(B[r]) /\ NumRows(B[r]) <= max
  /\ IsFiniteSet(Flat(T, B)) /\ Flattened(T, B) = Tally(RowsMade(T, B))
  /\ DOMAIN RowsMade(T, B) = Flat(T, B)
  /\ \A y, z \in Flat(T, B) :
       /\ SourcesIn(T, B)[y] = SourcesIn(T, B)[z]
       /\ Restrict(RowsMade(T, B)[y], {g}) = Restrict(RowsMade(T, B)[z], {g})
       => y = z

LEMMA FirstRowsFacts ==
  ASSUME UserFunctions, NEW t \in RowTransformers, NEW g, NEW max \in Nat, NEW T, IsTable(T)
  PROVE  MakesFirstRows(T, FirstRows(T, t, max, g), g, max)
<1> DEFINE B == FirstRows(T, t, max, g)
           F(r) == FirstOfEach(OutputRows(t, r, max), g)
<1>1. \A r : FirstRowsBound(F(r), g, max)
  BY FirstOfEachBound
<1>2. \A r \in DOMAIN T : B[r] = SetToBag(F(r))
  BY DEF FirstRows
<1> HIDE DEF F, B
<1>3. ASSUME NEW r \in DOMAIN T
      PROVE  /\ IsTable(B[r]) /\ NumRows(B[r]) <= max
             /\ \A x \in Copies(B[r]) : x[1] \in F(r) /\ x = <<x[1], 1>>
             /\ \A x, y \in F(r) : x[g] = y[g] => x = y
  <2> DEFINE S == F(r)
  <2>1. /\ IsFiniteSet(S) /\ Cardinality(S) <= max
        /\ \A x, y \in S : x[g] = y[g] => x = y
    BY <1>1 DEF FirstRowsBound
  <2>2. B[r] = SetToBag(S)
    BY <1>2
  <2> HIDE DEF S
  <2>3. /\ IsTable(SetToBag(S))
        /\ \A x \in Copies(SetToBag(S)) : x[1] \in S /\ x = <<x[1], 1>>
        /\ NumRows(SetToBag(S)) = Cardinality(S)
    BY <2>1, EachOnce
  <2> QED BY <2>1, <2>2, <2>3 DEF S
<1>4. \A r \in DOMAIN T : IsTable(B[r])
  BY <1>3
<1>5. /\ IsFiniteSet(Flat(T, B))
      /\ Flattened(T, B) = Tally([x \in Flat(T, B) |-> x[2][1]])
      /\ \A x : x \in Flat(T, B) <=>
                  \E y \in Copies(T) : \E z \in Copies(B[y[1]]) : x = <<y, z>>
      /\ \A x \in Flat(T, B) : /\ x[1] \in Copies(T)
                               /\ x[1][1] \in DOMAIN T
                               /\ x[2] \in Copies(B[x[1][1]])
                               /\ x[2][1] \in DOMAIN B[x[1][1]]
  BY Zenon, <1>4, FlatCopies
<1>6. \A x \in Flat(T, B) : RowsMade(T, B)[x] = x[2][1] /\ SourcesIn(T, B)[x] = x[1]
  BY DEF RowsMade, SourcesIn
<1>7. ASSUME NEW y \in Flat(T, B), NEW z \in Flat(T, B), y[1] = z[1],
             Restrict(y[2][1], {g}) = Restrict(z[2][1], {g})
      PROVE  y = z
  <2>1. \A x : Restrict(x, {g})[g] = x[g]
    BY DEF Restrict
  <2>2. y[2][1][g] = z[2][1][g]
    BY <1>7, <2>1
  <2>3. /\ y[1][1] \in DOMAIN T /\ y[2] \in Copies(B[y[1][1]]) /\ z[2] \in Copies(B[y[1][1]])
        /\ y = <<y[1], y[2]>> /\ z = <<z[1], z[2]>>
    BY <1>5, <1>7
  <2>4. y[2][1] = z[2][1]
    BY <1>3, <2>2, <2>3
  <2> QED BY <1>3, <1>7, <2>3, <2>4
<1>8. Flattened(T, B) = Tally(RowsMade(T, B)) /\ DOMAIN RowsMade(T, B) = Flat(T, B)
  BY <1>5 DEF RowsMade
<1> HIDE DEF RowsMade, SourcesIn
<1>9. MakesFirstRows(T, B, g, max)
  BY <1>3, <1>5, <1>6, <1>7, <1>8 DEF MakesFirstRows
<1> QED BY <1>9 DEF B

LEMMA GroupingFlatMapIsStable ==
  ASSUME UserFunctions, TableInv, Stable, GroupingFlatMap
  PROVE  Stable'
<1>1. PICK t \in RowTransformers, max \in Thresholds, agg \in {"sum", "l2"} :
        \E g \in DOMAIN t.columns :
          /\ metric = SymmetricDifference
          /\ Chained(Flattened(left[<<>>], FirstRows(left[<<>>], t, max, g)),
                     Flattened(right[<<>>], FirstRows(right[<<>>], t, max, g)),
                     OutputSchema(t), IfGroupedByAgg({g}, agg, {}),
                     Scaled(bound, IF agg = "sum" THEN max * max ELSE max))
  BY DEF GroupingFlatMap, Chain, ChainParts, FlatMapped, BagToSet, Chained, FirstRows
<1>2. PICK g \in DOMAIN t.columns :
          /\ metric = SymmetricDifference
          /\ Chained(Flattened(left[<<>>], FirstRows(left[<<>>], t, max, g)),
                     Flattened(right[<<>>], FirstRows(right[<<>>], t, max, g)),
                     OutputSchema(t), IfGroupedByAgg({g}, agg, {}),
                     Scaled(bound, IF agg = "sum" THEN max * max ELSE max))
  BY <1>1
<1> DEFINE L == left[<<>>]
           R == right[<<>>]
           B == FirstRows(L, t, max, g)
           E == FirstRows(R, t, max, g)
           f == RowsMade(L, B)
           h == RowsMade(R, E)
           a == SourcesIn(L, B)
           b == SourcesIn(R, E)
           m == IfGroupedByAgg({g}, agg, {})
           s == OutputSchema(t)
<1>3. max \in Nat
  BY BoundsAssumption
<1>4. IsTable(L) /\ IsTable(R)
  BY <1>2, InHandFacts
<1> HIDE DEF L, R
<1>5. /\ \A r \in DOMAIN L : IsTable(B[r]) /\ NumRows(B[r]) <= max
      /\ IsFiniteSet(DOMAIN f) /\ Flattened(L, B) = Tally(f)
      /\ \A y, z \in DOMAIN f :
           a[y] = a[z] /\ Restrict(f[y], {g}) = Restrict(f[z], {g}) => y = z
  <2>1. MakesFirstRows(L, B, g, max)
    BY <1>3, <1>4, FirstRowsFacts
  <2> HIDE DEF B
  <2> QED BY <2>1 DEF MakesFirstRows
<1>6. /\ \A r \in DOMAIN R : IsTable(E[r]) /\ NumRows(E[r]) <= max
      /\ IsFiniteSet(DOMAIN h) /\ Flattened(R, E) = Tally(h)
      /\ \A y, z \in DOMAIN h :
           b[y] = b[z] /\ Restrict(h[y], {g}) = Restrict(h[z], {g}) => y = z
  <2>1. MakesFirstRows(R, E, g, max)
    BY <1>3, <1>4, FirstRowsFacts
  <2> HIDE DEF E
  <2> QED BY <2>1 DEF MakesFirstRows
<1>7. \A r \in DOMAIN L : r \in DOMAIN R => B[r] = E[r]
  BY DEF FirstRows
<1>8. a = [x \in Flat(L, B) |-> x[1]] /\ b = [x \in Flat(R, E) |-> x[1]]
      /\ f = [x \in Flat(L, B) |-> x[2][1]] /\ h = [x \in Flat(R, E) |-> x[2][1]]
  BY DEF SourcesIn, RowsMade
<1> HIDE DEF B, E, f, h, a, b
<1>9. IsSource(a, max, f, h, L, R)
  <2>1. IsSource([x \in Flat(L, B) |-> x[1]], max, [x \in Flat(L, B) |-> x[2][1]],
                 [x \in Flat(R, E) |-> x[2][1]], L, R)
    BY <1>3, <1>4, <1>5, <1>6, <1>7, FlattenedSource
  <2> QED BY <1>8, <2>1
<1>10. IsSource(b, max, h, f, R, L)
  <2>1. \A r \in DOMAIN R : r \in DOMAIN L => E[r] = B[r]
    BY <1>7
  <2>2. IsSource([x \in Flat(R, E) |-> x[1]], max, [x \in Flat(R, E) |-> x[2][1]],
                 [x \in Flat(L, B) |-> x[2][1]], R, L)
    BY <1>3, <1>4, <1>5, <1>6, <2>1, FlattenedSource
  <2> QED BY <1>8, <2>2
<1>11. Chained(Tally(f), Tally(h), s, m, Scaled(bound, IF agg = "sum" THEN max * max ELSE max))
  BY <1>2, <1>5, <1>6 DEF B, E, L, R
<1>12. /\ metric.each = {} /\ metric.by = {} /\ metric.base = "rows" /\ metric.agg # "l2"
       /\ IsMetric(m) /\ m.over = "table" /\ m.each = {} /\ m.base = "rows"
       /\ m.by = {g} /\ m.agg = agg
  BY <1>2 DEF SymmetricDifference, Metric, IfGroupedByAgg, IsMetric, IsIfGroupedBy
<1> HIDE DEF m, s
<1>13. CASE agg = "sum"
  <2>1. Chained(Tally(f), Tally(h), s, m, Scaled(bound, max * max))
    BY <1>11, <1>13
  <2> DEFINE d == Scaled(bound, max * max)
             name == <<>>
  <2>2. Chained(Tally(f), Tally(h), s, m, d) /\ d = Scaled(bound, max * max)
    BY <2>1
  <2> HIDE DEF d, name
  <2>3. /\ IsSource(a, max, f, h, left[<<>>], right[<<>>])
        /\ IsSource(b, max, h, f, right[<<>>], left[<<>>])
    BY <1>9, <1>10 DEF L, R
  <2>4. /\ metric.agg = "l2" => \A y \in DOMAIN f : \A c \in metric.by :
                                name[c] \in m.by /\ a[y][1][c] = f[y][name[c]]
        /\ metric.agg = "l2" => \A y \in DOMAIN h : \A c \in metric.by :
                                name[c] \in m.by /\ b[y][1][c] = h[y][name[c]]
        /\ metric.base = "hamming" => /\ Cardinality(DOMAIN f) = NumRows(left[<<>>])
                                      /\ Cardinality(DOMAIN h) = NumRows(right[<<>>])
        /\ m.base = metric.base /\ (metric.agg = "l2" => m.agg = "l2")
    BY <1>12
  <2> QED BY <1>3, <1>5, <1>6, <1>12, <2>2, <2>3, <2>4, RowsAreStable
<1>14. CASE agg = "l2"
  <2>1. Chained(Tally(f), Tally(h), s, m, Scaled(bound, max))
    BY <1>11, <1>14
  <2>2. FollowsWithin(max, m, Tally(f), Tally(h), metric, L, R)
    <3>1. \A y, z \in DOMAIN f :
            a[y] = a[z] /\ Restrict(f[y], m.by) = Restrict(f[z], m.by) => y = z
      BY <1>5, <1>12
    <3> QED BY <1>3, <1>4, <1>5, <1>6, <1>9, <1>12, <3>1, RowsFanWithin
  <2>3. FollowsWithin(max, m, Tally(h), Tally(f), metric, R, L)
    <3>1. \A y, z \in DOMAIN h :
            b[y] = b[z] /\ Restrict(h[y], m.by) = Restrict(h[z], m.by) => y = z
      BY <1>6, <1>12
    <3> QED BY <1>3, <1>4, <1>5, <1>6, <1>10, <1>12, <3>1, RowsFanWithin
  <2>4. IsTable(Tally(f)) /\ IsTable(Tally(h))
    BY <1>5, <1>6, TallyIsTable
  <2> QED BY <1>3, <1>12, <1>14, <2>1, <2>2, <2>3, <2>4, StableByFansWithin DEF L, R
<1> QED BY <1>13, <1>14

-----------------------------------------------------------------------------
(* Parts *)

(* A difference in the part k of the tables, as a difference of the tables: *)
(* grouping by columns of K was left out in the parts.                     *)
Merged(by, K, k, p) == [c \in by |-> IF c \in K THEN k[c] ELSE p[c]]
FromRow(x, m, K, k, p, w) ==
  /\ Restrict(x, K) = k /\ Restrict(x, m.by \ K) = p
  /\ IF m.each = {} THEN x = w[1] ELSE Restrict(x, m.each) = w

LEMMA MergedRestricts ==
  ASSUME NEW x, NEW by, NEW K
  PROVE  Merged(by, K, Restrict(x, K), Restrict(x, by \ K)) = Restrict(x, by)
<1>1. \A c \in by : IF c \in K THEN Restrict(x, K)[c] = x[c] ELSE Restrict(x, by \ K)[c] = x[c]
  BY DEF Restrict
<1>2. Restrict(x, by) = [c \in by |-> x[c]]
  BY DEF Restrict
<1> QED BY <1>1, <1>2 DEF Merged

LEMMA PartExcepts ==
  ASSUME NEW L, IsTable(L), NEW R, IsTable(R), NEW K, NEW k, NEW w
  PROVE  w \in ExceptAll(Group(L, K, k), Group(R, K, k))
           <=> w \in ExceptAll(L, R) /\ Restrict(w[1], K) = k
<1> DEFINE m == IfGroupedByAgg(K, "sum", {})
<1>1. m.by = K /\ m.each = {}
  BY DEF IfGroupedByAgg, Metric
<1> HIDE DEF m
<1>2. \A i, x : <<i, x>> \in Missing(m, L, R)
                  <=> x \in InnerMissing(m.each, Group(L, m.by, i), Group(R, m.by, i))
  BY MissingElement
<1>3. \A d : d \in Missing(m, L, R)
               <=> \E x \in ExceptAll(L, R) : d = <<Restrict(x[1], m.by), x>>
  BY <1>1, MissingRows
<1>4. <<k, w>> \in Missing(m, L, R)
         <=> w \in InnerMissing({}, Group(L, K, k), Group(R, K, k))
  BY <1>1, <1>2
<1>5. <<k, w>> \in Missing(m, L, R) <=> w \in ExceptAll(L, R) /\ Restrict(w[1], K) = k
  BY <1>1, <1>3
<1> QED BY <1>4, <1>5 DEF InnerMissing

LEMMA PartMissing ==
  ASSUME NEW L, IsTable(L), NEW R, IsTable(R), NEW m, NEW K,
         NEW n, n.by = m.by \ K, n.each = m.each, NEW k, NEW p, NEW w,
         <<p, w>> \in Missing(n, Group(L, K, k), Group(R, K, k))
  PROVE  /\ <<Merged(m.by, K, k, p), w>> \in Missing(m, L, R)
         /\ \E x : FromRow(x, m, K, k, p, w)
<1> DEFINE G == Group(L, K, k)
           H == Group(R, K, k)
           q == Merged(m.by, K, k, p)
<1>1. IsTable(G) /\ IsTable(H)
  BY GroupIsTable
<1>2. CASE m.each = {}
  <2>1. \A d : d \in Missing(n, G, H)
                 <=> \E x \in ExceptAll(G, H) : d = <<Restrict(x[1], n.by), x>>
    <3>1. n.each = {}
      BY <1>2
    <3> HIDE DEF G, H
    <3> QED BY ONLY <1>1, <3>1, MissingRows
  <2>2. w \in ExceptAll(G, H) /\ p = Restrict(w[1], n.by)
    <3>1. <<p, w>> \in Missing(n, G, H)
      OBVIOUS
    <3> HIDE DEF G, H
    <3> QED BY <2>1, <3>1
  <2>3. w \in ExceptAll(L, R) /\ Restrict(w[1], K) = k
    BY <2>2, PartExcepts
  <2>4. q = Restrict(w[1], m.by)
    BY <2>2, <2>3, MergedRestricts
  <2>5. \A d : d \in Missing(m, L, R)
                 <=> \E x \in ExceptAll(L, R) : d = <<Restrict(x[1], m.by), x>>
    BY <1>2, MissingRows
  <2>6. FromRow(w[1], m, K, k, p, w)
    BY <1>2, <2>2, <2>3 DEF FromRow
  <2> QED BY <2>3, <2>4, <2>5, <2>6
<1>3. CASE m.each # {}
  <2>1. \A i, j : <<i, j>> \in Missing(n, G, H)
              <=> /\ \E x \in DOMAIN G : Restrict(x, n.by) = i /\ Restrict(x, n.each) = j
                  /\ ~ \A x : Restrict(x, n.by) = i /\ Restrict(x, n.each) = j =>
                          /\ x \in DOMAIN G <=> x \in DOMAIN H
                          /\ x \in DOMAIN G => G[x] = H[x]
    <3>1. n.each # {}
      BY <1>3
    <3> HIDE DEF G, H
    <3> QED BY ONLY <1>1, <3>1, MissingGroups
  <2>2. <<p, w>> \in Missing(n, G, H)
    OBVIOUS
  <2>3. /\ \A x : x \in DOMAIN G <=> x \in DOMAIN L /\ Restrict(x, K) = k
        /\ \A x \in DOMAIN G : G[x] = L[x]
        /\ \A x : x \in DOMAIN H <=> x \in DOMAIN R /\ Restrict(x, K) = k
        /\ \A x \in DOMAIN H : H[x] = R[x]
    BY GroupIsTable
  <2> HIDE DEF G, H
  <2>4. PICK x \in DOMAIN G : Restrict(x, n.by) = p /\ Restrict(x, n.each) = w
    BY <2>1, <2>2
  <2>5. PICK y : /\ Restrict(y, n.by) = p /\ Restrict(y, n.each) = w
                 /\ ~ (/\ y \in DOMAIN G <=> y \in DOMAIN H
                       /\ y \in DOMAIN G => G[y] = H[y])
    BY <2>1, <2>2
  <2>6. /\ x \in DOMAIN L /\ Restrict(x, K) = k /\ Restrict(y, K) = k
        /\ ~ (/\ y \in DOMAIN L <=> y \in DOMAIN R
              /\ y \in DOMAIN L => L[y] = R[y])
    BY <2>3, <2>4, <2>5
  <2>7. q = Restrict(x, m.by) /\ q = Restrict(y, m.by)
    BY <2>4, <2>5, <2>6, MergedRestricts
  <2>8. Restrict(x, m.each) = w /\ Restrict(y, m.each) = w
    BY <2>4, <2>5
  <2>9. \A i, j : <<i, j>> \in Missing(m, L, R)
              <=> /\ \E z \in DOMAIN L : Restrict(z, m.by) = i /\ Restrict(z, m.each) = j
                  /\ ~ \A z : Restrict(z, m.by) = i /\ Restrict(z, m.each) = j =>
                          /\ z \in DOMAIN L <=> z \in DOMAIN R
                          /\ z \in DOMAIN L => L[z] = R[z]
    BY ONLY <1>3, IsTable(L), IsTable(R), MissingGroups
  <2> HIDE DEF q
  <2>10. <<q, w>> \in Missing(m, L, R)
    BY <2>6, <2>7, <2>8, <2>9
  <2>11. FromRow(x, m, K, k, p, w)
    BY <1>3, <2>4, <2>6 DEF FromRow
  <2> QED BY <2>10, <2>11 DEF q
<1> QED BY <1>2, <1>3

(* The difference of the tables tells the part and the difference in it,   *)
(* if the rows of a group are in one part.                                 *)
LEMMA PartsApart ==
  ASSUME NEW m, NEW K, m.each # {} => K \subseteq m.by \cup m.each,
         NEW j, NEW p, NEW v, \E x : FromRow(x, m, K, j, p, v),
         NEW k, NEW q, NEW w, \E x : FromRow(x, m, K, k, q, w),
         Merged(m.by, K, j, p) = Merged(m.by, K, k, q), v = w
  PROVE  j = k /\ p = q
<1>1. PICK x : FromRow(x, m, K, j, p, v)
  OBVIOUS
<1>2. PICK y : FromRow(y, m, K, k, q, w)
  OBVIOUS
<1>3. /\ Restrict(x, K) = j /\ Restrict(x, m.by \ K) = p
      /\ Restrict(y, K) = k /\ Restrict(y, m.by \ K) = q
  BY <1>1, <1>2 DEF FromRow
<1>4. Restrict(x, m.by) = Restrict(y, m.by)
  BY <1>3, MergedRestricts
<1>5. CASE m.each = {}
  BY <1>1, <1>2, <1>3, <1>5 DEF FromRow
<1>6. CASE m.each # {}
  <2>1. Restrict(x, m.each) = Restrict(y, m.each)
    BY <1>1, <1>2, <1>6 DEF FromRow
  <2>2. \A C : (\A c \in C : x[c] = y[c]) => Restrict(x, C) = Restrict(y, C)
    BY DEF Restrict
  <2>3. \A C : Restrict(x, C) = Restrict(y, C) => \A c \in C : x[c] = y[c]
    <3> SUFFICES ASSUME NEW C, Restrict(x, C) = Restrict(y, C), NEW c \in C PROVE x[c] = y[c]
      OBVIOUS
    <3>1. Restrict(x, C)[c] = x[c] /\ Restrict(y, C)[c] = y[c]
      BY DEF Restrict
    <3> QED BY <3>1
  <2>4. \A c \in m.by \cup m.each : x[c] = y[c]
    BY <1>4, <2>1, <2>3
  <2>5. Restrict(x, K) = Restrict(y, K) /\ Restrict(x, m.by \ K) = Restrict(y, m.by \ K)
    BY <1>6, <2>2, <2>4
  <2> QED BY <1>3, <2>5
<1> QED BY <1>5, <1>6

InParts(S) == UNION {{k} \X S[k] : k \in DOMAIN S}

(* Numbers of what is in the parts add up to no more than there is, if     *)
(* everything in a part is something of its own.                           *)
LEMMA SumOverParts ==
  ASSUME NEW S, IsFiniteSet(DOMAIN S), \A k \in DOMAIN S : IsFiniteSet(S[k]),
         NEW T, IsFiniteSet(T), NEW h \in [InParts(S) -> T],
         \A d, e \in InParts(S) : h[d] = h[e] => d = e,
         NEW f, f = [k \in DOMAIN S |-> Cardinality(S[k])]
  PROVE  SumFunction(f) \in Nat /\ SumFunction(f) <= Cardinality(T)
<1> DEFINE P == [k \in DOMAIN S |-> {k} \X S[k]]
           E == UNION {P[k] : k \in DOMAIN f}
<1>1. DOMAIN f = DOMAIN S /\ \A k \in DOMAIN S : P[k] = {k} \X S[k]
  OBVIOUS
<1>2. E = InParts(S)
  BY <1>1 DEF InParts
<1>3. ASSUME NEW k \in DOMAIN S
      PROVE  IsFiniteSet(P[k]) /\ Cardinality(P[k]) = Cardinality(S[k])
  <2>1. IsFiniteSet({k}) /\ Cardinality({k}) = 1
    BY FS_Singleton
  <2>2. IsFiniteSet({k} \X S[k]) /\ Cardinality({k} \X S[k]) = 1 * Cardinality(S[k])
    BY <2>1, FS_Product
  <2> QED BY <1>1, <2>2, FS_CardinalityType
<1>4. \A j, k \in DOMAIN f : j # k => P[j] \cap P[k] = {}
  BY <1>1
<1>5. \A k \in DOMAIN f : IsFiniteSet(P[k]) /\ f[k] = Cardinality(P[k])
  BY <1>1, <1>3
<1> HIDE DEF P
<1>6. IsFiniteSet(E) /\ SumFunction(f) = Cardinality(E)
  <2>1. IsFiniteSet(DOMAIN f)
    BY <1>1
  <2>2. /\ IsFiniteSet(UNION {P[k] : k \in DOMAIN f})
        /\ SumFunction(f) = Cardinality(UNION {P[k] : k \in DOMAIN f})
    BY ONLY <1>4, <1>5, <2>1, SumOfParts
  <2> QED BY <2>2
<1> HIDE DEF E
<1>7. h \in Injection(E, T)
  BY <1>2 DEF Injection, IsInjective
<1>8. Cardinality(E) <= Cardinality(T)
  BY <1>7, FS_Injection
<1> QED BY <1>6, <1>8, FS_CardinalityType

PartDifferences(n, L, R, K, k) == Differences(n, Group(L, K, k), Group(R, K, k))
InWhole(m, K, e) == <<e[2][1], <<Merged(m.by, K, e[1], e[2][2][1]), e[2][2][2]>>>>

LEMMA DifferenceInPart ==
  ASSUME NEW L, IsTable(L), NEW R, IsTable(R), NEW m, m.base = "rows", NEW K,
         NEW n, n.by = m.by \ K, n.each = m.each, n.base = "rows",
         NEW k, NEW d \in PartDifferences(n, L, R, K, k)
  PROVE  /\ d = <<d[1], <<d[2][1], d[2][2]>>>>
         /\ InWhole(m, K, <<k, d>>) \in Differences(m, L, R)
         /\ \E x : FromRow(x, m, K, k, d[2][1], d[2][2])
<1> DEFINE G == Group(L, K, k)
           H == Group(R, K, k)
           q == Merged(m.by, K, k, d[2][1])
<1>1. IsTable(G) /\ IsTable(H)
  BY GroupIsTable
<1>2. /\ Differences(m, L, R) = Sides(Missing(m, L, R), Missing(m, R, L))
      /\ d \in Sides(Missing(n, G, H), Missing(n, H, G))
  BY DEF Differences, PartDifferences
<1>3. InWhole(m, K, <<k, d>>) = <<d[1], <<q, d[2][2]>>>>
  BY DEF InWhole
<1>4. CASE d[2] \in Missing(n, G, H) /\ d = <<1, d[2]>>
  <2>1. d[2] = <<d[2][1], d[2][2]>>
    <3> HIDE DEF G, H
    <3> QED BY <1>1, <1>4, MissingElement
  <2>2. <<d[2][1], d[2][2]>> \in Missing(n, G, H)
    BY <1>4, <2>1
  <2>3. <<q, d[2][2]>> \in Missing(m, L, R) /\ \E x : FromRow(x, m, K, k, d[2][1], d[2][2])
    BY <2>2, PartMissing
  <2> HIDE DEF q
  <2>4. d = <<d[1], <<d[2][1], d[2][2]>>>>
    BY <1>4, <2>1
  <2>5. <<1, <<q, d[2][2]>>>> \in Differences(m, L, R)
    BY <1>2, <2>3 DEF Sides
  <2>6. d[1] = 1
    BY <1>4
  <2> QED BY <1>3, <2>3, <2>4, <2>5, <2>6
<1>5. CASE d[2] \in Missing(n, H, G) /\ d = <<2, d[2]>>
  <2>1. d[2] = <<d[2][1], d[2][2]>>
    <3> HIDE DEF G, H
    <3> QED BY <1>1, <1>5, MissingElement
  <2>2. <<d[2][1], d[2][2]>> \in Missing(n, H, G)
    BY <1>5, <2>1
  <2>3. <<q, d[2][2]>> \in Missing(m, R, L) /\ \E x : FromRow(x, m, K, k, d[2][1], d[2][2])
    BY <2>2, PartMissing
  <2> HIDE DEF q
  <2>4. d = <<d[1], <<d[2][1], d[2][2]>>>>
    BY <1>5, <2>1
  <2>5. <<2, <<q, d[2][2]>>>> \in Differences(m, L, R)
    BY <1>2, <2>3 DEF Sides
  <2>6. d[1] = 2
    BY <1>5
  <2> QED BY <1>3, <2>3, <2>4, <2>5, <2>6
<1>6. \/ d[2] \in Missing(n, G, H) /\ d = <<1, d[2]>>
      \/ d[2] \in Missing(n, H, G) /\ d = <<2, d[2]>>
  <2> HIDE DEF G, H
  <2> QED BY <1>2 DEF Sides
<1> QED BY <1>4, <1>5, <1>6

LEMMA DifferenceInOnePart ==
  ASSUME NEW L, IsTable(L), NEW R, IsTable(R), NEW m, m.base = "rows", NEW K,
         m.each # {} => K \subseteq m.by \cup m.each,
         NEW n, n.by = m.by \ K, n.each = m.each, n.base = "rows",
         NEW j, NEW d \in PartDifferences(n, L, R, K, j),
         NEW k, NEW e \in PartDifferences(n, L, R, K, k),
         InWhole(m, K, <<j, d>>) = InWhole(m, K, <<k, e>>)
  PROVE  j = k /\ d = e
<1>1. d = <<d[1], <<d[2][1], d[2][2]>>>> /\ \E x : FromRow(x, m, K, j, d[2][1], d[2][2])
  BY DifferenceInPart
<1>2. e = <<e[1], <<e[2][1], e[2][2]>>>> /\ \E x : FromRow(x, m, K, k, e[2][1], e[2][2])
  BY DifferenceInPart
<1> DEFINE p == d[2][1]
           v == d[2][2]
           q == e[2][1]
           w == e[2][2]
<1>3. d[1] = e[1] /\ Merged(m.by, K, j, p) = Merged(m.by, K, k, q) /\ v = w
  BY DEF InWhole
<1>4. (\E x : FromRow(x, m, K, j, p, v)) /\ (\E x : FromRow(x, m, K, k, q, w))
  BY <1>1, <1>2
<1>5. d = <<d[1], <<p, v>>>> /\ e = <<e[1], <<q, w>>>>
  BY <1>1, <1>2
<1> HIDE DEF p, v, q, w
<1>6. j = k /\ p = q
  BY <1>3, <1>4, PartsApart
<1> QED BY <1>3, <1>5, <1>6

(* The tables of the parts are no further apart, together, than the tables *)
(* that were parted.                                                       *)
LEMMA PartsDistance ==
  ASSUME NEW L, IsTable(L), NEW R, IsTable(R), NEW m, m.base = "rows", NEW K,
         m.each # {} => K \subseteq m.by \cup m.each,
         NEW n, IsMetric(n), n.by = m.by \ K, n.each = m.each, n.base = "rows",
         n.over = "sum" => m.agg # "l2" /\ n.agg # "l2",
         m.agg = "l2" => n.agg = "l2" \/ m.by \subseteq K,
         NEW values, IsFiniteSet(values),
         NEW l, l = Parts(L, K, values), NEW r, r = Parts(R, K, values)
  PROVE  Distance(n, l, r) \in Nat /\ Distance(n, l, r) <= Apart(m, L, R)
<1> DEFINE D == Differences(m, L, R)
           S == [k \in values |-> PartDifferences(n, L, R, K, k)]
           within == n.agg = "l2"
           Q == [k \in values |-> Pairs(n.agg = "l2", PartDifferences(n, L, R, K, k))]
           T == Pairs(m.agg = "l2", D)
           h == [e \in InParts(S) |-> InWhole(m, K, e)]
           i == [e \in InParts(Q) |-> <<InWhole(m, K, <<e[1], e[2][1]>>),
                                        InWhole(m, K, <<e[1], e[2][2]>>)>>]
           f == [k \in values |-> Cardinality(S[k])]
           g == [k \in values |-> Cardinality(Q[k])]
<1>1. IsFiniteSet(D) /\ Cardinality(D) \in Nat /\ IsFiniteSet(T)
  BY DifferencesFinite, PairsFinite, FS_CardinalityType
<1>2. ASSUME NEW k \in values
      PROVE  /\ IsFiniteSet(S[k]) /\ S[k] = PartDifferences(n, L, R, K, k)
             /\ IsFiniteSet(Q[k]) /\ Q[k] = Pairs(n.agg = "l2", S[k])
             /\ n.agg # "l2" => TableDistance(n, l[k], r[k]) = Cardinality(S[k])
             /\ TableSquare(n, l[k], r[k]) = Cardinality(Q[k])
  <2> DEFINE G == Group(L, K, k)
             H == Group(R, K, k)
  <2>1. IsTable(G) /\ IsTable(H)
    BY GroupIsTable
  <2>2. l[k] = G /\ r[k] = H
    BY DEF Parts
  <2>3. S[k] = Differences(n, G, H) /\ Q[k] = Pairs(n.agg = "l2", Differences(n, G, H))
    BY DEF PartDifferences
  <2>4. S[k] = PartDifferences(n, L, R, K, k)
    OBVIOUS
  <2> HIDE DEF G, H, S, Q
  <2>5. IsFiniteSet(S[k]) /\ IsFiniteSet(Q[k])
    BY <2>1, <2>3, DifferencesFinite, PairsFinite
  <2>6. n.base = "hamming" => NumRows(G) = NumRows(H)
    OBVIOUS
  <2>7. /\ n.agg # "l2" => TableDistance(n, G, H) = Cardinality(Differences(n, G, H))
        /\ TableSquare(n, G, H) = Cardinality(Pairs(n.agg = "l2", Differences(n, G, H)))
    BY <2>1, <2>6, DistanceCounts
  <2> QED BY <2>2, <2>3, <2>4, <2>5, <2>7
<1>3. DOMAIN S = values /\ DOMAIN Q = values /\ DOMAIN l = values
  BY DEF Parts
<1> HIDE DEF S, Q, D
<1>4. \A e \in InParts(S) : e = <<e[1], e[2]>> /\ e[1] \in values /\ e[2] \in S[e[1]]
  BY <1>3 DEF InParts
<1>5. \A e \in InParts(Q) : /\ e = <<e[1], e[2]>> /\ e[1] \in values
                            /\ e[2] = <<e[2][1], e[2][2]>>
                            /\ e[2][1] \in S[e[1]] /\ e[2][2] \in S[e[1]]
                            /\ n.agg = "l2" => e[2][1][2][1] = e[2][2][2][1]
  <2>1. \A e \in InParts(Q) : e = <<e[1], e[2]>> /\ e[1] \in values /\ e[2] \in Q[e[1]]
    BY <1>3 DEF InParts
  <2> SUFFICES ASSUME NEW e \in InParts(Q)
               PROVE  /\ e = <<e[1], e[2]>> /\ e[1] \in values
                      /\ e[2] = <<e[2][1], e[2][2]>>
                      /\ e[2][1] \in S[e[1]] /\ e[2][2] \in S[e[1]]
                      /\ n.agg = "l2" => e[2][1][2][1] = e[2][2][2][1]
    OBVIOUS
  <2>2. e[2] \in Pairs(n.agg = "l2", S[e[1]])
    BY <1>2, <2>1
  <2> QED BY <2>1, <2>2 DEF Pairs
<1>6. ASSUME NEW k \in values, NEW d \in S[k]
      PROVE  InWhole(m, K, <<k, d>>) \in D
  <2>1. d \in PartDifferences(n, L, R, K, k)
    BY <1>2
  <2> QED BY <2>1, DifferenceInPart DEF D
<1>7. ASSUME NEW j \in values, NEW d \in S[j], NEW k \in values, NEW e \in S[k],
             InWhole(m, K, <<j, d>>) = InWhole(m, K, <<k, e>>)
      PROVE  j = k /\ d = e
  <2>1. d \in PartDifferences(n, L, R, K, j) /\ e \in PartDifferences(n, L, R, K, k)
    BY <1>2
  <2> QED BY <1>7, <2>1, DifferenceInOnePart
<1>8. CASE n.over = "sum"
  <2>1. h \in [InParts(S) -> D]
    BY <1>4, <1>6
  <2>2. \A d, e \in InParts(S) : h[d] = h[e] => d = e
    <3> SUFFICES ASSUME NEW d \in InParts(S), NEW e \in InParts(S), h[d] = h[e] PROVE d = e
      OBVIOUS
    <3>1. InWhole(m, K, <<d[1], d[2]>>) = InWhole(m, K, <<e[1], e[2]>>)
      BY <1>4
    <3> QED BY <1>4, <1>7, <3>1
  <2>3. f = [k \in DOMAIN S |-> Cardinality(S[k])]
    BY <1>3
  <2>4. \A k \in DOMAIN S : IsFiniteSet(S[k])
    BY <1>2, <1>3
  <2> DEFINE v == [k \in DOMAIN l |-> TableDistance(n, l[k], r[k])]
  <2>5. v = f
    BY <1>2, <1>3, <1>8
  <2>6. Distance(n, l, r) = Square(SumFunction(v))
    BY <1>8 DEF Distance
  <2> HIDE DEF f, h, v
  <2>7. SumFunction(f) \in Nat /\ SumFunction(f) <= Cardinality(D)
    BY <1>1, <1>3, <2>1, <2>2, <2>3, <2>4, SumOverParts
  <2> DEFINE a == SumFunction(f)
             b == Cardinality(D)
  <2>8. Square(b) = Apart(m, L, R)
    <3>1. Square(Cardinality(D)) = Cardinality(Pairs(FALSE, D))
      BY <1>1, SquareCounts
    <3>2. Apart(m, L, R) = Cardinality(Pairs(FALSE, D))
      <4>1. (m.agg = "l2") = FALSE
        BY <1>8
      <4> QED BY <4>1 DEF Apart, D
    <3> QED BY <3>1, <3>2
  <2>9. a \in Nat /\ b \in Nat /\ a <= b
    BY <1>1, <2>7
  <2>10. Distance(n, l, r) = Square(a)
    BY <2>5, <2>6
  <2> HIDE DEF a, b
  <2>11. Square(a) = a * a /\ Square(b) = b * b /\ a * a \in Nat
    BY <2>9 DEF Square, Infinite
  <2>12. a * a <= b * b
    BY <2>9, ProductOfBounds
  <2> QED BY <2>8, <2>10, <2>11, <2>12
<1>9. CASE n.over # "sum"
  <2>1. ASSUME NEW e \in InParts(Q)
        PROVE  <<InWhole(m, K, <<e[1], e[2][1]>>), InWhole(m, K, <<e[1], e[2][2]>>)>> \in T
    <3> DEFINE x == InWhole(m, K, <<e[1], e[2][1]>>)
               y == InWhole(m, K, <<e[1], e[2][2]>>)
    <3>1. x \in D /\ y \in D
      BY <1>5, <1>6
    <3>2. /\ x[2][1] = Merged(m.by, K, e[1], e[2][1][2][1])
          /\ y[2][1] = Merged(m.by, K, e[1], e[2][2][2][1])
      BY DEF InWhole
    <3>3. m.agg = "l2" => x[2][1] = y[2][1]
      <4>1. n.agg = "l2" => e[2][1][2][1] = e[2][2][2][1]
        BY <1>5
      <4>2. m.by \subseteq K => \A p, q : Merged(m.by, K, e[1], p) = Merged(m.by, K, e[1], q)
        BY DEF Merged
      <4> QED BY <3>2, <4>1, <4>2
    <3> HIDE DEF x, y
    <3>4. <<x, y>> \in T
      BY <3>1, <3>3 DEF Pairs
    <3> QED BY <3>4 DEF x, y
  <2>2. i \in [InParts(Q) -> T]
    BY <2>1
  <2>3. \A d, e \in InParts(Q) : i[d] = i[e] => d = e
    <3> SUFFICES ASSUME NEW d \in InParts(Q), NEW e \in InParts(Q), i[d] = i[e] PROVE d = e
      OBVIOUS
    <3>1. /\ InWhole(m, K, <<d[1], d[2][1]>>) = InWhole(m, K, <<e[1], e[2][1]>>)
          /\ InWhole(m, K, <<d[1], d[2][2]>>) = InWhole(m, K, <<e[1], e[2][2]>>)
      OBVIOUS
    <3>2. d[1] = e[1] /\ d[2][1] = e[2][1]
      BY <1>5, <1>7, <3>1
    <3>3. d[2][2] = e[2][2]
      BY <1>5, <1>7, <3>1
    <3> QED BY <1>5, <3>2, <3>3
  <2>4. g = [k \in DOMAIN Q |-> Cardinality(Q[k])]
    BY <1>3
  <2>5. \A k \in DOMAIN Q : IsFiniteSet(Q[k])
    BY <1>2, <1>3
  <2> DEFINE v == [k \in DOMAIN l |-> TableSquare(n, l[k], r[k])]
  <2>6. v = g
    BY <1>2, <1>3
  <2>7. Distance(n, l, r) = SumFunction(v)
    BY <1>9 DEF Distance
  <2> HIDE DEF g, i, v, T
  <2>8. SumFunction(g) \in Nat /\ SumFunction(g) <= Cardinality(T)
    BY <1>1, <1>3, <2>2, <2>3, <2>4, <2>5, SumOverParts
  <2>9. Cardinality(T) = Apart(m, L, R)
    BY DEF Apart, T, D
  <2> QED BY <2>6, <2>7, <2>8, <2>9
<1> QED BY <1>8, <1>9

LEMMA PartsAreStable ==
  ASSUME TableInv, metric.over = "table", NEW K, NEW values, IsFiniteSet(values),
         left' = Parts(left[<<>>], K, values), right' = Parts(right[<<>>], K, values),
         NEW n, metric' = n, NEW d \in Nat \cup {Infinite}, bound' = d,
         NEW m, m.base = "rows", m.each # {} => K \subseteq m.by \cup m.each,
         IsMetric(n), n.by = m.by \ K, n.each = m.each, n.base = "rows",
         n.over = "sum" => m.agg # "l2" /\ n.agg # "l2",
         m.agg = "l2" => n.agg = "l2" \/ m.by \subseteq K,
         d # Infinite => Apart(m, left[<<>>], right[<<>>]) <= d
  PROVE  Stable'
<1> DEFINE L == left[<<>>]
           R == right[<<>>]
           l == Parts(L, K, values)
           r == Parts(R, K, values)
           a == Apart(m, L, R)
           D == Distance(n, l, r)
<1>1. IsTable(L) /\ IsTable(R)
  BY TablesInHand
<1>2. a \in Nat
  BY <1>1, ApartType
<1>3. l = Parts(L, K, values) /\ r = Parts(R, K, values)
  OBVIOUS
<1>4. left' = l /\ right' = r /\ (d # Infinite => a <= d)
  OBVIOUS
<1> HIDE DEF L, R, l, r
<1>5. D \in Nat /\ D <= a
  BY <1>1, <1>3, PartsDistance
<1>6. Stable' <=> Within(D, d)
  BY <1>4 DEF Stable
<1> HIDE DEF a, D
<1> QED BY <1>2, <1>4, <1>5, <1>6 DEF Within, Infinite

(* PartitionByKeys by columns that the rows of a group may differ in       *)
(* spreads a group that differs over several parts, in each of which it    *)
(* counts.                                                                 *)
WholeGroups ==
  \E K \in (SUBSET (PartitionColumns \cap DOMAIN schema)) \ {{}}, agg \in {"sum", "l2"} :
    /\ metric.each # {} => K \subseteq metric.by \cup metric.each
    /\ metric = SymmetricDifference \/ metric.agg = agg
    /\ \E values \in KeyChoices(K) :
         ChainParts(LAMBDA T : Parts(T, K, values), schema, PartMetric(agg, K), bound)

LEMMA BoundHolds ==
  ASSUME TableInv, Stable, metric.over = "table", bound # Infinite
  PROVE  /\ Comparable(metric, left[<<>>], right[<<>>])
         /\ Apart(metric, left[<<>>], right[<<>>]) <= bound
BY TablesInHand

LEMMA PartitionByKeysIsStable ==
  ASSUME TableInv, Stable, WholeGroups
  PROVE  Stable'
<1>1. PICK K \in SUBSET (PartitionColumns \cap DOMAIN schema), agg \in {"sum", "l2"} :
        /\ metric.each # {} => K \subseteq metric.by \cup metric.each
        /\ metric = SymmetricDifference \/ metric.agg = agg
        /\ \E values \in KeyChoices(K) :
             /\ Announce(schema, PartMetric(agg, K), bound)
             /\ left' = Parts(left[<<>>], K, values) /\ right' = Parts(right[<<>>], K, values)
  BY DEF WholeGroups, ChainParts
<1>2. PICK values \in KeyChoices(K) :
        /\ Announce(schema, PartMetric(agg, K), bound)
        /\ left' = Parts(left[<<>>], K, values) /\ right' = Parts(right[<<>>], K, values)
  BY <1>1
<1>3. IsFiniteSet(values)
  BY DEF KeyChoices
<1>4. metric.over = "table" /\ metric' = PartMetric(agg, K) /\ bound' = bound
  BY <1>2 DEF Announce
<1>5. DOMAIN metric = {"base", "by", "agg", "each", "over"} /\ IsMetric(metric)
  BY DEF TableInv, IsMetric, SymmetricDifference, Metric
<1> DEFINE rest == metric.by \ K
           o == [metric EXCEPT !.by = rest, !.agg = IF rest = {} THEN "none" ELSE @]
           n == PartMetric(agg, K)
<1>6. /\ DOMAIN o = DOMAIN metric
      /\ o.base = metric.base /\ o.by = rest /\ o.each = metric.each
      /\ o.agg = IF rest = {} THEN "none" ELSE metric.agg
  BY <1>5
<1>7. n = [o EXCEPT !.over = agg]
  BY DEF PartMetric, Over
<1> HIDE DEF o, n
<1>8. /\ DOMAIN n = DOMAIN metric /\ n.over = agg
      /\ n.base = metric.base /\ n.by = metric.by \ K /\ n.each = metric.each
      /\ n.agg = IF metric.by \ K = {} THEN "none" ELSE metric.agg
  BY <1>5, <1>6, <1>7
<1>9. metric.base = "rows"
  <2>1. SymmetricDifference.base = "rows"
    BY DEF SymmetricDifference, Metric
  <2> QED BY <1>1, <1>5, <2>1 DEF IsMetric, IsIfGroupedBy
<1>10. IsMetric(n)
  BY <1>5, <1>8, <1>9 DEF IsMetric
<1>11. metric = SymmetricDifference => metric.agg = "none"
  BY DEF SymmetricDifference, Metric
<1>12. /\ n.over = "sum" => metric.agg # "l2" /\ n.agg # "l2"
       /\ metric.agg = "l2" => n.agg = "l2" \/ metric.by \subseteq K
  BY <1>1, <1>8, <1>11
<1>13. bound \in Nat \cup {Infinite}
  BY DEF TableInv, TypeOK
<1>14. bound # Infinite => Apart(metric, left[<<>>], right[<<>>]) <= bound
  BY <1>4, BoundHolds
<1>15. metric' = n
  BY <1>4 DEF n
<1> HIDE DEF rest
<1> QED
  BY <1>1, <1>2, <1>3, <1>4, <1>8, <1>9, <1>10, <1>12, <1>13, <1>14, <1>15, PartsAreStable

LEMMA GroupByIsStable ==
  ASSUME TableInv, Stable, GroupBy
  PROVE  Stable'
<1> DEFINE d == IF metric.base = "hamming" THEN Scaled(bound, 4) ELSE bound
           L == left[<<>>]
           R == right[<<>>]
<1>1. PICK K \in SUBSET DOMAIN schema, agg \in {"sum", "l2"} :
        /\ IsIfGroupedBy(metric) =>
             metric.by \subseteq K /\ metric = IfGroupedByAgg(metric.by, agg, {})
        /\ \E values \in KeyChoices(K) :
             /\ Announce(schema, Over(agg, SymmetricDifference), d)
             /\ left' = Parts(L, K, values) /\ right' = Parts(R, K, values)
  BY DEF GroupBy, ChainParts
<1>2. PICK values \in KeyChoices(K) :
        /\ Announce(schema, Over(agg, SymmetricDifference), d)
        /\ left' = Parts(L, K, values) /\ right' = Parts(R, K, values)
  BY <1>1
<1> DEFINE n == Over(agg, SymmetricDifference)
           m == IF metric.base = "hamming" THEN SymmetricDifference ELSE metric
<1>3. IsFiniteSet(values)
  BY DEF KeyChoices
<1>4. metric.over = "table" /\ metric' = n /\ bound' = d
  BY <1>2 DEF Announce
<1>5. IsMetric(n) /\ n.over = agg /\ n.by = {} /\ n.each = {} /\ n.agg = "none" /\ n.base = "rows"
  BY PlainMetric DEF Over, SymmetricDifference, Metric
<1>6. /\ IsMetric(metric) /\ bound \in Nat \cup {Infinite}
      /\ IsTable(L) /\ IsTable(R)
  BY <1>4, TablesInHand DEF TableInv, TypeOK
<1>7. \A a \in Nat : a * 4 \in Nat /\ a * 4 = 4 * a
  OBVIOUS
<1>8. d \in Nat \cup {Infinite}
  BY <1>6, <1>7 DEF Scaled
<1>9. /\ SymmetricDifference.base = "rows" /\ SymmetricDifference.by = {}
      /\ SymmetricDifference.each = {} /\ SymmetricDifference.agg = "none"
  BY DEF SymmetricDifference, Metric
<1>10. metric.base = "hamming" => metric.by = {} /\ metric.each = {} /\ metric.agg # "l2"
  BY <1>6 DEF IsMetric, IsIfGroupedBy
<1>11. /\ m.base = "rows" /\ m.each = {} /\ m.by \subseteq K
       /\ agg = "sum" => m.agg # "l2"
  <2>1. CASE metric.base = "hamming"
    BY <1>9, <2>1
  <2>2. CASE metric.base # "hamming" /\ IsIfGroupedBy(metric)
    <3>1. /\ IfGroupedByAgg(metric.by, agg, {}).each = {}
          /\ IfGroupedByAgg(metric.by, agg, {}).agg = agg
      BY DEF IfGroupedByAgg, Metric
    <3>2. m = metric /\ metric.by \subseteq K /\ metric.each = {} /\ metric.agg = agg
      BY <1>1, <2>2, <3>1
    <3> QED BY <1>6, <2>2, <3>2 DEF IsMetric
  <2>3. CASE metric.base # "hamming" /\ ~ IsIfGroupedBy(metric)
    BY <1>6, <2>3 DEF IsMetric, IsIfGroupedBy
  <2> QED BY <2>1, <2>2, <2>3
<1>12. d # Infinite => Apart(m, L, R) <= d
  <2> SUFFICES ASSUME d # Infinite PROVE Apart(m, L, R) <= d
    OBVIOUS
  <2>1. bound # Infinite
    BY DEF Scaled
  <2>2. Comparable(metric, L, R) /\ Apart(metric, L, R) <= bound
    BY <1>4, <2>1, BoundHolds
  <2>3. bound \in Nat /\ Apart(metric, L, R) \in Nat /\ Apart(m, L, R) \in Nat
    BY <1>6, <2>1, ApartType
  <2>4. CASE metric.base = "hamming"
    <3>1. m = SymmetricDifference /\ d = bound * 4
      BY <2>1, <2>4 DEF Scaled
    <3>2. NumRows(L) = NumRows(R)
      BY <2>2, <2>4 DEF Comparable
    <3>3. Apart(m, L, R) <= 4 * Apart(metric, L, R)
      BY <1>6, <1>10, <2>4, <3>1, <3>2, HammingCounts
    <3> HIDE DEF m, d
    <3> QED BY <2>2, <2>3, <3>1, <3>3
  <2>5. CASE metric.base # "hamming"
    <3>1. m = metric /\ d = bound
      BY <1>9, <2>5
    <3> HIDE DEF m, d
    <3> QED BY <2>2, <3>1
  <2> QED BY <2>4, <2>5
<1>13. n.by = m.by \ K /\ n.each = m.each
  BY <1>5, <1>11
<1> HIDE DEF d, n, m
<1> QED
  BY <1>2, <1>3, <1>4, <1>5, <1>8, <1>11, <1>12, <1>13, PartsAreStable DEF L, R
=============================================================================
