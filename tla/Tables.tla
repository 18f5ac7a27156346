------------------------------- MODULE Tables -------------------------------
(***************************************************************************)
(* Tables as bags of rows, the metrics on them (metrics.py), truncation    *)
(* (utils/truncation.py) and joins (utils/join.py).                        *)
(*                                                                         *)
(* A row is a function from column names to cells, a schema a function     *)
(* from column names to descriptors.  A cell is a string, so that the      *)
(* special cells can be told from the others; the others stand for         *)
(* themselves.                                                             *)
(***************************************************************************)
EXTENDS Truncation, Sequences, Bags, FiniteSetsExt, Functions, TLC

(* f, and g where f has no value; what has the value v at c only.          *)
Extended(f, g) ==
  [x \in DOMAIN f \cup DOMAIN g |-> IF x \in DOMAIN f THEN f[x] ELSE g[x]]
Only(c, v) == [x \in {c} |-> v]

Null == "null"
NaN == "nan"
Infs == {"inf", "-inf"}

(* A column descriptor: its type and which special cells it allows.        *)
Column(kind, allows) == [kind |-> kind, allows |-> allows]
Special == {Null, NaN} \cup Infs
Specials(kind) == IF kind = "float" THEN Special ELSE {Null}
ValidCell(v, d) == v \in Special => v \in d.allows
IsSchema(s) ==
  /\ IsFiniteSet(DOMAIN s)
  /\ \A c \in DOMAIN s : s[c] = Column(s[c].kind, s[c].allows)

ValidRow(r, schema) ==
  /\ DOMAIN r = DOMAIN schema
  /\ \A c \in DOMAIN schema : ValidCell(r[c], schema[c])
InDomain(T, schema) == \A r \in BagToSet(T) : ValidRow(r, schema)

-----------------------------------------------------------------------------
(* Bags of rows.  Copies of a row are told apart by an index, their        *)
(* row_number().                                                           *)
IsTable(T) == IsABag(T) /\ IsFiniteSet(BagToSet(T))
Copies(T) == UNION {{r} \X (1 .. T[r]) : r \in BagToSet(T)}
NumRows(T) == Cardinality(Copies(T))

(* The bag of the values of f, one for each of its arguments.              *)
Tally(f) == [x \in Range(f) |-> Cardinality({y \in DOMAIN f : f[y] = x})]
Collected(copies) == Tally([x \in copies |-> x[1]])

Where(T, P(_)) == RestrictDomain(T, P)
Mapped(T, F(_)) == Tally([x \in Copies(T) |-> F(x[1])])

(* B[r] is the bag of rows that r becomes.                                 *)
Flattened(T, B) ==
  Tally([x \in UNION {{y} \X Copies(B[y[1]]) : y \in Copies(T)} |-> x[2][1]])
FlatMapped(T, F(_)) == Flattened(T, [r \in BagToSet(T) |-> F(r)])

Keys(T, C) == {Restrict(r, C) : r \in BagToSet(T)}
Group(T, C, key) == Where(T, LAMBDA r : Restrict(r, C) = key)

-----------------------------------------------------------------------------
(* Metrics.  A table is grouped by the columns `by', the groups' distances *)
(* are added up (`sum'), or their squares are (`l2'); within a group, rows *)
(* are counted, or, if `each' is not empty, the groups by `each' that      *)
(* differ.  by = {} stands for a metric without an outer grouping.  `over' *)
(* is the aggregation over the tables of a list or of a grouped table.     *)
Metric(base, by, agg, each) ==
  [base |-> base, by |-> by, agg |-> agg, each |-> each, over |-> "table"]
SymmetricDifference == Metric("rows", {}, "none", {})
HammingDistance == Metric("hamming", {}, "none", {})
IfGroupedBy(C) == Metric("rows", {}, "none", C)
IfGroupedByAgg(C, agg, each) == Metric("rows", C, agg, each)
Over(agg, m) == [m EXCEPT !.over = agg]

IsIfGroupedBy(m) == m.by # {} \/ m.each # {}
Columns(m) == IF m.by # {} THEN m.by ELSE m.each
(* inner_metric is SymmetricDifference() or an aggregate of it.            *)
GroupsRows(m) == IsIfGroupedBy(m) /\ (m.by = {} \/ m.each = {})
RenamedMetric(m, name) ==
  [m EXCEPT !.by = {name[c] : c \in m.by}, !.each = {name[c] : c \in m.each}]

(* Grouping columns exist and are not floats; the groups themselves no     *)
(* longer have the columns they were grouped by.                           *)
SupportsDomain(m, schema) ==
  /\ m.by \cup m.each \subseteq DOMAIN schema
  /\ \A c \in m.by \cup m.each : schema[c].kind # "float"
  /\ m.by \cap m.each = {}

(* exceptAll: the copies of rows that r does not have as many of.          *)
ExceptAll(l, r) == Copies(l) \ Copies(r)
RowsApart(l, r) == Cardinality(ExceptAll(l, r)) + Cardinality(ExceptAll(r, l))

GroupsApart(l, r, C) ==
  LET apart(a, b) == IF a = b THEN 0 ELSE IF EmptyBag \in {a, b} THEN 1 ELSE 2
  IN SumFunction([k \in Keys(l, C) \cup Keys(r, C) |->
                    apart(Group(l, C, k), Group(r, C, k))])

Infinite == -1

InnerDistance(m, l, r) ==
  CASE m.base = "hamming" ->
         IF NumRows(l) # NumRows(r) THEN Infinite ELSE Cardinality(ExceptAll(l, r))
    [] m.each # {} -> GroupsApart(l, r, m.each)
    [] OTHER -> RowsApart(l, r)

GroupDistances(m, l, r, Measure(_)) ==
  SumFunction([k \in Keys(l, m.by) \cup Keys(r, m.by) |->
                 Measure(InnerDistance(m, Group(l, m.by, k), Group(r, m.by, k)))])

(* Distances are kept squared, since sums of squares have irrational roots.*)
Square(d) == IF d = Infinite THEN Infinite ELSE d * d
TableDistance(m, l, r) ==   \* not squared; for metrics without l2
  IF m.by = {} THEN InnerDistance(m, l, r)
  ELSE GroupDistances(m, l, r, LAMBDA d : d)
TableSquare(m, l, r) ==
  IF m.agg = "l2" THEN GroupDistances(m, l, r, Square)
  ELSE Square(TableDistance(m, l, r))

(* Tables l[k] and r[k] for every k in the list or the group keys.         *)
Distance(m, l, r) ==
  IF m.over = "sum"
  THEN Square(SumFunction([k \in DOMAIN l |-> TableDistance(m, l[k], r[k])]))
  ELSE SumFunction([k \in DOMAIN l |-> TableSquare(m, l[k], r[k])])

Within(d, bound) == bound = Infinite \/ (d # Infinite /\ d <= bound)
Scaled(bound, k) == IF bound = Infinite THEN Infinite ELSE bound * k

-----------------------------------------------------------------------------
(* Truncation.  `rank' orders copies, or keys, by their hashes, then by    *)
(* their columns.                                                          *)
TruncateLargeGroups(T, C, threshold, rank) ==
  LET group == [x \in DOMAIN rank |-> Restrict(x[1], C)]
  IN Collected(Kept(Copies(T), group, threshold, rank))

DropLargeGroups(T, C, threshold) ==
  Where(T, LAMBDA r : NumRows(Group(T, C, Restrict(r, C))) <= threshold)

LimitKeysPerGroup(T, C, K, threshold, rank) ==
  LET group == [k \in DOMAIN rank |-> Restrict(k, C)]
      kept == Kept(Keys(T, C \cup K), group, threshold, rank)
  IN Where(T, LAMBDA r : Restrict(r, C \cup K) \in kept)

-----------------------------------------------------------------------------
(* Joins.  Columns that both sides have and that are not joined on get a   *)
(* suffix.                                                                 *)
LeftName(c, on, right) == IF c \in right \ on THEN c \o "_left" ELSE c
RightName(c, on, left) == IF c \in left \ on THEN c \o "_right" ELSE c

Suffixed(left, right, on) ==     \* the columns that are not joined on
  {LeftName(c, on, right) : c \in left \ on}
    \cup {RightName(c, on, left) : c \in right \ on}

ValidateJoin(ls, rs, on) ==
  /\ on # {}
  /\ on \subseteq DOMAIN ls \cap DOMAIN rs
  /\ Cardinality(Suffixed(DOMAIN ls, DOMAIN rs, on))
       = Cardinality(DOMAIN ls \ on) + Cardinality(DOMAIN rs \ on)
  /\ \A c \in on : ls[c].kind = rs[c].kind

ColumnsAfterJoin(left, right, on) == on \cup Suffixed(left, right, on)

(* Mutant: nulls in the right columns of unmatched rows are forgotten.     *)
DomainAfterMatch(ls, rs, on, how, nullsAreEqual) ==
  LET joined(c) ==
        IF how = "left" \/ nullsAreEqual THEN ls[c]
        ELSE [ls[c] EXCEPT !.allows = @ \ {Null}]
  IN [x \in ColumnsAfterJoin(DOMAIN ls, DOMAIN rs, on) |->
        IF x \in on THEN joined(x)
        ELSE IF \E c \in DOMAIN ls : x = LeftName(c, on, DOMAIN rs)
        THEN ls[CHOOSE c \in DOMAIN ls \ on : x = LeftName(c, on, DOMAIN rs)]
        ELSE rs[CHOOSE c \in DOMAIN rs \ on : x = RightName(c, on, DOMAIN ls)]]

DomainAfterJoin(ls, rs, on, how, nullsAreEqual) ==
  LET joined(c) ==
        LET both == ls[c].allows \cap rs[c].allows
        IN IF how = "left" THEN ls[c]
           ELSE [ls[c] EXCEPT !.allows = IF nullsAreEqual THEN both
                                         ELSE both \ {Null}]
      unmatched(d) == IF how = "left" THEN [d EXCEPT !.allows = @ \cup {Null}]
                      ELSE d
  IN [x \in ColumnsAfterJoin(DOMAIN ls, DOMAIN rs, on) |->
        IF x \in on THEN joined(x)
        ELSE IF \E c \in DOMAIN ls : x = LeftName(c, on, DOMAIN rs)
        THEN ls[CHOOSE c \in DOMAIN ls \ on : x = LeftName(c, on, DOMAIN rs)]
        ELSE unmatched(rs[CHOOSE c \in DOMAIN rs \ on :
                            x = RightName(c, on, DOMAIN ls)])]

Matches(a, b, on, nullsAreEqual) ==
  \A c \in on : a[c] = b[c] /\ (nullsAreEqual \/ a[c] # Null)

(* A left row joined with a right row; right columns are null if none      *)
(* matched.                                                                *)
JoinedRow(a, b, ls, rs, on) ==
  LET left == [x \in {LeftName(c, on, rs) : c \in ls} |->
                 a[CHOOSE c \in ls : x = LeftName(c, on, rs)]]
      right == [x \in {RightName(c, on, ls) : c \in rs \ on} |->
                  IF b = <<>> THEN Null
                  ELSE b[CHOOSE c \in rs \ on : x = RightName(c, on, ls)]]
  IN Extended(left, right)

(* Inner and left joins of L, with columns ls, and R, with columns rs.     *)
Join(L, R, ls, rs, on, how, nullsAreEqual) ==
  LET partners(a) == Where(R, LAMBDA b : Matches(a, b, on, nullsAreEqual))
      rowsOf(a) ==
        IF partners(a) = EmptyBag
        THEN IF how = "left" THEN SetToBag({JoinedRow(a, <<>>, ls, rs, on)})
             ELSE EmptyBag
        ELSE Mapped(partners(a), LAMBDA b : JoinedRow(a, b, ls, rs, on))
  IN FlatMapped(L, rowsOf)
=============================================================================
