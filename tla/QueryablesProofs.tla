--------------------------- MODULE QueryablesProofs ---------------------------
(***************************************************************************)
(* The queryables implement SequentialAccess, for trees of every depth and *)
(* width and whatever measurements and transformations are submitted.      *)
(*                                                                         *)
(* The argument.  A wrapper that is retired has all the wrappers below it  *)
(* retired (RetiredClosed), which is what RetirableQueryable.__call__      *)
(* relies on when it does not ask a retired wrapper to retire again; so    *)
(* retiring the wrapper of an answer reaches everything obtained from it,  *)
(* whichever of these had been retired before through another wrapper.     *)
(* With all answers but the current one retired (OldRetired), a live       *)
(* queryable can only be below the current answers of those above it.      *)
(***************************************************************************)
EXTENDS Queryables, PathTheorems, InductionTheorems

-----------------------------------------------------------------------------
(* Budgets *)

(* An affordable charge leaves a budget of the measure.                    *)
LEMMA SubtractType ==
  ASSUME NEW b \in Budgets, NEW v \in Budgets, CanSpend(b, v)
  PROVE  Subtract(b, v) \in Budgets
<1> USE DeltaAssumption, InfiniteAssumption, MeasureAssumption
<1>1. CASE ~ IsFinite(b)
  BY <1>1 DEF Subtract
<1>2. CASE IsFinite(b)
  <2>1. /\ b.eps \in Nat /\ v.eps \in Nat /\ v.eps <= b.eps
        /\ v.delta <= b.delta
    BY <1>2 DEF Budgets, Amount, IsFinite, CanSpend, AmountAtMost
  <2>2. b.eps - v.eps \in Amount
    BY <2>1 DEF Amount
  <2>3. CASE OutputMeasure = "ApproxDP"
    BY <1>2, <2>1, <2>2, <2>3 DEF Subtract, Budgets
  <2>4. CASE OutputMeasure # "ApproxDP"
    BY <1>2, <2>1, <2>2, <2>4 DEF Subtract, Budgets
  <2> QED BY <2>3, <2>4
<1> QED BY <1>1, <1>2

LEMMA PlusType ==
  ASSUME NEW v \in [eps : Amount, delta : Nat], NEW w \in Budgets
  PROVE  AddedLosses(v, w) \in [eps : Amount, delta : Nat]
BY DeltaAssumption, InfiniteAssumption, MeasureAssumption
   DEF AddedLosses, Added, Amount, Budgets

(* NoLoss is a budget of every measure.                                      *)
LEMMA ZeroType == NoLoss \in Budgets /\ NoLoss \in [eps : Amount, delta : Nat]
BY DeltaAssumption DEF NoLoss, Budgets, Amount

-----------------------------------------------------------------------------
(* Queryables that are created *)

LEMMA NotOpenedType ==
  NotOpened \in Node /\ NotOpened.kind = "none" /\ NotOpened.retired = {}
<1>1. (CHOOSE t \in Types : TRUE) \in Types
  BY TypesAssumption
<1>2. 0 \in Dist
  BY DistAssumption DEF Dist
<1>3. <<>> \in Seq(AnswerMeasurement \union SequentialMeasurement)
  OBVIOUS
<1> QED BY <1>1, <1>2, <1>3, ZeroType DEF NotOpened, Node

(* A queryable is created open, current and without answers.               *)
LEMMA CreatedType ==
  ASSUME NEW m \in Measurement, NEW s \in Dist, NEW c \in Budgets,
         NEW torn \in BOOLEAN
  PROVE  /\ Created(m, s, c, torn) \in Node
         /\ Created(m, s, c, torn).kind = m.kind /\ m.kind # "none"
         /\ Created(m, s, c, torn).retired = {}
         /\ Created(m, s, c, torn).next = 1
         /\ Created(m, s, c, torn).current = 0
         /\ Created(m, s, c, torn).charge = c
         /\ Created(m, s, c, torn).torn = torn
<1> DEFINE new == [NotOpened EXCEPT !.kind = m.kind, !.charge = c, !.torn = torn]
<1>1. m.kind \in {"answer", "sequential", "parallel"}
  BY DEF Measurement, AnswerMeasurement, SequentialMeasurement,
         ParallelMeasurement
<1>2. /\ new \in Node
      /\ new.kind = m.kind /\ new.charge = c /\ new.torn = torn
      /\ new.retired = {} /\ new.next = 1 /\ new.current = 0
  BY <1>1, NotOpenedType DEF Node, NotOpened
<1> HIDE DEF new
<1>3. CASE m \in AnswerMeasurement
  <2>1. m.kind = "answer" /\ m.loss[s] \in Budgets
    BY <1>3 DEF AnswerMeasurement
  <2>2. Created(m, s, c, torn) = [new EXCEPT !.loss = m.loss[s]]
    BY <2>1 DEF Created, new
  <2> QED BY <2>1, <2>2, <1>2 DEF Node
<1>4. CASE m \in SequentialMeasurement
  <2>1. /\ m.kind = "sequential" /\ m.in \in Types /\ m.dIn \in Dist
        /\ m.budget \in Budgets
    BY <1>4 DEF SequentialMeasurement
  <2>2. Created(m, s, c, torn) =
          [new EXCEPT !.type = m.in, !.dIn = m.dIn, !.sens = s,
                      !.total = m.budget, !.remaining = m.budget]
    BY <2>1 DEF Created, new
  <2>3. Created(m, s, c, torn) \in Node
    BY <2>1, <2>2, <1>2 DEF Node
  <2>4. /\ Created(m, s, c, torn).kind = m.kind
        /\ Created(m, s, c, torn).retired = {}
        /\ Created(m, s, c, torn).next = 1
        /\ Created(m, s, c, torn).current = 0
        /\ Created(m, s, c, torn).charge = c
        /\ Created(m, s, c, torn).torn = torn
    BY <2>2, <1>2 DEF Node
  <2> QED BY <2>1, <2>3, <2>4
<1>5. CASE m \in ParallelMeasurement
  <2>1. /\ m.kind = "parallel" /\ m.t.stab[s] \in Dist
        /\ m.parts \in Seq(AnswerMeasurement \union SequentialMeasurement)
    BY <1>5 DEF ParallelMeasurement, Transformation
  <2>2. Created(m, s, c, torn) =
          [new EXCEPT !.sens = m.t.stab[s], !.parts = m.parts]
    BY <2>1 DEF Created, new
  <2>3. Created(m, s, c, torn) \in Node
    BY <2>1, <2>2, <1>2 DEF Node
  <2>4. /\ Created(m, s, c, torn).kind = m.kind
        /\ Created(m, s, c, torn).retired = {}
        /\ Created(m, s, c, torn).next = 1
        /\ Created(m, s, c, torn).current = 0
        /\ Created(m, s, c, torn).charge = c
        /\ Created(m, s, c, torn).torn = torn
    BY <2>2, <1>2 DEF Node
  <2> QED BY <2>1, <2>3, <2>4
<1> QED BY <1>3, <1>4, <1>5 DEF Measurement

-----------------------------------------------------------------------------
(* What queries are charged, and what stabilities they are told *)

LEMMA PartLossType ==
  ASSUME NEW m \in AnswerMeasurement \union SequentialMeasurement, NEW d \in Dist
  PROVE  PartLoss(m, d) \subseteq Budgets
BY DEF PartLoss, AnswerLoss, SequentialLoss, AnswerMeasurement,
       SequentialMeasurement

LEMMA PrivacyFunctionType ==
  ASSUME NEW m \in Measurement, NEW d \in Dist
  PROVE  PrivacyFunction(m, d) \subseteq Budgets
<1>1. CASE m.kind = "parallel"
  <2>1. /\ m.parts \in Seq(AnswerMeasurement \union SequentialMeasurement)
        /\ m.t.stab[d] \in Dist
    BY <1>1 DEF Measurement, AnswerMeasurement, SequentialMeasurement,
                ParallelMeasurement, Transformation
  <2> DEFINE loss == [i \in DOMAIN m.parts |-> PartLoss(m.parts[i], m.t.stab[d])]
             values == UNION {loss[i] : i \in DOMAIN m.parts}
  <2>2. values \subseteq Budgets
    <3>1. \A i \in DOMAIN m.parts :
            m.parts[i] \in AnswerMeasurement \union SequentialMeasurement
      BY <2>1
    <3>2. \A i \in DOMAIN m.parts : loss[i] \subseteq Budgets
      BY <2>1, <3>1, PartLossType
    <3> HIDE DEF loss
    <3> QED BY <3>2
  <2>3. ParallelLoss(m, d) \subseteq
          [eps : {w.eps : w \in values}, delta : {w.delta : w \in values}]
    BY DEF ParallelLoss
  <2>4. [eps : {w.eps : w \in values}, delta : {w.delta : w \in values}]
          \subseteq Budgets
    <3> HIDE DEF values
    <3> QED BY <2>2 DEF Budgets
  <2> QED BY <1>1, <2>3, <2>4 DEF PrivacyFunction
<1>2. CASE m.kind # "parallel"
  BY <1>2, PartLossType DEF PrivacyFunction, Measurement, ParallelMeasurement
<1> QED BY <1>1, <1>2

(* Every charge that is accepted is affordable, and is a value at which    *)
(* the measurement satisfies its relation.                                 *)
LEMMA AcceptedType ==
  ASSUME NEW nd, nd.dIn \in Dist, NEW m \in Measurement,
         NEW hint \in Budgets \union {None}, NEW c \in Accepted(nd, m, hint)
  PROVE  /\ c \in Budgets
         /\ CanSpend(nd.remaining, c)
         /\ IF hint = None THEN c \in PrivacyFunction(m, nd.dIn)
            ELSE PrivacyRelation(m, nd.dIn, c)
<1>1. c \in Charges(nd, m, hint) /\ CanSpend(nd.remaining, c)
  BY DEF Accepted
<1>2. CASE hint = None
  BY <1>1, <1>2, PrivacyFunctionType DEF Charges
<1>3. CASE hint # None
  BY <1>1, <1>3, HintsAssumption DEF Charges
<1> QED BY <1>1, <1>2, <1>3

(* The new d_in is at least the stability of the transformation.           *)
LEMMA StabilitiesType ==
  ASSUME NEW d \in Dist, NEW t \in Transformation, NEW hint \in Dist \union {None},
         NEW e \in Stabilities(d, t, hint)
  PROVE  e \in Dist /\ t.stab[d] \in Dist /\ t.stab[d] <= e
<1>1. t.stab[d] \in Dist
  BY DEF Transformation
<1>2. CASE hint \in {None, 0}
  <2>1. e = t.stab[d]
    BY <1>2 DEF Stabilities
  <2> QED BY <1>1, <2>1, DistAssumption DEF Dist
<1>3. CASE hint \notin {None, 0}
  <2>1. e = hint /\ t.stab[d] <= e
    BY <1>3 DEF Stabilities
  <2> QED BY <1>1, <1>3, <2>1, HintsAssumption
<1> QED BY <1>2, <1>3

-----------------------------------------------------------------------------
(* The invariant *)

(* The tree tr has nodes of the right type; a queryable's wrappers are     *)
(* numbered from 1 to its depth; one not handed out has no state; and the  *)
(* current answer has a name.                                              *)
Shaped(tr) ==
  /\ tr \in [Path -> Node]
  /\ \A x \in Path : tr[x].retired \subseteq 1 .. Len(x)
  /\ \A x \in Path : ~ IsOpen(tr, x) => tr[x].retired = {}
  /\ \A p \in Path : tr[p].current # 0 => Append(p, tr[p].current) \in Path

(* What is below a retired wrapper is retired.                             *)
RetiredClosed(tr) ==
  \A c, x \in Path : IsOpen(tr, x) /\ Below(x, c) =>
    \A k \in tr[c].retired : k + Len(x) - Len(c) \in tr[x].retired

(* Queryables are handed out by open queryables, in the order of their     *)
(* numbers.                                                                *)
OpenedFromOpen(tr) ==
  \A x, p \in Path : IsOpen(tr, x) /\ Below(x, p) => IsOpen(tr, p)

OpenedInOrder(tr) ==
  \A p \in Path, n \in 1 .. MaxFan :
    Append(p, n) \in Path /\ IsOpen(tr, Append(p, n)) => n < tr[p].next

(* Every answer but the current one is retired by its parent.              *)
OldRetired(tr) ==
  \A p \in Path, n \in 1 .. MaxFan :
    /\ Append(p, n) \in Path /\ IsOpen(tr, Append(p, n))
    /\ n # tr[p].current
    => 1 \in tr[Append(p, n)].retired

WellRetired(tr) ==
  /\ Shaped(tr)
  /\ RetiredClosed(tr)
  /\ OpenedFromOpen(tr)
  /\ OpenedInOrder(tr)
  /\ OldRetired(tr)

WrapperInv == WellRetired(tree)

-----------------------------------------------------------------------------
(* Setting _is_retired changes nothing else.                               *)
LEMMA ChangedRetired ==
  ASSUME NEW nd \in Node, NEW S \in SUBSET (1 .. MaxDepth)
  PROVE  LET new == [nd EXCEPT !.retired = S]
         IN  /\ new \in Node /\ new.retired = S
             /\ new.kind = nd.kind /\ new.next = nd.next
             /\ new.current = nd.current
BY DEF Node

(* u is tr with some wrappers retired.                                     *)
OnlyRetires(tr, u) ==
  \A x \in Path : u[x] \in Node /\ u[x] = [tr[x] EXCEPT !.retired = u[x].retired]

(* RetireQuery stops at wrappers that are retired already, yet the wrapper *)
(* of every open queryable below is retired in the end.                    *)
LEMMA RetireWrapperEffect ==
  ASSUME NEW tr, WellRetired(tr), NEW c \in Path, NEW k \in 1 .. Len(c)
  PROVE  RetireWrapper(tr, c, k) =
           [x \in Path |->
              IF IsOpen(tr, x) /\ Below(x, c)
              THEN [tr[x] EXCEPT !.retired = @ \union {k + Len(x) - Len(c)}]
              ELSE tr[x]]
<1> DEFINE level(x) == k + Len(x) - Len(c)
           reached(x) ==
             /\ IsOpen(tr, x) /\ Below(x, c)
             /\ \A y \in Path :
                  Below(x, y) /\ Below(y, c) => level(y) \notin tr[y].retired
           after(x) == [tr[x] EXCEPT !.retired = @ \union {level(x)}]
<1>1. RetireWrapper(tr, c, k) =
        [x \in Path |-> IF reached(x) THEN after(x) ELSE tr[x]]
  BY DEF RetireWrapper
<1>2. ASSUME NEW x \in Path, IsOpen(tr, x), Below(x, c), ~ reached(x)
      PROVE  after(x) = tr[x]
  <2>1. PICK y \in Path : Below(x, y) /\ level(y) \in tr[y].retired
    BY <1>2
  <2>2. level(y) + Len(x) - Len(y) \in tr[x].retired
    BY <1>2, <2>1 DEF WellRetired, RetiredClosed
  <2>3. level(y) + Len(x) - Len(y) = level(x)
    BY PathType
  <2>4. tr[x].retired \union {level(x)} = tr[x].retired
    BY <2>2, <2>3
  <2>5. tr[x] \in Node
    BY DEF WellRetired, Shaped
  <2> HIDE DEF level
  <2> QED BY <2>4, <2>5 DEF Node
<1>3. \A x \in Path :
        (IF reached(x) THEN after(x) ELSE tr[x]) =
          (IF IsOpen(tr, x) /\ Below(x, c) THEN after(x) ELSE tr[x])
  BY <1>2
<1> QED BY <1>1, <1>3

(* Retiring a wrapper keeps the tree well retired.                         *)
LEMMA RetireWrapperWellRetired ==
  ASSUME NEW tr, WellRetired(tr), NEW c \in Path, NEW k \in 1 .. Len(c)
  PROVE  /\ WellRetired(RetireWrapper(tr, c, k))
         /\ OnlyRetires(tr, RetireWrapper(tr, c, k))
         /\ \A x \in Path :
              RetireWrapper(tr, c, k)[x].retired =
                IF IsOpen(tr, x) /\ Below(x, c)
                THEN tr[x].retired \union {k + Len(x) - Len(c)}
                ELSE tr[x].retired
<1> DEFINE u == RetireWrapper(tr, c, k)
           level(x) == k + Len(x) - Len(c)
<1>1. \A x \in Path : /\ Len(x) \in Nat /\ Len(x) <= MaxDepth
                      /\ tr[x] \in Node
                      /\ tr[x].retired \subseteq 1 .. Len(x)
  BY PathType, DepthAssumption DEF WellRetired, Shaped
<1>2. u = [x \in Path |->
              IF IsOpen(tr, x) /\ Below(x, c)
              THEN [tr[x] EXCEPT !.retired = @ \union {level(x)}]
              ELSE tr[x]]
  BY RetireWrapperEffect
<1> HIDE DEF u
<1>3. \A x \in Path : Below(x, c) => level(x) \in 1 .. Len(x)
  BY <1>1 DEF Below
<1>4. ASSUME NEW x \in Path
      PROVE  /\ u[x] \in Node /\ u[x] = [tr[x] EXCEPT !.retired = u[x].retired]
             /\ u[x].retired = IF IsOpen(tr, x) /\ Below(x, c)
                               THEN tr[x].retired \union {level(x)}
                               ELSE tr[x].retired
  <2>1. level(x) \in 1 .. MaxDepth \/ ~ Below(x, c)
    BY <1>1, <1>3, DepthAssumption
  <2>2. tr[x] \in Node
    BY <1>1
  <2>3. u[x] = IF IsOpen(tr, x) /\ Below(x, c)
               THEN [tr[x] EXCEPT !.retired = @ \union {level(x)}]
               ELSE tr[x]
    BY <1>2
  <2> HIDE DEF level
  <2>4. CASE IsOpen(tr, x) /\ Below(x, c)
    <3> DEFINE after == tr[x].retired \union {level(x)}
    <3>1. after \in SUBSET (1 .. MaxDepth)
      BY <2>1, <2>2, <2>4 DEF Node
    <3>2. u[x] = [tr[x] EXCEPT !.retired = after]
      BY <2>3, <2>4
    <3> HIDE DEF after
    <3>3. u[x].retired = after
      BY <2>2, <3>1, <3>2, ChangedRetired
    <3>4. u[x] \in Node
      BY <2>2, <3>1, <3>2, ChangedRetired
    <3>5. u[x] = [tr[x] EXCEPT !.retired = u[x].retired]
      BY <3>2, <3>3
    <3> QED BY <2>4, <3>3, <3>4, <3>5 DEF after
  <2>5. CASE ~ (IsOpen(tr, x) /\ Below(x, c))
    <3>1. tr[x] = [tr[x] EXCEPT !.retired = tr[x].retired]
      BY <2>2 DEF Node
    <3> QED BY <2>2, <2>3, <2>5, <3>1
  <2> QED BY <2>4, <2>5
<1>5. \A x \in Path : /\ u[x].kind = tr[x].kind /\ u[x].next = tr[x].next
                      /\ u[x].current = tr[x].current
                      /\ IsOpen(u, x) <=> IsOpen(tr, x)
  <2> TAKE x \in Path
  <2>1. tr[x] \in Node /\ u[x] \in Node
    BY <1>1, <1>4
  <2>2. PICK S \in SUBSET (1 .. MaxDepth) : u[x] = [tr[x] EXCEPT !.retired = S]
    <3>1. u[x].retired \in SUBSET (1 .. MaxDepth)
      BY <2>1 DEF Node
    <3> QED BY <1>4, <3>1
  <2> QED BY <2>1, <2>2, ChangedRetired DEF IsOpen
<1>6. Shaped(u)
  <2>1. u \in [Path -> Node]
    BY <1>2, <1>4
  <2>2. \A x \in Path : u[x].retired \subseteq 1 .. Len(x)
    BY <1>1, <1>3, <1>4
  <2>3. \A x \in Path : ~ IsOpen(u, x) => u[x].retired = {}
    BY <1>4, <1>5 DEF WellRetired, Shaped
  <2>4. \A p \in Path : u[p].current # 0 => Append(p, u[p].current) \in Path
    BY <1>5 DEF WellRetired, Shaped
  <2> QED BY <2>1, <2>2, <2>3, <2>4 DEF Shaped
<1>7. RetiredClosed(u)
  <2> SUFFICES ASSUME NEW a \in Path, NEW x \in Path, IsOpen(u, x), Below(x, a),
                      NEW j \in u[a].retired
               PROVE  j + Len(x) - Len(a) \in u[x].retired
    BY DEF RetiredClosed
  <2>1. CASE j \in tr[a].retired
    <3>1. j + Len(x) - Len(a) \in tr[x].retired
      BY <1>5, <2>1 DEF WellRetired, RetiredClosed
    <3> QED BY <3>1, <1>4
  <2>2. CASE j \notin tr[a].retired
    <3>1. Below(a, c) /\ j = level(a)
      BY <1>4, <2>2
    <3>2. Below(x, c)
      BY <3>1, BelowTransitive
    <3>3. j + Len(x) - Len(a) = level(x)
      BY <1>1, <3>1
    <3> QED BY <1>4, <1>5, <3>2, <3>3
  <2> QED BY <2>1, <2>2
<1>8. OpenedFromOpen(u) /\ OpenedInOrder(u)
  BY <1>5 DEF WellRetired, OpenedFromOpen, OpenedInOrder
<1>9. OldRetired(u)
  BY <1>4, <1>5 DEF WellRetired, OldRetired
<1> QED BY <1>4, <1>6, <1>7, <1>8, <1>9 DEF WellRetired, OnlyRetires, u

-----------------------------------------------------------------------------
(* What the parent of an answer does to it: RetireQuery to the wrapper it  *)
(* keeps ends all that was obtained from the queryable p, and nothing else.*)
LEMMA RetireCurrentEffect ==
  ASSUME NEW tr, WellRetired(tr), NEW p \in Path
  PROVE  /\ WellRetired(RetireCurrent(tr, p))
         /\ OnlyRetires(tr, RetireCurrent(tr, p))
         /\ \A x \in Path :
              /\ tr[x].retired \subseteq RetireCurrent(tr, p)[x].retired
              /\ ~ StrictlyBelow(x, p) => RetireCurrent(tr, p)[x] = tr[x]
         /\ \A n \in 1 .. MaxFan :
              Append(p, n) \in Path /\ IsOpen(tr, Append(p, n)) =>
                1 \in RetireCurrent(tr, p)[Append(p, n)].retired
<1> DEFINE u == RetireCurrent(tr, p)
           n == tr[p].current
           c == Append(p, n)
<1>1. \A x \in Path : tr[x] \in Node /\ tr[x] = [tr[x] EXCEPT !.retired = @]
  BY DEF WellRetired, Shaped, Node
<1>2. CASE n = 0
  <2>1. u = tr
    BY <1>2 DEF RetireCurrent
  <2>2. \A m \in 1 .. MaxFan : m # n
    BY <1>2
  <2> QED BY <1>1, <2>1, <2>2 DEF WellRetired, OldRetired, OnlyRetires
<1>3. CASE n # 0
  <2>1. c \in Path
    BY <1>3 DEF WellRetired, Shaped
  <2>2. Len(p) \in Nat /\ Len(c) = Len(p) + 1 /\ 1 \in 1 .. Len(c)
    BY <2>1, AppendPath, PathType
  <2>3. u = RetireWrapper(tr, c, 1)
    BY <1>3 DEF RetireCurrent
  <2> HIDE DEF u
  <2>4. /\ WellRetired(u)
        /\ OnlyRetires(tr, u)
        /\ \A x \in Path :
             u[x].retired = IF IsOpen(tr, x) /\ Below(x, c)
                            THEN tr[x].retired \union {1 + Len(x) - Len(c)}
                            ELSE tr[x].retired
    BY <2>1, <2>2, <2>3, RetireWrapperWellRetired
  <2>5. ASSUME NEW x \in Path, ~ StrictlyBelow(x, p) PROVE u[x] = tr[x]
    <3>1. ~ Below(x, c)
      BY <2>1, <2>5, BelowAnswer
    <3>2. u[x].retired = tr[x].retired
      BY <2>4, <3>1
    <3> QED BY <1>1, <2>4, <3>2 DEF OnlyRetires
  <2>6. ASSUME NEW m \in 1 .. MaxFan, Append(p, m) \in Path,
               IsOpen(tr, Append(p, m))
        PROVE  1 \in u[Append(p, m)].retired
    <3>1. CASE m = n
      <4>1. 1 + Len(c) - Len(c) = 1 /\ Below(c, c)
        BY <2>1, <2>2, BelowReflexive
      <4> QED BY <2>1, <2>4, <2>6, <3>1, <4>1
    <3>2. CASE m # n
      <4>1. 1 \in tr[Append(p, m)].retired
        BY <2>6, <3>2 DEF WellRetired, OldRetired
      <4> QED BY <2>4, <2>6, <4>1
    <3> QED BY <3>1, <3>2
  <2>7. \A x \in Path : tr[x].retired \subseteq u[x].retired
    BY <2>4
  <2> QED BY <2>4, <2>5, <2>6, <2>7 DEF u
<1> QED BY <1>2, <1>3

(* All answers of p are over.                                              *)
Ended(tr, p) ==
  \A n \in 1 .. MaxFan :
    Append(p, n) \in Path /\ IsOpen(tr, Append(p, n)) =>
      1 \in tr[Append(p, n)].retired

LEMMA EndedBelow ==
  ASSUME NEW tr, WellRetired(tr), NEW p \in Path, Ended(tr, p),
         NEW x \in Path, StrictlyBelow(x, p)
  PROVE  ~ Live(tr, x)
<1> SUFFICES ASSUME IsOpen(tr, x) PROVE tr[x].retired # {}
  BY DEF Live
<1> DEFINE n == x[Len(p) + 1]
           a == Append(p, n)
<1>1. n \in 1 .. MaxFan /\ a \in Path /\ Below(x, a)
  BY AnswerAbove
<1>2. IsOpen(tr, a)
  BY <1>1 DEF WellRetired, OpenedFromOpen
<1>3. 1 \in tr[a].retired
  BY <1>1, <1>2 DEF Ended
<1>4. 1 + Len(x) - Len(a) \in tr[x].retired
  BY <1>1, <1>3 DEF WellRetired, RetiredClosed
<1> QED BY <1>4

OpenSet(tr) == {x \in Path : IsOpen(tr, x)}
LiveSet(tr) == {x \in Path : Live(tr, x)}

(* p ends its answers; whatever else happens to p leaves its wrappers and  *)
(* what it handed out alone.                                               *)
LEMMA Dropped ==
  ASSUME NEW tr, WellRetired(tr), NEW p \in Path, Live(tr, p),
         NEW v \in [Path -> Node],
         \A x \in Path \ {p} : v[x] = RetireCurrent(tr, p)[x],
         v[p].kind = tr[p].kind, v[p].retired = {},
         tr[p].next <= v[p].next, v[p].current \in {0, tr[p].current}
  PROVE  /\ WellRetired(v) /\ Ended(v, p) /\ Live(v, p)
         /\ OpenSet(v) = OpenSet(tr)
         /\ LiveSet(v) = {x \in LiveSet(tr) : ~ StrictlyBelow(x, p)}
<1> DEFINE u == RetireCurrent(tr, p)
<1>1. /\ WellRetired(u)
      /\ \A x \in Path : /\ u[x] \in Node /\ tr[x] \in Node
                         /\ u[x] = [tr[x] EXCEPT !.retired = u[x].retired]
                         /\ tr[x].retired \subseteq u[x].retired
                         /\ ~ StrictlyBelow(x, p) => u[x] = tr[x]
      /\ \A n \in 1 .. MaxFan :
           Append(p, n) \in Path /\ IsOpen(tr, Append(p, n)) =>
             1 \in u[Append(p, n)].retired
  <2>1. \A x \in Path : tr[x] \in Node
    BY DEF WellRetired, Shaped
  <2> QED BY <2>1, RetireCurrentEffect DEF OnlyRetires
<1>2. tr[p].retired = {} /\ IsOpen(tr, p) /\ ~ StrictlyBelow(p, p)
  BY DEF Live, StrictlyBelow
<1> HIDE DEF u
<1>3. \A x \in Path : /\ u[x].kind = tr[x].kind /\ u[x].next = tr[x].next
                      /\ u[x].current = tr[x].current
  <2> TAKE x \in Path
  <2>1. PICK S \in SUBSET (1 .. MaxDepth) : u[x] = [tr[x] EXCEPT !.retired = S]
    <3>1. u[x].retired \in SUBSET (1 .. MaxDepth)
      BY <1>1 DEF Node
    <3> QED BY <1>1, <3>1
  <2> QED BY <1>1, <2>1, ChangedRetired
<1>4. \A x \in Path : /\ v[x].kind = tr[x].kind
                      /\ v[x].retired = u[x].retired
                      /\ tr[x].next <= v[x].next
                      /\ v[x].current \in {0, tr[x].current}
  <2> TAKE x \in Path
  <2>1. tr[x].next \in Nat
    BY <1>1 DEF Node
  <2>2. CASE x = p
    <3>1. u[p].retired = {}
      BY <1>1, <1>2
    <3> QED BY <2>2, <3>1
  <2>3. CASE x # p
    <3>1. v[x] = u[x]
      BY <2>3 DEF u
    <3> QED BY <1>3, <2>1, <3>1
  <2> QED BY <2>2, <2>3
<1>5. \A x \in Path : /\ IsOpen(v, x) <=> IsOpen(tr, x)
                      /\ IsOpen(u, x) <=> IsOpen(tr, x)
  BY <1>3, <1>4 DEF IsOpen
<1>6. Ended(v, p)
  BY <1>1, <1>4, <1>5 DEF Ended
<1>7. WellRetired(v)
  <2>1. Shaped(v)
    BY <1>1, <1>4, <1>5 DEF WellRetired, Shaped
  <2>2. RetiredClosed(v)
    BY <1>1, <1>4, <1>5 DEF WellRetired, RetiredClosed
  <2>3. OpenedFromOpen(v)
    BY <1>5 DEF WellRetired, OpenedFromOpen
  <2>4. OpenedInOrder(v)
    <3>1. \A x \in Path : tr[x].next \in Nat /\ v[x].next \in Nat
      BY <1>1 DEF Node
    <3> QED BY <1>4, <1>5, <3>1 DEF WellRetired, OpenedInOrder
  <2>5. OldRetired(v)
    <3> SUFFICES ASSUME NEW q \in Path, NEW n \in 1 .. MaxFan,
                        Append(q, n) \in Path, IsOpen(v, Append(q, n)),
                        n # v[q].current
                 PROVE  1 \in v[Append(q, n)].retired
      BY DEF OldRetired
    <3>1. CASE q = p
      BY <1>6, <3>1 DEF Ended
    <3>2. CASE q # p
      <4>1. v[q].current = tr[q].current
        BY <1>3, <3>2 DEF u
      <4> QED BY <1>1, <1>4, <1>5, <4>1 DEF WellRetired, OldRetired
    <3> QED BY <3>1, <3>2
  <2> QED BY <2>1, <2>2, <2>3, <2>4, <2>5 DEF WellRetired
<1>8. Live(v, p)
  BY <1>5, <1>2 DEF Live
<1>9. OpenSet(v) = OpenSet(tr)
  BY <1>5 DEF OpenSet
<1>10. LiveSet(v) = {x \in LiveSet(tr) : ~ StrictlyBelow(x, p)}
  <2> SUFFICES ASSUME NEW x \in Path
               PROVE  Live(v, x) <=> Live(tr, x) /\ ~ StrictlyBelow(x, p)
    BY DEF LiveSet
  <2>1. CASE StrictlyBelow(x, p)
    BY <1>6, <1>7, <2>1, EndedBelow
  <2>2. CASE ~ StrictlyBelow(x, p)
    BY <1>1, <1>4, <1>5, <2>2 DEF Live
  <2> QED BY <2>1, <2>2
<1> QED BY <1>6, <1>7, <1>8, <1>9, <1>10

(* After that p hands out its answer n, as its only live one.              *)
LEMMA HandedOut ==
  ASSUME NEW w, WellRetired(w), NEW p \in Path, Live(w, p), Ended(w, p),
         NEW n \in 1 .. MaxFan, Append(p, n) \in Path,
         ~ IsOpen(w, Append(p, n)),
         NEW v \in [Path -> Node],
         \A x \in Path \ {p, Append(p, n)} : v[x] = w[x],
         v[p].kind = w[p].kind, v[p].retired = {},
         w[p].next <= v[p].next, n < v[p].next, v[p].current = n,
         v[Append(p, n)].kind # "none", v[Append(p, n)].retired = {},
         v[Append(p, n)].current = 0
  PROVE  /\ WellRetired(v)
         /\ OpenSet(v) = OpenSet(w) \union {Append(p, n)}
         /\ LiveSet(v) = LiveSet(w) \union {Append(p, n)}
<1> DEFINE c == Append(p, n)
<1>1. p # c /\ Below(c, p) /\ StrictlyBelow(c, p) /\ Below(c, c)
  BY BelowReflexive, BelowAnswer DEF StrictlyBelow
<1>2. w[p].retired = {} /\ IsOpen(w, p) /\ w \in [Path -> Node]
  BY DEF Live, WellRetired, Shaped
<1>3. \A x \in Path \ {c} : v[x].kind = w[x].kind /\ v[x].retired = w[x].retired
  BY <1>2
<1>4. IsOpen(v, c) /\ \A x \in Path \ {c} : IsOpen(v, x) <=> IsOpen(w, x)
  BY <1>3 DEF IsOpen
<1>5. \A x \in Path : IsOpen(w, x) => ~ Below(x, c)
  BY DEF WellRetired, OpenedFromOpen
<1>6. Shaped(v)
  <2>1. \A x \in Path : v[x].retired \subseteq 1 .. Len(x)
    BY <1>3 DEF WellRetired, Shaped
  <2>2. \A x \in Path : ~ IsOpen(v, x) => v[x].retired = {}
    BY <1>3, <1>4 DEF WellRetired, Shaped
  <2>3. \A q \in Path : v[q].current # 0 => Append(q, v[q].current) \in Path
    BY DEF WellRetired, Shaped
  <2> QED BY <2>1, <2>2, <2>3 DEF Shaped
<1>7. RetiredClosed(v)
  <2> SUFFICES ASSUME NEW a \in Path, NEW x \in Path, IsOpen(v, x), Below(x, a),
                      NEW k \in v[a].retired
               PROVE  k + Len(x) - Len(a) \in v[x].retired
    BY DEF RetiredClosed
  <2>1. a # c
    OBVIOUS
  <2>2. k \in w[a].retired
    BY <1>3, <2>1
  <2>3. CASE x # c
    BY <1>3, <1>4, <2>2, <2>3 DEF WellRetired, RetiredClosed
  <2>4. CASE x = c
    <3>1. Below(p, a)
      BY <2>1, <2>4, AboveAnswer
    <3>2. k + Len(p) - Len(a) \in w[p].retired
      BY <1>2, <2>2, <3>1 DEF WellRetired, RetiredClosed
    <3> QED BY <1>2, <3>2
  <2> QED BY <2>3, <2>4
<1>8. OpenedFromOpen(v)
  <2> SUFFICES ASSUME NEW x \in Path, NEW q \in Path, IsOpen(v, x), Below(x, q)
               PROVE  IsOpen(v, q)
    BY DEF OpenedFromOpen
  <2>1. CASE x = c
    <3>1. q = c \/ Below(p, q)
      BY <2>1, AboveAnswer
    <3>2. q = c \/ IsOpen(w, q)
      BY <1>2, <3>1 DEF WellRetired, OpenedFromOpen
    <3> QED BY <1>4, <3>2
  <2>2. CASE x # c
    BY <1>4, <2>2 DEF WellRetired, OpenedFromOpen
  <2> QED BY <2>1, <2>2
<1>9. ASSUME NEW q \in Path, NEW m \in 1 .. MaxFan, Append(q, m) \in Path,
             IsOpen(v, Append(q, m))
      PROVE  /\ m < v[q].next
             /\ m # v[q].current => 1 \in v[Append(q, m)].retired
  <2>1. \A x \in Path : w[x].next \in Nat /\ v[x].next \in Nat
    BY <1>2 DEF Node
  <2>2. CASE Append(q, m) = c
    <3>1. q = p /\ m = n
      <4>1. q \in Seq(1 .. MaxFan) /\ p \in Seq(1 .. MaxFan)
        BY PathType
      <4>2. Len(q) = Len(p) /\ \A i \in 1 .. Len(p) : q[i] = p[i]
        BY <2>2, <1>9, AppendPath, PathType
      <4>3. m = n
        BY <2>2, <4>2, <1>9, AppendPath
      <4>4. Below(q, p) /\ Below(p, q)
        BY <4>2, PathType DEF Below
      <4> QED BY <4>3, <4>4, BelowAntisymmetric
    <3> QED BY <3>1
  <2>3. CASE Append(q, m) # c
    <3>1. IsOpen(w, Append(q, m)) /\ m < w[q].next
      BY <1>4, <1>9, <2>3 DEF WellRetired, OpenedInOrder
    <3>2. q # c
      <4>1. Below(Append(q, m), q)
        BY <1>9, BelowAnswer, BelowReflexive DEF StrictlyBelow
      <4> QED BY <3>1, <4>1, <1>5, <1>9
    <3>3. w[q].next <= v[q].next
      BY <2>1, <3>2
    <3>4. CASE q = p
      <4>1. 1 \in w[Append(q, m)].retired
        BY <1>9, <3>1, <3>4 DEF Ended
      <4>2. v[Append(q, m)].retired = w[Append(q, m)].retired
        BY <1>3, <1>9, <2>3
      <4>3. m < v[q].next
        BY <2>1, <3>1, <3>3
      <4> QED BY <4>1, <4>2, <4>3
    <3>5. CASE q # p
      <4>1. v[q] = w[q]
        BY <3>2, <3>5
      <4> QED BY <1>3, <1>9, <2>3, <3>1, <4>1 DEF WellRetired, OldRetired
    <3> QED BY <3>4, <3>5
  <2> QED BY <2>2, <2>3
<1>10. OpenSet(v) = OpenSet(w) \union {c}
  BY <1>4 DEF OpenSet
<1>11. LiveSet(v) = LiveSet(w) \union {c}
  BY <1>3, <1>4 DEF LiveSet, Live
<1> QED BY <1>6, <1>7, <1>8, <1>9, <1>10, <1>11
        DEF WellRetired, OpenedInOrder, OldRetired

-----------------------------------------------------------------------------
(* The queries *)

(* An accepted MeasurementQuery to p: its answers end, and the new one, if *)
(* there is one, is live.                                                  *)
LEMMA MeasuredEffect ==
  ASSUME NEW tr, WellRetired(tr), NEW p \in Path, Live(tr, p),
         Append(p, tr[p].next) \in Path,
         NEW m \in Measurement, NEW cost \in Budgets,
         CanSpend(tr[p].remaining, cost), NEW raises \in BOOLEAN
  PROVE  LET v == Measured(tr, p, m, cost, raises)
             c == Append(p, tr[p].next)
             kept == {x \in LiveSet(tr) : ~ StrictlyBelow(x, p)}
         IN  /\ WellRetired(v)
             /\ raises => OpenSet(v) = OpenSet(tr) /\ LiveSet(v) = kept
             /\ ~ raises => /\ ~ IsOpen(tr, c)
                            /\ OpenSet(v) = OpenSet(tr) \union {c}
                            /\ LiveSet(v) = kept \union {c}
<1> DEFINE u == RetireCurrent(tr, p)
           n == tr[p].next
           c == Append(p, n)
           spent == IF IsFinite(tr[p].remaining)
                    THEN AddedLosses(tr[p].spent, cost) ELSE tr[p].spent
           remaining == Subtract(tr[p].remaining, cost)
           charged == [u EXCEPT ![p] =
                         [tr[p] EXCEPT !.current = 0, !.remaining = remaining,
                                       !.spent = spent]]
           new == Created(m, tr[p].sens, cost, tr[p].torn)
           v == [charged EXCEPT ![p].next = n + 1, ![p].current = n, ![c] = new]
<1>1. /\ tr[p] \in Node /\ tr[p].retired = {} /\ IsOpen(tr, p)
      /\ n \in 1 .. MaxFan /\ p # c
  <2>1. tr[p] \in Node /\ tr[p].retired = {} /\ IsOpen(tr, p)
    BY DEF WellRetired, Shaped, Live
  <2>2. n \in 1 .. MaxFan /\ p # c
    BY AppendPath, BelowAnswer, BelowReflexive DEF StrictlyBelow
  <2> QED BY <2>1, <2>2
<1>2. u \in [Path -> Node] /\ u[p] = tr[p]
  BY RetireCurrentEffect DEF StrictlyBelow, WellRetired, Shaped
<1>3. /\ charged \in [Path -> Node]
      /\ charged[p].kind = tr[p].kind /\ charged[p].retired = {}
      /\ charged[p].next = n /\ charged[p].current = 0
      /\ \A x \in Path \ {p} : charged[x] = u[x]
  <2>1. remaining \in Budgets
    BY <1>1, SubtractType DEF Node
  <2>2. spent \in [eps : Amount, delta : Nat]
    BY <1>1, PlusType DEF Node
  <2>3. [tr[p] EXCEPT !.current = 0, !.remaining = remaining, !.spent = spent]
          \in Node
    BY <1>1, <2>1, <2>2 DEF Node
  <2> QED BY <1>1, <1>2, <2>3 DEF Node
<1>4. /\ WellRetired(charged) /\ Ended(charged, p) /\ Live(charged, p)
      /\ OpenSet(charged) = OpenSet(tr)
      /\ LiveSet(charged) = {x \in LiveSet(tr) : ~ StrictlyBelow(x, p)}
  <2> HIDE DEF charged
  <2>1. tr[p].next <= charged[p].next
    BY <1>1, <1>3
  <2> QED BY <1>1, <1>3, <2>1, Dropped
<1>5. ~ IsOpen(tr, c) /\ ~ IsOpen(charged, c)
  <2>1. IsOpen(tr, c) => n < tr[p].next
    BY <1>1 DEF WellRetired, OpenedInOrder
  <2>2. ~ IsOpen(tr, c)
    BY <1>1, <2>1
  <2> QED BY <1>4, <2>2 DEF OpenSet
<1>6. Measured(tr, p, m, cost, raises) = IF raises THEN charged ELSE v
  BY <1>1, <1>2 DEF Measured
<1>7. /\ new \in Node /\ new.kind # "none" /\ new.retired = {}
      /\ new.current = 0
  BY <1>1, CreatedType DEF Node
<1>8. /\ v \in [Path -> Node]
      /\ v[p].kind = charged[p].kind /\ v[p].retired = {}
      /\ v[p].next = n + 1 /\ v[p].current = n
      /\ v[c] = new
      /\ \A x \in Path \ {p, c} : v[x] = charged[x]
  <2> HIDE DEF new, charged
  <2>1. [charged[p] EXCEPT !.next = n + 1, !.current = n] \in Node
    <3>1. charged[p] \in Node /\ n + 1 \in Nat \ {0} /\ n \in Nat
      BY <1>1, <1>3
    <3> HIDE DEF n
    <3> QED BY <3>1 DEF Node
  <2> QED BY <1>1, <1>3, <1>7, <2>1 DEF Node
<1>9. /\ WellRetired(v)
      /\ OpenSet(v) = OpenSet(charged) \union {c}
      /\ LiveSet(v) = LiveSet(charged) \union {c}
  <2> HIDE DEF v, charged, new, c
  <2> QED BY <1>1, <1>3, <1>4, <1>5, <1>7, <1>8, HandedOut DEF c
<1> QED BY <1>4, <1>5, <1>6, <1>9

(* An IndexQuery to p: its answers end, and the next part is live if there *)
(* is one and it runs.                                                     *)
LEMMA IndexedEffect ==
  ASSUME NEW tr, WellRetired(tr), NEW p \in Path, Live(tr, p),
         NEW raises \in BOOLEAN,
         tr[p].next <= Len(tr[p].parts) => Append(p, tr[p].next) \in Path
  PROVE  LET v == Indexed(tr, p, raises)
             c == Append(p, tr[p].next)
             kept == {x \in LiveSet(tr) : ~ StrictlyBelow(x, p)}
             over == raises \/ tr[p].next > Len(tr[p].parts)
         IN  /\ WellRetired(v)
             /\ over => OpenSet(v) = OpenSet(tr) /\ LiveSet(v) = kept
             /\ ~ over => /\ c \in Path /\ ~ IsOpen(tr, c)
                          /\ OpenSet(v) = OpenSet(tr) \union {c}
                          /\ LiveSet(v) = kept \union {c}
<1> DEFINE u == RetireCurrent(tr, p)
           n == tr[p].next
           c == Append(p, n)
           retired == [u EXCEPT ![p].next = n + 1]
           new == Created(tr[p].parts[n], tr[p].sens, tr[p].charge, tr[p].torn)
           v == [retired EXCEPT ![p].current = n, ![c] = new]
           over == raises \/ n > Len(tr[p].parts)
<1>1. /\ tr[p] \in Node /\ tr[p].retired = {} /\ IsOpen(tr, p)
      /\ n \in Nat \ {0}
  <2>1. tr[p] \in Node /\ tr[p].retired = {} /\ IsOpen(tr, p)
    BY DEF WellRetired, Shaped, Live
  <2> QED BY <2>1 DEF Node
<1>2. u \in [Path -> Node] /\ u[p] = tr[p]
  BY RetireCurrentEffect DEF StrictlyBelow, WellRetired, Shaped
<1>3. /\ retired \in [Path -> Node]
      /\ retired[p].kind = tr[p].kind /\ retired[p].retired = {}
      /\ retired[p].next = n + 1 /\ retired[p].current = tr[p].current
      /\ \A x \in Path \ {p} : retired[x] = u[x]
  <2> HIDE DEF u, n
  <2>1. [tr[p] EXCEPT !.next = n + 1] \in Node
    BY <1>1 DEF Node
  <2> QED BY <1>1, <1>2, <2>1 DEF Node
<1>4. /\ WellRetired(retired) /\ Ended(retired, p) /\ Live(retired, p)
      /\ OpenSet(retired) = OpenSet(tr)
      /\ LiveSet(retired) = {x \in LiveSet(tr) : ~ StrictlyBelow(x, p)}
  <2> HIDE DEF retired
  <2>1. tr[p].next <= retired[p].next
    BY <1>1, <1>3
  <2> QED BY <1>1, <1>3, <2>1, Dropped
<1>5. Indexed(tr, p, raises) = IF over THEN retired ELSE v
  BY DEF Indexed
<1>6. CASE over
  BY <1>4, <1>5, <1>6
<1>7. CASE ~ over
  <2>1. /\ raises = FALSE /\ c \in Path /\ n \in 1 .. MaxFan /\ p # c
        /\ n \in 1 .. Len(tr[p].parts)
    <3>1. tr[p].parts \in Seq(AnswerMeasurement \union SequentialMeasurement)
      BY <1>1 DEF Node
    <3>2. n \in 1 .. Len(tr[p].parts) /\ raises = FALSE /\ c \in Path
      BY <1>1, <1>7, <3>1
    <3>3. n \in 1 .. MaxFan /\ p # c
      BY <3>2, AppendPath, BelowAnswer, BelowReflexive DEF StrictlyBelow
    <3> QED BY <3>2, <3>3
  <2>2. ~ IsOpen(tr, c) /\ ~ IsOpen(retired, c)
    <3>1. IsOpen(tr, c) => n < tr[p].next
      BY <2>1 DEF WellRetired, OpenedInOrder
    <3>2. ~ IsOpen(tr, c)
      BY <2>1, <3>1
    <3> QED BY <1>4, <2>1, <3>2 DEF OpenSet
  <2>3. /\ new \in Node /\ new.kind # "none" /\ new.retired = {}
        /\ new.current = 0
    <3>1. tr[p].parts[n] \in AnswerMeasurement \union SequentialMeasurement
      <4>1. tr[p].parts \in Seq(AnswerMeasurement \union SequentialMeasurement)
        BY <1>1 DEF Node
      <4> QED BY <2>1, <4>1
    <3>2. tr[p].parts[n] \in Measurement
      BY <3>1 DEF Measurement
    <3>3. tr[p].sens \in Dist /\ tr[p].charge \in Budgets /\ tr[p].torn \in BOOLEAN
      BY <1>1 DEF Node
    <3> QED BY <3>2, <3>3, CreatedType
  <2>4. /\ v \in [Path -> Node]
        /\ v[p].kind = retired[p].kind /\ v[p].retired = {}
        /\ v[p].next = n + 1 /\ v[p].current = n
        /\ v[c] = new
        /\ \A x \in Path \ {p, c} : v[x] = retired[x]
    <3> HIDE DEF new, retired
    <3>1. [retired[p] EXCEPT !.current = n] \in Node
      <4>1. retired[p] \in Node /\ n \in Nat
        BY <1>3, <2>1
      <4> HIDE DEF n
      <4> QED BY <4>1 DEF Node
    <3> QED BY <1>3, <2>1, <2>3, <3>1 DEF Node
  <2>5. /\ WellRetired(v)
        /\ OpenSet(v) = OpenSet(retired) \union {c}
        /\ LiveSet(v) = LiveSet(retired) \union {c}
    <3>1. n < n + 1 /\ n + 1 <= n + 1
      BY <2>1
    <3> HIDE DEF v, retired, new, c
    <3> QED BY <1>3, <1>4, <2>1, <2>2, <2>3, <2>4, <3>1, HandedOut DEF c
  <2> QED BY <1>4, <1>5, <1>7, <2>1, <2>2, <2>5
<1> QED BY <1>6, <1>7

(* A TransformationQuery leaves wrappers and answers alone.                *)
LEMMA TransformedEffect ==
  ASSUME NEW tr, WellRetired(tr), NEW p \in Path, IsOpen(tr, p),
         NEW t \in Transformation, NEW hint \in Dist \union {None}
  PROVE  LET v == Transformed(tr, p, t, hint)
         IN  /\ WellRetired(v)
             /\ OpenSet(v) = OpenSet(tr)
             /\ LiveSet(v) = LiveSet(tr)
<1> DEFINE v == Transformed(tr, p, t, hint)
           known == Stabilities(tr[p].dIn, t, hint)
           d == CHOOSE e \in known : TRUE
<1>1. tr \in [Path -> Node] /\ tr[p] \in Node
  BY DEF WellRetired, Shaped
<1>2. PICK nd \in Node :
        /\ v = [tr EXCEPT ![p] = nd]
        /\ nd.kind = tr[p].kind /\ nd.retired = tr[p].retired
        /\ nd.next = tr[p].next /\ nd.current = tr[p].current
  <2>1. t.stab[tr[p].sens] \in Dist /\ t.out \in Types
    BY <1>1 DEF Node, Transformation
  <2>2. CASE known = {}
    <3>1. v = [tr EXCEPT ![p] = [tr[p] EXCEPT !.sens = t.stab[@], !.torn = TRUE]]
      BY <1>1, <2>2 DEF Transformed
    <3>2. [tr[p] EXCEPT !.sens = t.stab[@], !.torn = TRUE] \in Node
      BY <1>1, <2>1 DEF Node
    <3> QED BY <1>1, <3>1, <3>2 DEF Node
  <2>3. CASE known # {}
    <3>1. d \in Dist
      BY <1>1, <2>3, StabilitiesType DEF Node
    <3> HIDE DEF d
    <3>2. v = [tr EXCEPT ![p] = [tr[p] EXCEPT !.sens = t.stab[@], !.dIn = d,
                                              !.type = t.out]]
      BY <1>1, <2>3 DEF Transformed, d
    <3>3. [tr[p] EXCEPT !.sens = t.stab[@], !.dIn = d, !.type = t.out] \in Node
      BY <1>1, <2>1, <3>1 DEF Node
    <3> QED BY <1>1, <3>2, <3>3 DEF Node
  <2> QED BY <2>2, <2>3
<1> HIDE DEF v
<1>3. \A x \in Path : /\ v[x] \in Node /\ v[x].kind = tr[x].kind
                      /\ v[x].retired = tr[x].retired
                      /\ v[x].next = tr[x].next /\ v[x].current = tr[x].current
                      /\ IsOpen(v, x) <=> IsOpen(tr, x)
  BY <1>1, <1>2 DEF IsOpen
<1>4. v \in [Path -> Node]
  BY <1>1, <1>2
<1>5. WellRetired(v)
  BY <1>3, <1>4 DEF WellRetired, Shaped, RetiredClosed, OpenedFromOpen,
                    OpenedInOrder, OldRetired
<1>6. OpenSet(v) = OpenSet(tr) /\ LiveSet(v) = LiveSet(tr)
  BY <1>3 DEF OpenSet, LiveSet, Live
<1> QED BY <1>5, <1>6 DEF v

(* A RetireQuery from the caller to x ends x and all that was obtained     *)
(* from it, unless x had ended before.                                     *)
LEMMA RetireEffect ==
  ASSUME NEW tr, WellRetired(tr), NEW x \in Path, IsOpen(tr, x), x # Root
  PROVE  LET v == RetireWrapper(tr, x, Len(x))
         IN  /\ WellRetired(v)
             /\ OpenSet(v) = OpenSet(tr)
             /\ Live(tr, x) =>
                  LiveSet(v) = {y \in LiveSet(tr) : ~ Below(y, x)}
             /\ ~ Live(tr, x) => LiveSet(v) = LiveSet(tr)
<1> DEFINE v == RetireWrapper(tr, x, Len(x))
<1>1. Len(x) \in 1 .. Len(x)
  <2>1. Len(x) \in Nat
    BY PathType
  <2>2. Len(x) # 0
    <3> SUFFICES ASSUME Len(x) = 0 PROVE FALSE
      OBVIOUS
    <3>1. Below(Root, x)
      BY PathType DEF Below, Root
    <3> QED BY <3>1, RootAboveAll
  <2> QED BY <2>1, <2>2
<1>2. /\ WellRetired(v) /\ OnlyRetires(tr, v)
      /\ \A y \in Path :
           v[y].retired = IF IsOpen(tr, y) /\ Below(y, x)
                          THEN tr[y].retired \union {Len(x) + Len(y) - Len(x)}
                          ELSE tr[y].retired
  BY <1>1, RetireWrapperWellRetired
<1> HIDE DEF v
<1>3. \A y \in Path : IsOpen(v, y) <=> IsOpen(tr, y)
  <2> TAKE y \in Path
  <2>1. tr[y] \in Node /\ v[y] \in Node
    BY <1>2 DEF WellRetired, Shaped, OnlyRetires
  <2>2. PICK S \in SUBSET (1 .. MaxDepth) : v[y] = [tr[y] EXCEPT !.retired = S]
    <3>1. v[y].retired \in SUBSET (1 .. MaxDepth)
      BY <2>1 DEF Node
    <3> QED BY <1>2, <3>1 DEF OnlyRetires
  <2> QED BY <2>1, <2>2, ChangedRetired DEF IsOpen
<1>4. OpenSet(v) = OpenSet(tr)
  BY <1>3 DEF OpenSet
<1>5. \A y \in Path : Live(v, y) <=> Live(tr, y) /\ ~ Below(y, x)
  BY <1>2, <1>3 DEF Live
<1>6. ASSUME ~ Live(tr, x), NEW y \in Path, Below(y, x) PROVE ~ Live(tr, y)
  <2>1. PICK k \in tr[x].retired : TRUE
    BY <1>6 DEF Live
  <2>2. IsOpen(tr, y) => k + Len(y) - Len(x) \in tr[y].retired
    BY <1>6, <2>1 DEF WellRetired, RetiredClosed
  <2> QED BY <2>2 DEF Live
<1>7. Live(tr, x) => LiveSet(v) = {y \in LiveSet(tr) : ~ Below(y, x)}
  BY <1>5 DEF LiveSet
<1>8. ~ Live(tr, x) => LiveSet(v) = LiveSet(tr)
  BY <1>5, <1>6 DEF LiveSet
<1> QED BY <1>2, <1>4, <1>7, <1>8 DEF v

-----------------------------------------------------------------------------
(* The specification *)

LEMMA InitWrapperInv ==
  ASSUME Init
  PROVE  /\ WrapperInv
         /\ OpenSet(tree) = {Root} /\ LiveSet(tree) = {Root}
<1>1. PICK m \in RootCompositions :
        tree = [x \in Path |-> IF x = Root
                               THEN Created(m, m.dIn, m.budget, FALSE)
                               ELSE NotOpened]
  BY DEF Init
<1>2. m \in Measurement /\ m.dIn \in Dist /\ m.budget \in Budgets
  BY RootAssumption DEF Measurement, SequentialMeasurement
<1>3. /\ tree[Root] \in Node /\ tree[Root].kind # "none"
      /\ tree[Root].retired = {} /\ tree[Root].current = 0
  <2>1. tree[Root] = Created(m, m.dIn, m.budget, FALSE)
    BY <1>1, RootInPath
  <2>2. \A f \in BOOLEAN : LET nd == Created(m, m.dIn, m.budget, f)
                           IN  /\ nd \in Node /\ nd.kind # "none"
                               /\ nd.retired = {} /\ nd.current = 0
    BY <1>2, CreatedType
  <2> QED BY <2>1, <2>2
<1>4. \A x \in Path \ {Root} :
        /\ tree[x] \in Node /\ tree[x].kind = "none"
        /\ tree[x].retired = {} /\ tree[x].current = 0
  BY <1>1, NotOpenedType DEF NotOpened
<1>5. \A x \in Path : IsOpen(tree, x) <=> x = Root
  BY <1>3, <1>4 DEF IsOpen
<1>6. tree \in [Path -> Node]
  BY <1>1, <1>3, <1>4
<1>7. \A x \in Path : tree[x].retired = {} /\ tree[x].current = 0
  BY <1>3, <1>4
<1>8. \A p \in Path, n \in 1 .. MaxFan :
        Append(p, n) \in Path => Append(p, n) # Root
  <2> SUFFICES ASSUME NEW p \in Path, NEW n \in 1 .. MaxFan,
                      Append(p, n) \in Path, Append(p, n) = Root
               PROVE  FALSE
    OBVIOUS
  <2>1. Len(Root) = Len(p) + 1 /\ Len(p) \in Nat
    BY AppendPath, PathType
  <2> QED BY <2>1 DEF Root
<1>9. \A p \in Path : Below(Root, p) => p = Root
  <2> TAKE p \in Path
  <2> HAVE Below(Root, p)
  <2>1. Below(p, Root)
    BY RootAboveAll
  <2> QED BY <2>1, RootInPath, BelowAntisymmetric
<1>10. WrapperInv
  BY <1>5, <1>6, <1>7, <1>8, <1>9
     DEF WrapperInv, WellRetired, Shaped, RetiredClosed, OpenedFromOpen,
         OpenedInOrder, OldRetired
<1> QED BY <1>3, <1>5, <1>7, <1>10, RootInPath DEF OpenSet, LiveSet, Live

(* SequentialAccess with what the tree says is opened and live.            *)
A == INSTANCE SequentialAccessProofs
       WITH opened <- OpenSet(tree), live <- LiveSet(tree)

(* Every query keeps the invariant and is a step of SequentialAccess.      *)
LEMMA MeasurementStep ==
  ASSUME WrapperInv, NEW p \in Path, NEW m \in Measurements,
         NEW hint \in LossHints, MeasurementQuery(p, m, hint)
  PROVE  WrapperInv' /\ (A!Open(p) \/ A!Drop(p))
<1>1. PICK cost \in Accepted(tree[p], m, hint), raises \in BOOLEAN :
        tree' = Measured(tree, p, m, cost, raises)
  BY DEF MeasurementQuery
<1>2. /\ WellRetired(tree) /\ Live(tree, p) /\ tree[p] \in Node
      /\ Len(p) < MaxDepth /\ tree[p].next \in 1 .. MaxFan
  <2>1. /\ WellRetired(tree) /\ Live(tree, p) /\ tree[p] \in Node
        /\ Len(p) < MaxDepth /\ tree[p].next <= MaxFan
    BY DEF MeasurementQuery, HasRoom, WrapperInv, WellRetired, Shaped
  <2>2. tree[p].next \in Nat \ {0}
    BY <2>1 DEF Node
  <2> QED BY <2>1, <2>2, FanAssumption
<1> DEFINE c == Append(p, tree[p].next)
<1>3. c \in Path
  BY <1>2, AnswerInPath
<1>4. m \in Measurement /\ tree[p].dIn \in Dist
  BY <1>2, MeasurementsAssumption DEF Node, WellMade
<1>5. cost \in Budgets /\ CanSpend(tree[p].remaining, cost)
  BY <1>4, AcceptedType, HintsAssumption
<1>6. LET kept == {x \in LiveSet(tree) : ~ StrictlyBelow(x, p)}
      IN  /\ WellRetired(tree')
          /\ raises => OpenSet(tree') = OpenSet(tree) /\ LiveSet(tree') = kept
          /\ ~ raises => /\ ~ IsOpen(tree, c)
                         /\ OpenSet(tree') = OpenSet(tree) \union {c}
                         /\ LiveSet(tree') = kept \union {c}
  BY <1>1, <1>2, <1>3, <1>4, <1>5, MeasuredEffect
<1>7. p \in LiveSet(tree) /\ (~ IsOpen(tree, c) => c \in Path \ OpenSet(tree))
  BY <1>2, <1>3 DEF LiveSet, OpenSet
<1>8. CASE raises
  BY <1>6, <1>7, <1>8 DEF A!Drop, A!StrictlyBelow, A!Below, StrictlyBelow, Below,
     WrapperInv
<1>9. CASE ~ raises
  BY <1>2, <1>6, <1>7, <1>9
     DEF A!Open, A!StrictlyBelow, A!Below, A!Path, StrictlyBelow, Below, Path,
         WrapperInv
<1> QED BY <1>8, <1>9

LEMMA TransformationStep ==
  ASSUME WrapperInv, NEW p \in Path, NEW t \in Transformations,
         NEW hint \in DistHints, TransformationQuery(p, t, hint)
  PROVE  WrapperInv' /\ UNCHANGED <<OpenSet(tree), LiveSet(tree)>>
<1>1. /\ tree' = Transformed(tree, p, t, hint) /\ WellRetired(tree)
      /\ IsOpen(tree, p)
  BY DEF TransformationQuery, Live, WrapperInv
<1>2. t \in Transformation
  BY TransformationsAssumption
<1>3. /\ WellRetired(tree') /\ OpenSet(tree') = OpenSet(tree)
      /\ LiveSet(tree') = LiveSet(tree)
  BY <1>1, <1>2, TransformedEffect, HintsAssumption
<1> QED BY <1>3 DEF WrapperInv

LEMMA IndexStep ==
  ASSUME WrapperInv, NEW p \in Path, IndexQuery(p)
  PROVE  WrapperInv' /\ (A!Open(p) \/ A!Drop(p))
<1> DEFINE c == Append(p, tree[p].next)
<1>1. PICK raises \in BOOLEAN : tree' = Indexed(tree, p, raises)
  BY DEF IndexQuery
<1>2. WellRetired(tree) /\ Live(tree, p) /\ tree[p] \in Node
  BY DEF IndexQuery, WrapperInv, WellRetired, Shaped
<1>3. tree[p].next <= Len(tree[p].parts) => c \in Path
  <2> HAVE tree[p].next <= Len(tree[p].parts)
  <2>1. Len(p) < MaxDepth /\ tree[p].next <= MaxFan
    BY DEF IndexQuery, HasRoom
  <2>2. tree[p].next \in 1 .. MaxFan
    BY <1>2, <2>1, FanAssumption DEF Node
  <2> QED BY <2>1, <2>2, AnswerInPath
<1> DEFINE over == raises \/ tree[p].next > Len(tree[p].parts)
<1>4. LET kept == {x \in LiveSet(tree) : ~ StrictlyBelow(x, p)}
      IN  /\ WellRetired(tree')
          /\ over => OpenSet(tree') = OpenSet(tree) /\ LiveSet(tree') = kept
          /\ ~ over => /\ c \in Path /\ ~ IsOpen(tree, c)
                       /\ OpenSet(tree') = OpenSet(tree) \union {c}
                       /\ LiveSet(tree') = kept \union {c}
  BY <1>1, <1>2, <1>3, IndexedEffect
<1>5. p \in LiveSet(tree)
  BY <1>2 DEF LiveSet
<1> HIDE DEF over
<1>6. CASE over
  BY <1>4, <1>5, <1>6
     DEF A!Drop, A!StrictlyBelow, A!Below, StrictlyBelow, Below, WrapperInv
<1>7. CASE ~ over
  <2>1. tree[p].next \in 1 .. MaxFan /\ c \in Path \ OpenSet(tree)
    BY <1>4, <1>7, AppendPath DEF OpenSet
  <2> QED BY <1>4, <1>5, <1>7, <2>1
     DEF A!Open, A!StrictlyBelow, A!Below, A!Path, StrictlyBelow, Below, Path,
         WrapperInv
<1> QED BY <1>6, <1>7

LEMMA RetireStep ==
  ASSUME WrapperInv, NEW x \in Path, RetireQuery(x)
  PROVE  /\ WrapperInv'
         /\ A!Close(x) \/ UNCHANGED <<OpenSet(tree), LiveSet(tree)>>
<1>1. /\ tree' = RetireWrapper(tree, x, Len(x)) /\ WellRetired(tree)
      /\ IsOpen(tree, x) /\ x # Root
  BY DEF RetireQuery, WrapperInv
<1>2. /\ WellRetired(tree')
      /\ OpenSet(tree') = OpenSet(tree)
      /\ Live(tree, x) => LiveSet(tree') = {y \in LiveSet(tree) : ~ Below(y, x)}
      /\ ~ Live(tree, x) => LiveSet(tree') = LiveSet(tree)
  BY <1>1, RetireEffect
<1>3. Live(tree, x) => x \in LiveSet(tree) \ {Root}
  BY <1>1 DEF LiveSet
<1> QED BY <1>2, <1>3 DEF A!Close, A!Below, A!Root, Below, Root, WrapperInv

LEMMA NextStep ==
  ASSUME WrapperInv, [Next]_vars
  PROVE  WrapperInv' /\ [A!Next]_(A!accessVars)
<1>1. CASE UNCHANGED vars
  BY <1>1 DEF vars, WrapperInv, A!accessVars
<1>2. CASE Next
  <2>1. PICK x \in Path :
          \/ \E m \in Measurements, hint \in LossHints :
               MeasurementQuery(x, m, hint)
          \/ \E t \in Transformations, hint \in DistHints :
               TransformationQuery(x, t, hint)
          \/ IndexQuery(x)
          \/ RetireQuery(x)
    BY <1>2 DEF Next
  <2>2. WrapperInv'
    BY <2>1, MeasurementStep, TransformationStep, IndexStep, RetireStep
  <2>3. \/ A!Open(x) \/ A!Drop(x) \/ A!Close(x)
        \/ UNCHANGED <<OpenSet(tree), LiveSet(tree)>>
    BY <2>1, MeasurementStep, TransformationStep, IndexStep, RetireStep
  <2> QED BY <2>2, <2>3 DEF A!Next, A!Path, Path, A!accessVars
<1> QED BY <1>1, <1>2

(* The types of the state, and what keeps retired wrappers retired.        *)
THEOREM WrapperSafety == Spec => []WrapperInv
<1>1. Init => WrapperInv
  BY InitWrapperInv
<1>2. WrapperInv /\ [Next]_vars => WrapperInv'
  BY NextStep
<1> QED BY <1>1, <1>2, PTL DEF Spec

(* Every field of every queryable keeps its type; in particular a charge   *)
(* never takes a remaining budget below zero.                              *)
THEOREM TreeType == Spec => []TypeOK
<1>1. WrapperInv => TypeOK
  BY DEF WrapperInv, WellRetired, Shaped, TypeOK
<1> QED BY <1>1, WrapperSafety, PTL

(* The tree of wrappers and pointers to current answers implements         *)
(* SequentialAccess.                                                       *)
THEOREM AccessRefinement == Spec => A!Spec
<1>1. Init => A!Init
  BY InitWrapperInv DEF A!Init, A!Root, Root
<1>2. WrapperInv /\ [Next]_vars => [A!Next]_(A!accessVars)
  BY NextStep
<1> QED BY <1>1, <1>2, WrapperSafety, PTL DEF Spec, A!Spec

THEOREM Refinement == Spec => ImplementsAccess
<1>1. A!Init => Access!Init
  BY DEF A!Init, Access!Init, A!Root, Access!Root, OpenSet, LiveSet
<1>2. [A!Next]_(A!accessVars) => [Access!Next]_(Access!accessVars)
  BY DEF A!Next, Access!Next, A!Open, Access!Open, A!Drop, Access!Drop,
         A!Close, Access!Close, A!accessVars, Access!accessVars,
         A!Path, Access!Path, A!Root, Access!Root, A!Below, Access!Below,
         A!StrictlyBelow, Access!StrictlyBelow, OpenSet, LiveSet
<1> QED BY <1>1, <1>2, AccessRefinement, PTL
        DEF A!Spec, Access!Spec, ImplementsAccess

(* Of two queryables that still answer, one was obtained from the other.   *)
THEOREM NoConcurrentComposition == Spec => []NoInterleaving
<1>1. A!AccessInv => NoInterleaving
  BY DEF A!AccessInv, A!NoInterleaving, NoInterleaving, LiveSet, A!Below, Below
<1>2. A!Spec => []A!AccessInv
  BY A!AccessSafety, DepthAssumption, FanAssumption
<1> QED BY <1>1, <1>2, AccessRefinement, PTL

-----------------------------------------------------------------------------
(* Accounts *)

(* What is charged covers what is lost, query by query and for every set   *)
(* of measurements and transformations: the distance a queryable computes  *)
(* with bounds the true one, a charge bounds the true loss of the answer   *)
(* it pays for, and a finite budget is neither lost nor made.  These speak *)
(* of one queryable each, so that a query needs to be looked at only where *)
(* it changes its queryable, and where it creates one.                     *)

NodeCovered(nd) ==
  nd.kind = "sequential" /\ ~ nd.torn => nd.sens <= nd.dIn

PartCharged(m, s, c) ==
  IF m.kind = "answer" THEN Compare(m.loss[s], c)
  ELSE s <= m.dIn /\ Compare(m.budget, c)

NodeCharged(nd) ==
  nd.torn
  \/ CASE nd.kind = "answer" -> Compare(nd.loss, nd.charge)
       [] nd.kind = "sequential" -> Compare(nd.total, nd.charge)
       [] nd.kind = "parallel" ->
            \A i \in DOMAIN nd.parts : PartCharged(nd.parts[i], nd.sens, nd.charge)
       [] nd.kind = "none" -> TRUE

NodeBalanced(nd) ==
  nd.kind = "sequential" /\ IsFinite(nd.total) =>
    AddedLosses(nd.spent, nd.remaining) = nd.total

NodeAccounted(nd) == NodeCovered(nd) /\ NodeCharged(nd) /\ NodeBalanced(nd)

Accounted(tr) == \A x \in Path : NodeAccounted(tr[x])

AccountingInv == Accounted(tree)

-----------------------------------------------------------------------------
(* Budgets *)

LEMMA CompareReflexive ==
  ASSUME NEW v \in Budgets
  PROVE  Compare(v, v)
BY DeltaAssumption DEF Compare, Budgets, Amount, AmountAtMost

LEMMA CompareTransitive ==
  ASSUME NEW u \in Budgets, NEW v \in Budgets, NEW w \in Budgets,
         Compare(u, v), Compare(v, w)
  PROVE  Compare(u, w)
<1> USE DeltaAssumption, InfiniteAssumption
<1>1. CASE OutputMeasure = "ApproxDP"
  BY <1>1 DEF Compare, Budgets, Amount, AmountAtMost, IsFinite
<1>2. CASE OutputMeasure # "ApproxDP"
  BY <1>2 DEF Compare, Budgets, Amount, AmountAtMost
<1> QED BY <1>1, <1>2

(* Nothing has been spent of a new budget.                                 *)
LEMMA NothingSpent ==
  ASSUME NEW b \in Budgets, IsFinite(b)
  PROVE  AddedLosses(NoLoss, b) = b
<1>1. b.eps \in Nat /\ b.delta \in Nat
  BY DeltaAssumption DEF Budgets, Amount, IsFinite
<1>2. b = [eps |-> b.eps, delta |-> b.delta]
  BY DEF Budgets
<1> QED BY <1>1, <1>2, InfiniteAssumption DEF AddedLosses, NoLoss, Added

(* A charge moves from what remains to what was spent.                     *)
LEMMA ChargeMoves ==
  ASSUME NEW spent \in [eps : Amount, delta : Nat], NEW b \in Budgets,
         NEW c \in Budgets, CanSpend(b, c),
         IsFinite(AddedLosses(spent, b))
  PROVE  /\ IsFinite(b)
         /\ AddedLosses(AddedLosses(spent, c), Subtract(b, c)) = AddedLosses(spent, b)
<1> USE DeltaAssumption, InfiniteAssumption
<1>1. b.delta \in Nat /\ c.delta \in Nat /\ spent.delta \in Nat
  BY DEF Budgets
<1>2. /\ spent.eps \in Nat /\ b.eps \in Nat
      /\ OutputMeasure = "ApproxDP" => b.delta < DeltaOne
  BY <1>1 DEF IsFinite, AddedLosses, Added, Budgets, Amount
<1>3. IsFinite(b)
  BY <1>2 DEF IsFinite
<1>4. c.eps \in Nat /\ c.eps <= b.eps /\ c.delta <= b.delta
  BY <1>2, <1>3 DEF CanSpend, AmountAtMost, Budgets, Amount
<1> QED BY <1>1, <1>2, <1>3, <1>4 DEF AddedLosses, Added, Subtract

-----------------------------------------------------------------------------
(* Queryables that are created *)

LEMMA CreatedFields ==
  ASSUME NEW m \in Measurement, NEW s \in Dist, NEW c \in Budgets,
         NEW torn \in BOOLEAN
  PROVE  /\ m.kind = "answer" => Created(m, s, c, torn).loss = m.loss[s]
         /\ m.kind = "sequential" =>
              /\ Created(m, s, c, torn).sens = s
              /\ Created(m, s, c, torn).dIn = m.dIn
              /\ Created(m, s, c, torn).total = m.budget
              /\ Created(m, s, c, torn).remaining = m.budget
              /\ Created(m, s, c, torn).spent = NoLoss
         /\ m.kind = "parallel" =>
              /\ Created(m, s, c, torn).sens = m.t.stab[s]
              /\ Created(m, s, c, torn).parts = m.parts
<1> DEFINE new == [NotOpened EXCEPT !.kind = m.kind, !.charge = c, !.torn = torn]
<1>1. m.kind \in {"answer", "sequential", "parallel"}
  BY DEF Measurement, AnswerMeasurement, SequentialMeasurement,
         ParallelMeasurement
<1>2. new \in Node /\ new.spent = NoLoss
  BY <1>1, NotOpenedType DEF Node, NotOpened
<1> HIDE DEF new
<1>3. CASE m.kind = "answer"
  <2>1. Created(m, s, c, torn) = [new EXCEPT !.loss = m.loss[s]]
    BY <1>3 DEF Created, new
  <2> QED BY <1>2, <1>3, <2>1 DEF Node
<1>4. CASE m.kind = "sequential"
  <2>1. Created(m, s, c, torn) =
          [new EXCEPT !.type = m.in, !.dIn = m.dIn, !.sens = s,
                      !.total = m.budget, !.remaining = m.budget]
    BY <1>4 DEF Created, new
  <2> QED BY <1>2, <1>4, <2>1 DEF Node
<1>5. CASE m.kind = "parallel"
  <2>1. Created(m, s, c, torn) =
          [new EXCEPT !.sens = m.t.stab[s], !.parts = m.parts]
    BY <1>5 DEF Created, new
  <2> QED BY <1>2, <1>5, <2>1 DEF Node
<1> QED BY <1>1, <1>3, <1>4, <1>5

(* An answer or a composition whose charge covers it is accounted for.     *)
LEMMA CreatedPartAccounted ==
  ASSUME NEW m \in AnswerMeasurement \union SequentialMeasurement,
         NEW s \in Dist, NEW c \in Budgets, NEW torn \in BOOLEAN,
         ~ torn => PartCharged(m, s, c)
  PROVE  NodeAccounted(Created(m, s, c, torn))
<1> DEFINE nd == Created(m, s, c, torn)
<1>1. m \in Measurement /\ m.kind \in {"answer", "sequential"}
  BY DEF Measurement, AnswerMeasurement, SequentialMeasurement
<1>2. nd.kind = m.kind /\ nd.charge = c /\ nd.torn = torn
  BY <1>1, CreatedType
<1>3. CASE m.kind = "answer"
  <2>1. nd.loss = m.loss[s]
    BY <1>1, <1>3, CreatedFields
  <2> HIDE DEF nd
  <2>2. NodeCharged(nd)
    BY <1>2, <1>3, <2>1 DEF NodeCharged, PartCharged
  <2> QED BY <1>2, <1>3, <2>2 DEF NodeAccounted, NodeCovered, NodeBalanced, nd
<1>4. CASE m.kind = "sequential"
  <2>1. /\ nd.sens = s /\ nd.dIn = m.dIn /\ nd.total = m.budget
        /\ nd.remaining = m.budget /\ nd.spent = NoLoss
    BY <1>1, <1>4, CreatedFields
  <2>2. m.budget \in Budgets
    BY <1>4 DEF AnswerMeasurement, SequentialMeasurement
  <2> HIDE DEF nd
  <2>3. NodeCharged(nd)
    BY <1>2, <1>4, <2>1 DEF NodeCharged, PartCharged
  <2>4. NodeCovered(nd)
    BY <1>2, <1>4, <2>1 DEF NodeCovered, PartCharged
  <2>5. NodeBalanced(nd)
    BY <2>1, <2>2, NothingSpent DEF NodeBalanced
  <2> QED BY <2>3, <2>4, <2>5 DEF NodeAccounted, nd
<1> QED BY <1>1, <1>3, <1>4

-----------------------------------------------------------------------------
(* Charges *)

(* A part's loss is a charge that covers it; so is anything larger, and it *)
(* covers the part on closer data too.                                     *)
LEMMA PartLossCharged ==
  ASSUME NEW m \in AnswerMeasurement \union SequentialMeasurement,
         NEW d \in Dist, NEW v \in PartLoss(m, d)
  PROVE  v \in Budgets /\ PartCharged(m, d, v)
<1>1. v \in Budgets
  BY PartLossType
<1>2. CASE m.kind = "answer"
  <2>1. v = m.loss[d]
    BY <1>2 DEF PartLoss, AnswerLoss
  <2> QED BY <1>1, <1>2, <2>1, CompareReflexive DEF PartCharged
<1>3. CASE m.kind # "answer"
  <2>1. v = m.budget /\ d <= m.dIn
    BY <1>3 DEF PartLoss, SequentialLoss
  <2> QED BY <1>1, <1>3, <2>1, CompareReflexive DEF PartCharged
<1> QED BY <1>2, <1>3, <1>1

LEMMA PartChargedMore ==
  ASSUME NEW m \in AnswerMeasurement \union SequentialMeasurement,
         LossMonotone(m), NEW d \in Dist, NEW s \in Dist, s <= d,
         NEW v \in Budgets, NEW c \in Budgets,
         PartCharged(m, d, v), Compare(v, c)
  PROVE  PartCharged(m, s, c)
<1>1. CASE m \in AnswerMeasurement
  <2>1. m.kind = "answer" /\ m.loss[d] \in Budgets /\ m.loss[s] \in Budgets
    BY <1>1 DEF AnswerMeasurement
  <2>2. Compare(m.loss[s], m.loss[d]) /\ Compare(m.loss[d], v)
    BY <2>1 DEF LossMonotone, PartCharged
  <2>3. Compare(m.loss[s], v)
    BY <2>1, <2>2, CompareTransitive
  <2>4. Compare(m.loss[s], c)
    BY <2>1, <2>3, CompareTransitive
  <2> QED BY <2>1, <2>4 DEF PartCharged
<1>2. CASE m \in SequentialMeasurement
  <2>1. /\ m.kind # "answer" /\ m.dIn \in Dist /\ m.budget \in Budgets
    BY <1>2 DEF SequentialMeasurement
  <2>2. d <= m.dIn /\ Compare(m.budget, v)
    BY <2>1 DEF PartCharged
  <2>3. s <= m.dIn
    BY <2>1, <2>2, DistAssumption DEF Dist
  <2>4. Compare(m.budget, c)
    BY <2>1, <2>2, CompareTransitive
  <2> QED BY <2>1, <2>3, <2>4 DEF PartCharged
<1> QED BY <1>1, <1>2

(* What an accepted query is charged satisfies the measurement's privacy   *)
(* relation at the queryable's d_in, given or computed.                    *)
LEMMA AcceptedRelation ==
  ASSUME NEW nd, nd.dIn \in Dist, NEW m \in Measurement,
         NEW hint \in Budgets \union {None}, NEW c \in Accepted(nd, m, hint)
  PROVE  PrivacyRelation(m, nd.dIn, c)
<1>1. c \in Budgets /\ Compare(c, c)
  BY AcceptedType, CompareReflexive
<1>2. CASE hint # None
  BY <1>2, AcceptedType
<1>3. CASE hint = None
  <2>1. c \in PrivacyFunction(m, nd.dIn)
    BY <1>3, AcceptedType
  <2>2. CASE m.kind = "answer"
    <3>1. c = m.loss[nd.dIn]
      BY <2>1, <2>2 DEF PrivacyFunction, PartLoss, AnswerLoss
    <3> QED BY <1>1, <2>2, <3>1 DEF PrivacyRelation
  <2>3. CASE m.kind # "answer"
    BY <1>1, <2>1, <2>3 DEF PrivacyRelation
  <2> QED BY <2>2, <2>3
<1> QED BY <1>2, <1>3

(* The answer to an accepted query is accounted for: its charge satisfies  *)
(* the relation at d, and the data are no further apart than d.            *)
LEMMA CreatedAccounted ==
  ASSUME NEW m, WellMade(m), NEW d \in Dist, NEW s \in Dist,
         NEW c \in Budgets, NEW torn \in BOOLEAN,
         PrivacyRelation(m, d, c), ~ torn => s <= d
  PROVE  NodeAccounted(Created(m, s, c, torn))
<1>1. m \in Measurement /\ LossMonotone(m)
  BY DEF WellMade
<1>2. CASE m \in AnswerMeasurement
  <2>1. m.kind = "answer" /\ m.loss[d] \in Budgets
    BY <1>2 DEF AnswerMeasurement
  <2>2. PartCharged(m, d, c)
    BY <2>1 DEF PrivacyRelation, PartCharged
  <2>3. ~ torn => PartCharged(m, s, c)
    BY <1>1, <1>2, <2>2, PartChargedMore, CompareReflexive
  <2> QED BY <1>2, <2>3, CreatedPartAccounted
<1>3. CASE m \in SequentialMeasurement
  <2>1. m.kind = "sequential"
    BY <1>3 DEF SequentialMeasurement
  <2>2. PICK v \in PartLoss(m, d) : Compare(v, c)
    BY <2>1 DEF PrivacyRelation, PrivacyFunction
  <2>3. v \in Budgets /\ PartCharged(m, d, v)
    BY <1>3, PartLossCharged
  <2>4. ~ torn => PartCharged(m, s, c)
    BY <1>1, <1>3, <2>2, <2>3, PartChargedMore
  <2> QED BY <1>3, <2>4, CreatedPartAccounted
<1>4. CASE m \in ParallelMeasurement
  <2> DEFINE nd == Created(m, s, c, torn)
             part(i) == m.parts[i]
             e == m.t.stab[d]
             z == m.t.stab[s]
  <2>1. /\ m.kind = "parallel" /\ e \in Dist /\ z \in Dist
        /\ m.parts \in Seq(AnswerMeasurement \union SequentialMeasurement)
    BY <1>4 DEF ParallelMeasurement, Transformation
  <2>2. /\ nd.kind = "parallel" /\ nd.torn = torn /\ nd.charge = c
        /\ nd.sens = z /\ nd.parts = m.parts
    BY <1>1, <2>1, CreatedType, CreatedFields
  <2>3. ~ torn => z <= e
    BY <2>1 DEF WellMade, Monotone
  <2>4. PICK v \in ParallelLoss(m, d) : Compare(v, c)
    BY <2>1 DEF PrivacyRelation, PrivacyFunction
  <2>5. v \in Budgets
    BY <1>1, <2>1, <2>4, PrivacyFunctionType DEF PrivacyFunction
  <2>6. ASSUME ~ torn, NEW i \in DOMAIN m.parts
        PROVE  PartCharged(part(i), z, c)
    <3>1. part(i) \in AnswerMeasurement \union SequentialMeasurement
      BY <2>1
    <3>2. LossMonotone(part(i))
      BY <2>1 DEF WellMade
    <3>3. /\ PartLoss(part(i), e) # {}
          /\ \A w \in PartLoss(part(i), e) :
               AmountAtMost(w.eps, v.eps) /\ w.delta <= v.delta
      BY <2>4 DEF ParallelLoss
    <3>4. PICK w \in PartLoss(part(i), e) :
                 AmountAtMost(w.eps, v.eps) /\ w.delta <= v.delta
      BY <3>3
    <3>5. w \in Budgets /\ PartCharged(part(i), e, w)
      BY <2>1, <3>1, PartLossCharged
    <3>6. Compare(w, v)
      BY <3>4 DEF Compare
    <3>7. Compare(w, c)
      BY <2>4, <2>5, <3>5, <3>6, CompareTransitive
    <3> HIDE DEF e, z, part
    <3> QED BY <2>1, <2>3, <2>6, <3>1, <3>2, <3>5, <3>7, PartChargedMore
  <2> HIDE DEF nd, z
  <2>7. NodeCharged(nd)
    BY <2>2, <2>6 DEF NodeCharged
  <2> QED BY <2>2, <2>7 DEF NodeAccounted, NodeCovered, NodeBalanced, nd
<1> QED BY <1>1, <1>2, <1>3, <1>4 DEF Measurement

-----------------------------------------------------------------------------
(* Queryables that stay *)

(* b has the account of a, whatever became of its wrappers and answers.    *)
SameAccount(a, b) ==
  /\ b.kind = a.kind /\ b.torn = a.torn
  /\ b.sens = a.sens /\ b.dIn = a.dIn
  /\ b.total = a.total /\ b.spent = a.spent /\ b.remaining = a.remaining
  /\ b.charge = a.charge /\ b.loss = a.loss /\ b.parts = a.parts

LEMMA SameAccounted ==
  ASSUME NEW a, NEW b, SameAccount(a, b), NodeAccounted(a)
  PROVE  NodeAccounted(b)
<1>1. NodeCovered(b)
  BY DEF SameAccount, NodeAccounted, NodeCovered
<1>2. NodeCharged(b)
  BY DEF SameAccount, NodeAccounted, NodeCharged
<1>3. NodeBalanced(b)
  BY DEF SameAccount, NodeAccounted, NodeBalanced
<1> QED BY <1>1, <1>2, <1>3 DEF NodeAccounted

(* Setting _is_retired, _previous_queryable or the next index is no        *)
(* business of the account.                                                *)
LEMMA UncountedFields ==
  ASSUME NEW nd \in Node
  PROVE  /\ \A S \in SUBSET (1 .. MaxDepth) :
              SameAccount(nd, [nd EXCEPT !.retired = S])
         /\ \A i \in Nat \ {0} : SameAccount(nd, [nd EXCEPT !.next = i])
         /\ \A i \in Nat \ {0}, j \in Nat :
              SameAccount(nd, [nd EXCEPT !.next = i, !.current = j])
BY DEF Node, SameAccount

LEMMA RetiresAccounted ==
  ASSUME NEW tr, \A x \in Path : tr[x] \in Node, Accounted(tr),
         NEW u, OnlyRetires(tr, u)
  PROVE  Accounted(u)
<1> SUFFICES ASSUME NEW x \in Path PROVE NodeAccounted(u[x])
  BY DEF Accounted
<1>1. tr[x] \in Node /\ NodeAccounted(tr[x])
  BY DEF Accounted
<1>2. u[x].retired \in SUBSET (1 .. MaxDepth)
  BY DEF OnlyRetires, Node
<1>3. PICK S \in SUBSET (1 .. MaxDepth) : u[x] = [tr[x] EXCEPT !.retired = S]
  BY <1>2 DEF OnlyRetires
<1>4. SameAccount(tr[x], u[x])
  BY <1>1, <1>3, UncountedFields
<1> QED BY <1>1, <1>4, SameAccounted

(* A charge keeps a queryable's account balanced.                          *)
LEMMA ChargedAccounted ==
  ASSUME NEW nd \in Node, NodeAccounted(nd),
         NEW cost \in Budgets, CanSpend(nd.remaining, cost),
         NEW spent, NEW remaining, NEW new,
         spent = IF IsFinite(nd.remaining) THEN AddedLosses(nd.spent, cost)
                 ELSE nd.spent,
         remaining = Subtract(nd.remaining, cost),
         new = [nd EXCEPT !.current = 0, !.remaining = remaining,
                          !.spent = spent]
  PROVE  NodeAccounted(new)
<1>1. /\ new.kind = nd.kind /\ new.torn = nd.torn
      /\ new.sens = nd.sens /\ new.dIn = nd.dIn
      /\ new.total = nd.total /\ new.charge = nd.charge
      /\ new.loss = nd.loss /\ new.parts = nd.parts
      /\ new.remaining = remaining /\ new.spent = spent
  BY DEF Node
<1>2. NodeCovered(new)
  BY <1>1 DEF NodeAccounted, NodeCovered
<1>3. NodeCharged(new)
  BY <1>1 DEF NodeAccounted, NodeCharged
<1>4. NodeBalanced(new)
  <2> SUFFICES ASSUME nd.kind = "sequential", IsFinite(nd.total)
               PROVE  AddedLosses(spent, remaining) = nd.total
    BY <1>1 DEF NodeBalanced
  <2>1. /\ nd.spent \in [eps : Amount, delta : Nat] /\ nd.remaining \in Budgets
        /\ AddedLosses(nd.spent, nd.remaining) = nd.total
    BY DEF Node, NodeAccounted, NodeBalanced
  <2>2. /\ IsFinite(nd.remaining)
        /\ AddedLosses(AddedLosses(nd.spent, cost), Subtract(nd.remaining, cost)) = nd.total
    BY <2>1, ChargeMoves
  <2> QED BY <2>2
<1> QED BY <1>2, <1>3, <1>4 DEF NodeAccounted

-----------------------------------------------------------------------------
(* The queries *)

LEMMA MeasuredAccounted ==
  ASSUME NEW tr, WellRetired(tr), Accounted(tr),
         NEW p \in Path, tr[p].kind = "sequential",
         Append(p, tr[p].next) \in Path,
         NEW m, WellMade(m), NEW hint \in Budgets \union {None},
         NEW cost \in Accepted(tr[p], m, hint), NEW raises \in BOOLEAN
  PROVE  Accounted(Measured(tr, p, m, cost, raises))
<1> DEFINE u == RetireCurrent(tr, p)
           n == tr[p].next
           c == Append(p, n)
           spent == IF IsFinite(tr[p].remaining)
                    THEN AddedLosses(tr[p].spent, cost) ELSE tr[p].spent
           remaining == Subtract(tr[p].remaining, cost)
           nd == [tr[p] EXCEPT !.current = 0, !.remaining = remaining,
                               !.spent = spent]
           charged == [u EXCEPT ![p] = nd]
           new == Created(m, tr[p].sens, cost, tr[p].torn)
           v == [charged EXCEPT ![p].next = n + 1, ![p].current = n, ![c] = new]
<1>1. /\ tr[p] \in Node /\ \A x \in Path : tr[x] \in Node
      /\ NodeAccounted(tr[p])
  BY DEF WellRetired, Shaped, Accounted
<1>2. /\ m \in Measurement /\ tr[p].dIn \in Dist /\ tr[p].sens \in Dist
      /\ tr[p].torn \in BOOLEAN /\ n \in Nat \ {0}
  BY <1>1 DEF Node, WellMade
<1>3. /\ cost \in Budgets /\ CanSpend(tr[p].remaining, cost)
      /\ PrivacyRelation(m, tr[p].dIn, cost)
  BY <1>2, AcceptedType, AcceptedRelation
<1>4. u \in [Path -> Node] /\ u[p] = tr[p] /\ Accounted(u)
  <2>1. /\ u \in [Path -> Node] /\ u[p] = tr[p] /\ OnlyRetires(tr, u)
    BY RetireCurrentEffect DEF StrictlyBelow, WellRetired, Shaped
  <2> QED BY <1>1, <2>1, RetiresAccounted
<1>5. NodeAccounted(nd)
  BY <1>1, <1>3, ChargedAccounted
<1>6. nd \in Node
  <2>1. remaining \in Budgets
    BY <1>1, <1>3, SubtractType DEF Node
  <2>2. spent \in [eps : Amount, delta : Nat]
    BY <1>1, <1>3, PlusType DEF Node
  <2> QED BY <1>1, <2>1, <2>2 DEF Node
<1>7. NodeAccounted(new)
  <2>1. ~ tr[p].torn => tr[p].sens <= tr[p].dIn
    BY <1>1 DEF NodeAccounted, NodeCovered
  <2> QED BY <1>2, <1>3, <2>1, CreatedAccounted
<1>8. p # c
  BY BelowAnswer, BelowReflexive DEF StrictlyBelow
<1>9. Measured(tr, p, m, cost, raises) = IF raises THEN charged ELSE v
  BY <1>4 DEF Measured
<1> HIDE DEF u, nd, new
<1>10. Accounted(charged)
  BY <1>4, <1>5 DEF Accounted
<1>11. Accounted(v)
  <2>1. /\ v[c] = new
        /\ v[p] = [nd EXCEPT !.next = n + 1, !.current = n]
        /\ \A x \in Path \ {p, c} : v[x] = u[x]
    BY <1>4, <1>8
  <2>2. NodeAccounted(v[p])
    <3>1. SameAccount(nd, v[p])
      <4>1. n + 1 \in Nat \ {0} /\ n \in Nat
        BY <1>2
      <4> HIDE DEF n
      <4>2. SameAccount(nd, [nd EXCEPT !.next = n + 1, !.current = n])
        BY <1>6, <4>1, UncountedFields
      <4> HIDE DEF v
      <4> QED BY <2>1, <4>2
    <3> QED BY <1>5, <3>1, SameAccounted
  <2> HIDE DEF v
  <2> QED BY <1>4, <1>7, <2>1, <2>2 DEF Accounted
<1> QED BY <1>9, <1>10, <1>11

LEMMA TransformedAccounted ==
  ASSUME NEW tr, WellRetired(tr), Accounted(tr),
         NEW p \in Path, tr[p].kind = "sequential",
         NEW t \in Transformation, Monotone(t), NEW hint \in Dist \union {None}
  PROVE  Accounted(Transformed(tr, p, t, hint))
<1> DEFINE v == Transformed(tr, p, t, hint)
           known == Stabilities(tr[p].dIn, t, hint)
           d == CHOOSE e \in known : TRUE
<1>1. /\ tr \in [Path -> Node] /\ tr[p] \in Node /\ NodeAccounted(tr[p])
  BY DEF WellRetired, Shaped, Accounted
<1>2. /\ t \in Transformation /\ Monotone(t)
      /\ tr[p].sens \in Dist /\ tr[p].dIn \in Dist
      /\ t.stab[tr[p].sens] \in Dist /\ t.stab[tr[p].dIn] \in Dist
  BY <1>1 DEF Node, Transformation
<1>3. PICK nd \in Node : v = [tr EXCEPT ![p] = nd] /\ NodeAccounted(nd)
  <2>1. CASE known = {}
    <3> DEFINE nd == [tr[p] EXCEPT !.sens = t.stab[@], !.torn = TRUE]
    <3>1. v = [tr EXCEPT ![p] = nd]
      BY <1>1, <2>1 DEF Transformed
    <3>2. /\ nd \in Node /\ nd.torn /\ nd.kind = "sequential"
          /\ nd.total = tr[p].total /\ nd.spent = tr[p].spent
          /\ nd.remaining = tr[p].remaining
      BY <1>1, <1>2 DEF Node
    <3> HIDE DEF nd
    <3>3. NodeAccounted(nd)
      BY <1>1, <3>2 DEF NodeAccounted, NodeCovered, NodeCharged, NodeBalanced
    <3> QED BY <3>1, <3>2, <3>3
  <2>2. CASE known # {}
    <3> DEFINE nd == [tr[p] EXCEPT !.sens = t.stab[@], !.dIn = d, !.type = t.out]
    <3>1. d \in Dist /\ t.stab[tr[p].dIn] <= d
      BY <1>1, <1>2, <2>2, StabilitiesType
    <3>2. t.out \in Types
      BY <1>2 DEF Transformation
    <3>3. v = [tr EXCEPT ![p] = nd]
      BY <1>1, <2>2 DEF Transformed
    <3> HIDE DEF d
    <3>4. /\ nd \in Node /\ nd.kind = "sequential" /\ nd.torn = tr[p].torn
          /\ nd.sens = t.stab[tr[p].sens] /\ nd.dIn = d
          /\ nd.total = tr[p].total /\ nd.spent = tr[p].spent
          /\ nd.remaining = tr[p].remaining /\ nd.charge = tr[p].charge
      BY <1>1, <1>2, <3>1, <3>2 DEF Node
    <3> HIDE DEF nd
    <3>5. NodeCovered(nd)
      <4> SUFFICES ASSUME ~ tr[p].torn PROVE nd.sens <= nd.dIn
        BY <3>4 DEF NodeCovered
      <4>1. tr[p].sens <= tr[p].dIn
        BY <1>1 DEF NodeAccounted, NodeCovered
      <4>2. t.stab[tr[p].sens] <= t.stab[tr[p].dIn]
        BY <1>2, <4>1 DEF Monotone
      <4> QED BY <1>2, <3>1, <3>4, <4>2, DistAssumption DEF Dist
    <3>6. NodeCharged(nd) /\ NodeBalanced(nd)
      BY <1>1, <3>4 DEF NodeAccounted, NodeCharged, NodeBalanced
    <3> QED BY <3>3, <3>4, <3>5, <3>6 DEF NodeAccounted
  <2> QED BY <2>1, <2>2
<1> HIDE DEF v
<1>4. Accounted(v)
  BY <1>1, <1>3 DEF Accounted
<1> QED BY <1>4 DEF v

LEMMA IndexedAccounted ==
  ASSUME NEW tr, WellRetired(tr), Accounted(tr),
         NEW p \in Path, tr[p].kind = "parallel", NEW raises \in BOOLEAN,
         tr[p].next <= Len(tr[p].parts) => Append(p, tr[p].next) \in Path
  PROVE  Accounted(Indexed(tr, p, raises))
<1> DEFINE u == RetireCurrent(tr, p)
           n == tr[p].next
           c == Append(p, n)
           part == tr[p].parts[n]
           retired == [u EXCEPT ![p].next = n + 1]
           new == Created(part, tr[p].sens, tr[p].charge, tr[p].torn)
           v == [retired EXCEPT ![p].current = n, ![c] = new]
           over == raises \/ n > Len(tr[p].parts)
<1>1. /\ tr[p] \in Node /\ \A x \in Path : tr[x] \in Node
      /\ NodeAccounted(tr[p]) /\ n \in Nat \ {0} /\ n + 1 \in Nat \ {0}
  <2>1. /\ tr[p] \in Node /\ \A x \in Path : tr[x] \in Node
        /\ NodeAccounted(tr[p])
    BY DEF WellRetired, Shaped, Accounted
  <2>2. n \in Nat \ {0}
    BY <2>1 DEF Node
  <2> QED BY <2>1, <2>2
<1>2. u \in [Path -> Node] /\ u[p] = tr[p] /\ Accounted(u)
  <2>1. /\ u \in [Path -> Node] /\ u[p] = tr[p] /\ OnlyRetires(tr, u)
    BY RetireCurrentEffect DEF StrictlyBelow, WellRetired, Shaped
  <2> QED BY <1>1, <2>1, RetiresAccounted
<1>3. Indexed(tr, p, raises) = IF over THEN retired ELSE v
  BY DEF Indexed
<1>4. CASE over
  <2> HIDE DEF u, n
  <2>1. /\ retired[p] = [tr[p] EXCEPT !.next = n + 1]
        /\ \A x \in Path \ {p} : retired[x] = u[x]
    BY <1>2
  <2>2. NodeAccounted(retired[p])
    BY <1>1, <2>1, UncountedFields, SameAccounted
  <2> HIDE DEF retired
  <2>3. Accounted(retired)
    BY <1>2, <2>1, <2>2 DEF Accounted
  <2> QED BY <1>3, <1>4, <2>3
<1>5. CASE ~ over
  <2>1. /\ tr[p].parts \in Seq(AnswerMeasurement \union SequentialMeasurement)
        /\ tr[p].sens \in Dist /\ tr[p].charge \in Budgets
        /\ tr[p].torn \in BOOLEAN
    BY <1>1 DEF Node
  <2>2. n \in DOMAIN tr[p].parts /\ c \in Path
    BY <1>1, <1>5, <2>1
  <2>3. p # c
    BY <2>2, BelowAnswer, BelowReflexive DEF StrictlyBelow
  <2>4. part \in AnswerMeasurement \union SequentialMeasurement
    BY <2>1, <2>2
  <2>5. ~ tr[p].torn => PartCharged(part, tr[p].sens, tr[p].charge)
    BY <1>1, <2>2 DEF NodeAccounted, NodeCharged
  <2>6. NodeAccounted(new)
    BY <2>1, <2>4, <2>5, CreatedPartAccounted
  <2> HIDE DEF u, new, n, c
  <2>7. /\ v[c] = new
        /\ v[p] = [tr[p] EXCEPT !.next = n + 1, !.current = n]
        /\ \A x \in Path \ {p, c} : v[x] = u[x]
    BY <1>2, <2>2, <2>3
  <2>8. NodeAccounted(v[p])
    <3>1. n \in Nat
      BY <1>1
    <3> QED BY <1>1, <2>7, <3>1, UncountedFields, SameAccounted
  <2> HIDE DEF v
  <2>9. Accounted(v)
    BY <1>2, <2>6, <2>7, <2>8 DEF Accounted
  <2> QED BY <1>3, <1>5, <2>9
<1> QED BY <1>4, <1>5

-----------------------------------------------------------------------------
(* The specification *)

LEMMA InitAccounted ==
  ASSUME Init
  PROVE  AccountingInv
<1>1. PICK m \in RootCompositions :
        tree = [x \in Path |-> IF x = Root
                               THEN Created(m, m.dIn, m.budget, FALSE)
                               ELSE NotOpened]
  BY DEF Init
<1>2. /\ m \in SequentialMeasurement /\ m.kind = "sequential"
      /\ m.dIn \in Dist /\ m.budget \in Budgets /\ m.dIn <= m.dIn
  <2>1. /\ m \in SequentialMeasurement /\ m.kind = "sequential"
        /\ m.dIn \in Dist /\ m.budget \in Budgets
    BY RootAssumption DEF SequentialMeasurement
  <2> QED BY <2>1, DistAssumption DEF Dist
<1>3. PartCharged(m, m.dIn, m.budget)
  BY <1>2, CompareReflexive DEF PartCharged
<1>4. \A f \in BOOLEAN : NodeAccounted(Created(m, m.dIn, m.budget, f))
  BY <1>2, <1>3, CreatedPartAccounted
<1>5. NodeAccounted(NotOpened)
  BY NotOpenedType
     DEF NodeAccounted, NodeCovered, NodeCharged, NodeBalanced
<1>6. \A x \in Path : tree[x] = Created(m, m.dIn, m.budget, FALSE)
                      \/ tree[x] = NotOpened
  BY <1>1
<1>7. \A x \in Path : NodeAccounted(tree[x])
  BY <1>4, <1>5, <1>6
<1> QED BY <1>7 DEF AccountingInv, Accounted

LEMMA AccountingStep ==
  ASSUME WrapperInv, AccountingInv, [Next]_vars
  PROVE  AccountingInv'
<1>1. WellRetired(tree) /\ Accounted(tree)
  BY DEF WrapperInv, AccountingInv
<1>2. CASE UNCHANGED vars
  BY <1>2 DEF vars, AccountingInv
<1>3. ASSUME NEW p \in Path, NEW m \in Measurements, NEW hint \in LossHints,
             MeasurementQuery(p, m, hint)
      PROVE  AccountingInv'
  <2>1. PICK cost \in Accepted(tree[p], m, hint), raises \in BOOLEAN :
          tree' = Measured(tree, p, m, cost, raises)
    BY <1>3 DEF MeasurementQuery
  <2>2. /\ tree[p].kind = "sequential"
        /\ Len(p) < MaxDepth /\ tree[p].next <= MaxFan
    BY <1>3 DEF MeasurementQuery, HasRoom
  <2>3. tree[p].next \in 1 .. MaxFan
    BY <1>1, <2>2, FanAssumption DEF WellRetired, Shaped, Node
  <2>4. Append(p, tree[p].next) \in Path
    BY <2>2, <2>3, AnswerInPath
  <2>5. Accounted(tree')
    BY <1>1, <2>1, <2>2, <2>4, MeasuredAccounted, MeasurementsAssumption,
       HintsAssumption
  <2> QED BY <2>5 DEF AccountingInv
<1>4. ASSUME NEW p \in Path, NEW t \in Transformations, NEW hint \in DistHints,
             TransformationQuery(p, t, hint)
      PROVE  AccountingInv'
  <2>1. tree' = Transformed(tree, p, t, hint) /\ tree[p].kind = "sequential"
    BY <1>4 DEF TransformationQuery
  <2>3. t \in Transformation /\ Monotone(t)
    BY TransformationsAssumption
  <2>2. Accounted(tree')
    BY <1>1, <2>1, <2>3, TransformedAccounted, HintsAssumption
  <2> QED BY <2>2 DEF AccountingInv
<1>5. ASSUME NEW p \in Path, IndexQuery(p)
      PROVE  AccountingInv'
  <2>1. PICK raises \in BOOLEAN : tree' = Indexed(tree, p, raises)
    BY <1>5 DEF IndexQuery
  <2>2. tree[p].kind = "parallel"
    BY <1>5 DEF IndexQuery
  <2>3. tree[p].next <= Len(tree[p].parts) => Append(p, tree[p].next) \in Path
    <3> HAVE tree[p].next <= Len(tree[p].parts)
    <3>1. Len(p) < MaxDepth /\ tree[p].next <= MaxFan
      BY <1>5 DEF IndexQuery, HasRoom
    <3>2. tree[p].next \in 1 .. MaxFan
      BY <1>1, <3>1, FanAssumption DEF WellRetired, Shaped, Node
    <3> QED BY <3>1, <3>2, AnswerInPath
  <2>4. Accounted(tree')
    BY <1>1, <2>1, <2>2, <2>3, IndexedAccounted
  <2> QED BY <2>4 DEF AccountingInv
<1>6. ASSUME NEW x \in Path, RetireQuery(x)
      PROVE  AccountingInv'
  <2>1. tree' = RetireWrapper(tree, x, Len(x)) /\ x # Root
    BY <1>6 DEF RetireQuery
  <2>2. Len(x) \in 1 .. Len(x)
    <3>1. Len(x) \in Nat
      BY PathType
    <3>2. Len(x) # 0
      <4> SUFFICES ASSUME Len(x) = 0 PROVE FALSE
        OBVIOUS
      <4>1. Below(Root, x)
        BY PathType DEF Below, Root
      <4> QED BY <2>1, <4>1, RootAboveAll
    <3> QED BY <3>1, <3>2
  <2>3. OnlyRetires(tree, tree')
    BY <1>1, <2>1, <2>2, RetireWrapperWellRetired
  <2>4. Accounted(tree')
    BY <1>1, <2>3, RetiresAccounted DEF WellRetired, Shaped
  <2> QED BY <2>4 DEF AccountingInv
<1> QED BY <1>2, <1>3, <1>4, <1>5, <1>6 DEF Next

(* The accounts of all queryables are right in every reachable state.      *)
THEOREM AccountingSafety == Spec => []AccountingInv
<1>1. Init => AccountingInv
  BY InitAccounted
<1>2. WrapperInv /\ AccountingInv /\ [Next]_vars => AccountingInv'
  BY AccountingStep
<1> QED BY <1>1, <1>2, WrapperSafety, PTL DEF Spec

(* The _d_in a SequentialQueryable computes with bounds the distance its   *)
(* data really have, unless a TransformationQuery tore the two apart.      *)
THEOREM SensitivitySafety == Spec => []SensitivityCovered
<1>1. AccountingInv => SensitivityCovered
  BY DEF AccountingInv, Accounted, NodeAccounted, NodeCovered,
         SensitivityCovered
<1> QED BY <1>1, AccountingSafety, PTL

(* What a queryable was charged for an answer covers all that can be got   *)
(* out of that answer.                                                     *)
THEOREM ChargeSafety == Spec => []ChargeCovers
<1>1. AccountingInv => ChargeCovers
  BY DEF AccountingInv, Accounted, NodeAccounted, NodeCharged, PartCharged,
         ChargeCovers
<1> QED BY <1>1, AccountingSafety, PTL

(* A finite _remaining_budget is what the charges have left of the budget. *)
THEOREM LedgerSafety == Spec => []LedgerBalanced
<1>1. AccountingInv => LedgerBalanced
  BY DEF AccountingInv, Accounted, NodeAccounted, NodeBalanced,
         LedgerBalanced
<1> QED BY <1>1, AccountingSafety, PTL

-----------------------------------------------------------------------------
(***************************************************************************)
(* The true loss of all that came out of a composition is within its       *)
(* privacy budget (LossWithinBudget), for trees of every depth and width.  *)
(*                                                                         *)
(* The argument.  What the answers of a composition were charged adds up   *)
(* to no more than what it spent, and the parts of a parallel queryable    *)
(* are paid for with the charge of the whole (PaidInv, an invariant).  A   *)
(* charge covers what its answer can lose (AccountingInv).  From the       *)
(* deepest queryables upwards, the true loss of each is therefore within   *)
(* its charge, and that of a composition within its budget.                *)
(***************************************************************************)

-----------------------------------------------------------------------------
(* Sums and largest values of losses *)

(* Losses add up beyond every budget: delta is not bounded by DeltaOne.    *)
Losses ==
  [eps : Amount, delta : IF OutputMeasure = "ApproxDP" THEN Nat ELSE {0}]

LEMMA LossTypes ==
  /\ NoLoss \in Losses /\ Budgets \subseteq Losses
  /\ \A kind : \A v, w \in Losses : Together(kind, v, w) \in Losses
BY DeltaAssumption
   DEF Losses, Budgets, NoLoss, Together, AddedLosses, Largest, Amount, Added, Larger

(* What the losses of answers come to is computed answer by answer.        *)
Composes(it, kind, D, f) ==
  /\ it \in [SUBSET D -> Losses]
  /\ it[{}] = NoLoss
  /\ \A s \in SUBSET D : s # {} =>
       /\ FoldedFirst(s) \in s
       /\ it[s] = Together(kind, f[FoldedFirst(s)], it[s \ {FoldedFirst(s)}])
  /\ it[D] = Composed(kind, f)

LEMMA ComposedFold ==
  ASSUME NEW kind, NEW D, IsFiniteSet(D), NEW f \in [D -> Losses]
  PROVE  \E it : Composes(it, kind, D, f)
<1> DEFINE op == [p \in D \X Losses |-> Together(kind, f[p[1]], p[2])]
           Def(it) == [s \in SUBSET D |->
                         IF s = {} THEN NoLoss
                         ELSE Together(kind, f[CHOOSE x \in s : TRUE],
                                   it[s \ {CHOOSE x \in s : TRUE}])]
           iter == CHOOSE it : it = Def(it)
<1>1. /\ NoLoss \in Losses
      /\ \A v, w \in Losses : Together(kind, v, w) \in Losses
  BY LossTypes
<1>2. \A s \in SUBSET D : s # {} => FoldedFirst(s) \in s
  BY DEF FoldedFirst
<1>3. op \in [D \X Losses -> Losses]
  <2> HIDE DEF op
  <2> QED BY <1>1 DEF op
<1>4. PICK g \in [SUBSET D -> Losses] :
        \A s \in SUBSET D : g[s] = FoldStep(op, NoLoss, g, s)
  <2> HIDE DEF op
  <2>1. \E g : IsFold(g, D, Losses, op, NoLoss)
    BY <1>1, <1>3, FoldExists
  <2> QED BY <2>1 DEF IsFold
<1>5. g = Def(g)
  <2>1. ASSUME NEW s \in SUBSET D, s # {}
        PROVE  g[s] = Together(kind, f[FoldedFirst(s)], g[s \ {FoldedFirst(s)}])
    BY <1>2, <1>4, <2>1 DEF FoldStep
  <2>2. g[{}] = NoLoss
    BY <1>4 DEF FoldStep
  <2> QED BY <2>1, <2>2 DEF FoldedFirst
<1>6. iter = Def(iter)
  <2> HIDE DEF Def
  <2> QED BY <1>5
<1>7. Composed(kind, f) = iter[D]
  BY DEF Composed, FoldFunction, FoldFunctionOnSet, MapThenFoldSet
<1> HIDE DEF iter
<1>8. /\ iter = [s \in SUBSET D |-> iter[s]]
      /\ iter[{}] = NoLoss
      /\ \A s \in SUBSET D : s # {} => iter[s] = Together(kind, f[FoldedFirst(s)], iter[s \ {FoldedFirst(s)}])
  BY <1>6 DEF FoldedFirst
<1>9. \A s \in SUBSET D : iter[s] \in Losses
  <2> DEFINE P == {s \in SUBSET D : iter[s] \in Losses}
  <2>1. {} \in P
    BY <1>1, <1>8
  <2>2. ASSUME NEW s \in SUBSET D, s # {}, s \ {FoldedFirst(s)} \in P
        PROVE  s \in P
    <3>1. f[FoldedFirst(s)] \in Losses /\ iter[s \ {FoldedFirst(s)}] \in Losses
      BY <1>2, <2>2
    <3>2. iter[s] = Together(kind, f[FoldedFirst(s)], iter[s \ {FoldedFirst(s)}])
      BY <1>8, <2>2
    <3> QED BY <1>1, <3>1, <3>2
  <2> HIDE DEF P
  <2>3. SUBSET D \subseteq P
    BY <2>1, <2>2, FoldInduction
  <2> QED BY <2>3 DEF P
<1>10. iter \in [SUBSET D -> Losses]
  BY <1>8, <1>9
<1> QED BY <1>2, <1>7, <1>8, <1>10 DEF Composes

LEMMA ComposedType ==
  ASSUME NEW kind, NEW D, IsFiniteSet(D), NEW f \in [D -> Losses]
  PROVE  Composed(kind, f) \in Losses
<1>1. PICK it : Composes(it, kind, D, f)
  BY ComposedFold
<1>2. D \in SUBSET D
  OBVIOUS
<1> QED BY <1>1, <1>2 DEF Composes

(* v is at most w in each component.                                       *)
Within(v, w) == AmountAtMost(v.eps, w.eps) /\ v.delta <= w.delta

LEMMA PlusWithin ==
  ASSUME NEW a \in Losses, NEW b \in Losses, NEW c \in Losses, NEW d \in Losses,
         Within(a, b), Within(c, d)
  PROVE  Within(AddedLosses(a, c), AddedLosses(b, d))
BY InfiniteAssumption DEF Losses, Amount, Within, AmountAtMost, AddedLosses, Added

LEMMA PlusLaws ==
  ASSUME NEW a \in Losses, NEW b \in Losses, NEW c \in Losses
  PROVE  /\ AddedLosses(NoLoss, a) = a /\ AddedLosses(a, NoLoss) = a
         /\ AddedLosses(a, b) = AddedLosses(b, a)
         /\ AddedLosses(a, AddedLosses(b, c)) = AddedLosses(AddedLosses(a, b), c)
BY InfiniteAssumption DEF Losses, Amount, AddedLosses, Added, NoLoss

LEMMA SumMonotone ==
  ASSUME NEW D, IsFiniteSet(D), NEW f \in [D -> Losses], NEW g \in [D -> Losses],
         \A i \in D : Within(f[i], g[i])
  PROVE  Within(Composed("sequential", f), Composed("sequential", g))
<1>1. PICK a : Composes(a, "sequential", D, f)
  BY ComposedFold
<1>2. PICK b : Composes(b, "sequential", D, g)
  BY ComposedFold
<1> DEFINE P == {s \in SUBSET D : Within(a[s], b[s])}
<1>3. {} \in P
  BY <1>1, <1>2 DEF Composes, Within, AmountAtMost, NoLoss
<1>4. ASSUME NEW s \in SUBSET D, s # {}, s \ {FoldedFirst(s)} \in P
      PROVE  s \in P
  <2>1. /\ FoldedFirst(s) \in D /\ s \ {FoldedFirst(s)} \in SUBSET D
        /\ a[s] = AddedLosses(f[FoldedFirst(s)], a[s \ {FoldedFirst(s)}])
        /\ b[s] = AddedLosses(g[FoldedFirst(s)], b[s \ {FoldedFirst(s)}])
        /\ a[s \ {FoldedFirst(s)}] \in Losses /\ b[s \ {FoldedFirst(s)}] \in Losses
    BY <1>1, <1>2, <1>4 DEF Composes, Together
  <2>2. /\ Within(a[s \ {FoldedFirst(s)}], b[s \ {FoldedFirst(s)}])
        /\ Within(f[FoldedFirst(s)], g[FoldedFirst(s)])
    BY <1>4, <2>1
  <2>3. f[FoldedFirst(s)] \in Losses /\ g[FoldedFirst(s)] \in Losses
    BY <2>1
  <2>4. Within(a[s], b[s])
    BY <2>1, <2>2, <2>3, PlusWithin
  <2> QED BY <2>4
<1> HIDE DEF P
<1>5. D \in P
  BY <1>3, <1>4, FoldInduction
<1> QED BY <1>1, <1>2, <1>5 DEF P, Composes

(* One more answer adds its loss.                                          *)
LEMMA SumAdds ==
  ASSUME NEW D, IsFiniteSet(D), NEW f \in [D -> Losses], NEW n \in D,
         f[n] = NoLoss, NEW c \in Losses
  PROVE  Composed("sequential", [f EXCEPT ![n] = c])
           = AddedLosses(Composed("sequential", f), c)
<1> DEFINE g == [f EXCEPT ![n] = c]
<1>1. PICK a : Composes(a, "sequential", D, f)
  BY ComposedFold
<1>2. g \in [D -> Losses] /\ g[n] = c /\ \A i \in D : i # n => g[i] = f[i]
  OBVIOUS
<1> HIDE DEF g
<1>3. PICK b : Composes(b, "sequential", D, g)
  BY <1>2, ComposedFold
<1> DEFINE P == {s \in SUBSET D :
                   b[s] = IF n \in s THEN AddedLosses(a[s], c) ELSE a[s]}
<1>4. {} \in P
  BY <1>1, <1>3 DEF Composes
<1>5. ASSUME NEW s \in SUBSET D, s # {}, s \ {FoldedFirst(s)} \in P
      PROVE  s \in P
  <2> DEFINE x == FoldedFirst(s)
             r == s \ {x}
  <2>1. /\ x \in s /\ x \in D /\ r \in SUBSET D
        /\ a[s] = AddedLosses(f[x], a[r]) /\ b[s] = AddedLosses(g[x], b[r])
        /\ a[r] \in Losses
    BY <1>1, <1>3, <1>5 DEF Composes, Together
  <2>2. f[x] \in Losses
    BY <2>1
  <2>3. b[r] = IF n \in r THEN AddedLosses(a[r], c) ELSE a[r]
    BY <1>5
  <2>4. CASE x = n
    <3>1. n \in s /\ n \notin r
      BY <2>1, <2>4
    <3> HIDE DEF r
    <3>2. b[s] = AddedLosses(c, a[r]) /\ a[s] = a[r]
      BY <1>2, <2>1, <2>3, <2>4, <3>1, PlusLaws
    <3>3. b[s] = AddedLosses(a[s], c)
      BY <2>1, <3>2, PlusLaws
    <3> QED BY <3>1, <3>3
  <2>5. CASE x # n /\ n \in s
    <3>1. n \in r /\ g[x] = f[x]
      BY <1>2, <2>1, <2>5
    <3> HIDE DEF r, x
    <3>2. b[s] = AddedLosses(f[x], AddedLosses(a[r], c))
      BY <2>1, <2>3, <3>1
    <3>3. b[s] = AddedLosses(a[s], c)
      BY <2>1, <2>2, <3>2, PlusLaws
    <3> QED BY <2>5, <3>3
  <2>6. CASE n \notin s
    <3>1. n \notin r /\ g[x] = f[x]
      BY <1>2, <2>1, <2>6
    <3> HIDE DEF r, x
    <3> QED BY <2>1, <2>3, <2>6, <3>1
  <2> QED BY <2>4, <2>5, <2>6
<1> HIDE DEF P
<1>6. D \in P
  BY <1>4, <1>5, FoldInduction
<1>7. b[D] = AddedLosses(a[D], c)
  BY <1>6 DEF P
<1> QED BY <1>1, <1>3, <1>7 DEF Composes, g

(* Answers that lose nothing come to nothing.                              *)
LEMMA ZerosCompose ==
  ASSUME NEW kind, NEW D, IsFiniteSet(D)
  PROVE  Composed(kind, [i \in D |-> NoLoss]) = NoLoss
<1> DEFINE f == [i \in D |-> NoLoss]
<1>1. f \in [D -> Losses] /\ \A i \in D : f[i] = NoLoss
  BY LossTypes
<1> HIDE DEF f
<1>2. PICK a : Composes(a, kind, D, f)
  BY <1>1, ComposedFold
<1> DEFINE P == {s \in SUBSET D : a[s] = NoLoss}
<1>3. {} \in P
  BY <1>2 DEF Composes
<1>4. Together(kind, NoLoss, NoLoss) = NoLoss
  BY InfiniteAssumption
     DEF Together, AddedLosses, Added, Largest, Larger, AmountAtMost, NoLoss
<1>5. ASSUME NEW s \in SUBSET D, s # {}, s \ {FoldedFirst(s)} \in P
      PROVE  s \in P
  BY <1>1, <1>2, <1>4, <1>5 DEF Composes
<1> HIDE DEF P
<1>6. D \in P
  BY <1>3, <1>5, FoldInduction
<1> QED BY <1>2, <1>6 DEF P, Composes, f

(* The largest of losses within b is within b.                             *)
LEMMA LargestWithin ==
  ASSUME NEW D, IsFiniteSet(D), NEW f \in [D -> Losses], NEW b \in Losses,
         \A i \in D : Within(f[i], b)
  PROVE  Within(Composed("parallel", f), b)
<1>1. PICK a : Composes(a, "parallel", D, f)
  BY ComposedFold
<1> DEFINE P == {s \in SUBSET D : Within(a[s], b)}
<1>2. {} \in P
  BY <1>1, InfiniteAssumption
     DEF Composes, Within, AmountAtMost, NoLoss, Losses, Amount
<1>3. ASSUME NEW v \in Losses, NEW w \in Losses, Within(v, b), Within(w, b)
      PROVE  Within(Largest(v, w), b)
  BY <1>3 DEF Within, Largest, Larger
<1>4. ASSUME NEW s \in SUBSET D, s # {}, s \ {FoldedFirst(s)} \in P
      PROVE  s \in P
  <2>1. /\ FoldedFirst(s) \in D /\ s \ {FoldedFirst(s)} \in SUBSET D
        /\ a[s] = Largest(f[FoldedFirst(s)], a[s \ {FoldedFirst(s)}])
        /\ a[s \ {FoldedFirst(s)}] \in Losses
    BY <1>1, <1>4 DEF Composes, Together
  <2>2. Within(a[s \ {FoldedFirst(s)}], b) /\ Within(f[FoldedFirst(s)], b)
    BY <1>4, <2>1
  <2>3. f[FoldedFirst(s)] \in Losses
    BY <2>1
  <2>4. Within(a[s], b)
    BY <1>3, <2>1, <2>2, <2>3
  <2> QED BY <2>4
<1> HIDE DEF P
<1>5. D \in P
  BY <1>2, <1>4, FoldInduction
<1> QED BY <1>1, <1>5 DEF P, Composes

-----------------------------------------------------------------------------
(* The true loss of a queryable *)

(* What the answers of x lose, when g says what each queryable loses.      *)
AnswerLosses(g, x) ==
  [i \in 1 .. MaxFan |-> IF Len(x) < MaxDepth THEN g[Append(x, i)] ELSE NoLoss]

LossOf(g, x) ==
  CASE tree[x].kind = "none" -> NoLoss
    [] tree[x].kind = "answer" -> tree[x].loss
    [] OTHER -> Composed(tree[x].kind, AnswerLosses(g, x))

IsTrueLoss(g) ==
  /\ g \in [Path -> Losses]
  /\ \A x \in Path : g[x] = LossOf(g, x)

LEMMA AnswerLossesType ==
  ASSUME NEW g \in [Path -> Losses], NEW x \in Path
  PROVE  AnswerLosses(g, x) \in [1 .. MaxFan -> Losses]
BY LossTypes, AnswerInPath DEF AnswerLosses

LEMMA LossOfType ==
  ASSUME TypeOK, NEW g \in [Path -> Losses], NEW x \in Path
  PROVE  LossOf(g, x) \in Losses
<1>1. tree[x].loss \in Losses
  BY LossTypes DEF TypeOK, Node
<1>2. Composed(tree[x].kind, AnswerLosses(g, x)) \in Losses
  BY AnswerLossesType, ComposedType, FS_Interval, FanAssumption
<1> QED BY <1>1, <1>2, LossTypes DEF LossOf

(* The true loss is defined, from the deepest queryables upwards.          *)
LEMMA TrueLossDefined ==
  ASSUME TypeOK
  PROVE  IsTrueLoss(TrueLoss)
<1> DEFINE N == {n \in Nat : \E g \in [Path -> Losses] :
                   \A x \in Path : MaxDepth < Len(x) + n => g[x] = LossOf(g, x)}
<1>1. \A x \in Path : Len(x) \in Nat /\ Len(x) <= MaxDepth
  BY PathType, DepthAssumption
<1>2. 0 \in N
  <2> DEFINE g == [x \in Path |-> NoLoss]
  <2>1. g \in [Path -> Losses]
    BY LossTypes
  <2> HIDE DEF g
  <2> QED BY <1>1, <2>1, DepthAssumption
<1>3. ASSUME NEW n \in Nat, n \in N
      PROVE  n + 1 \in N
  <2>1. PICK g \in [Path -> Losses] :
          \A x \in Path : MaxDepth < Len(x) + n => g[x] = LossOf(g, x)
    BY <1>3
  <2> DEFINE next == [x \in Path |-> LossOf(g, x)]
  <2>2. next \in [Path -> Losses]
    BY LossOfType
  <2>3. \A x \in Path : next[x] = LossOf(g, x)
    OBVIOUS
  <2> HIDE DEF next
  <2>4. ASSUME NEW x \in Path, MaxDepth < Len(x) + (n + 1)
        PROVE  next[x] = LossOf(next, x)
    <3>1. ASSUME NEW i \in 1 .. MaxFan, Len(x) < MaxDepth
          PROVE  next[Append(x, i)] = g[Append(x, i)]
      <4>1. Append(x, i) \in Path
        BY <3>1, AnswerInPath
      <4>2. MaxDepth < Len(Append(x, i)) + n
        BY <1>1, <2>4, <4>1, AppendPath, DepthAssumption
      <4> QED BY <2>1, <2>3, <4>1, <4>2
    <3>2. AnswerLosses(next, x) = AnswerLosses(g, x)
      BY <3>1 DEF AnswerLosses
    <3> QED BY <2>3, <3>2 DEF LossOf
  <2> QED BY <2>2, <2>4
<1>4. MaxDepth + 1 \in N
  <2> HIDE DEF N
  <2>1. Nat \subseteq N
    BY <1>2, <1>3, Induction
  <2> QED BY <2>1, DepthAssumption
<1>5. PICK g \in [Path -> Losses] : \A x \in Path : g[x] = LossOf(g, x)
  BY <1>1, <1>4, DepthAssumption
<1> DEFINE Def(f) == [x \in Path |-> LossOf(f, x)]
           loss == CHOOSE f : f = Def(f)
<1>6. g = Def(g)
  BY <1>5
<1>7. loss = Def(loss)
  <2> HIDE DEF Def
  <2> QED BY <1>6
<1>8. TrueLoss = loss
  BY DEF TrueLoss, LossOf, AnswerLosses
<1> HIDE DEF loss
<1>9. loss = [x \in Path |-> loss[x]] /\ \A x \in Path : loss[x] = LossOf(loss, x)
  BY <1>7
<1> DEFINE M == {n \in Nat : \A x \in Path : MaxDepth < Len(x) + n => loss[x] = g[x]}
<1>10. 0 \in M
  BY <1>1, DepthAssumption
<1>11. ASSUME NEW n \in Nat, n \in M
       PROVE  n + 1 \in M
  <2> SUFFICES ASSUME NEW x \in Path, MaxDepth < Len(x) + (n + 1)
               PROVE  loss[x] = g[x]
    OBVIOUS
  <2>1. ASSUME NEW i \in 1 .. MaxFan, Len(x) < MaxDepth
        PROVE  loss[Append(x, i)] = g[Append(x, i)]
    <3>1. Append(x, i) \in Path
      BY <2>1, AnswerInPath
    <3>2. MaxDepth < Len(Append(x, i)) + n
      BY <1>1, <3>1, AppendPath, DepthAssumption
    <3> QED BY <1>11, <3>1, <3>2
  <2>2. AnswerLosses(loss, x) = AnswerLosses(g, x)
    BY <2>1 DEF AnswerLosses
  <2> QED BY <1>5, <1>9, <2>2 DEF LossOf
<1>12. MaxDepth + 1 \in M
  <2> HIDE DEF M
  <2>1. Nat \subseteq M
    BY <1>10, <1>11, Induction
  <2> QED BY <2>1, DepthAssumption
<1>13. \A x \in Path : loss[x] = g[x]
  BY <1>1, <1>12, DepthAssumption
<1>14. loss \in [Path -> Losses]
  BY <1>9, <1>13
<1> QED BY <1>8, <1>9, <1>14 DEF IsTrueLoss

-----------------------------------------------------------------------------
(* What was charged for answers was spent *)

(* The n-th answer of x was handed out in the tree tr.                     *)
Given(tr, x, n) == Append(x, n) \in Path /\ IsOpen(tr, Append(x, n))

Charged(tr, x) ==
  [n \in 1 .. MaxFan |-> IF Given(tr, x, n) THEN tr[Append(x, n)].charge ELSE NoLoss]

(* What a composition with a finite budget was charged for its answers it  *)
(* has spent; what fails after it was charged is spent too.                *)
ChargesSpent(tr, x) ==
  tr[x].kind = "sequential" /\ IsFinite(tr[x].total) =>
    Within(Composed("sequential", Charged(tr, x)), tr[x].spent)

(* The parts of a parallel queryable are paid for with its own charge.     *)
PartsPaid(tr, x) ==
  tr[x].kind = "parallel" =>
    \A n \in 1 .. MaxFan :
      Given(tr, x, n) => tr[Append(x, n)].charge = tr[x].charge

Paid(tr) == \A x \in Path : ChargesSpent(tr, x) /\ PartsPaid(tr, x)

PaidInv == Paid(tree)

LEMMA ChargedType ==
  ASSUME NEW tr \in [Path -> Node], NEW x \in Path
  PROVE  Charged(tr, x) \in [1 .. MaxFan -> Losses]
<1>1. \A y \in Path : tr[y].charge \in Losses
  BY LossTypes DEF Node
<1> QED BY <1>1, LossTypes DEF Charged, Given

LEMMA ChargedComposed ==
  ASSUME NEW tr \in [Path -> Node], NEW x \in Path
  PROVE  Composed("sequential", Charged(tr, x)) \in Losses
<1> DEFINE f == Charged(tr, x)
<1>1. f \in [1 .. MaxFan -> Losses] /\ IsFiniteSet(1 .. MaxFan)
  BY ChargedType, FS_Interval, FanAssumption
<1> HIDE DEF f
<1>2. Composed("sequential", f) \in Losses
  BY <1>1, ComposedType
<1> QED BY <1>2 DEF f

LEMMA WithinLaws ==
  ASSUME NEW a \in [eps : Amount, delta : Nat],
         NEW b \in [eps : Amount, delta : Nat],
         NEW c \in [eps : Amount, delta : Nat]
  PROVE  /\ Within(a, a)
         /\ Within(a, b) /\ Within(b, c) => Within(a, c)
         /\ Within(NoLoss, a)
         /\ Within(a, AddedLosses(a, b))
         /\ Within(a, b) => Within(AddedLosses(a, c), AddedLosses(b, c))
BY InfiniteAssumption DEF Amount, Within, AmountAtMost, AddedLosses, Added, NoLoss

LEMMA LossesPlain == Losses \subseteq [eps : Amount, delta : Nat]
BY DEF Losses

(* u has the queryables of tr, which may have spent more.                  *)
SpendsMore(tr, u, x) ==
  /\ u[x].kind = tr[x].kind /\ u[x].total = tr[x].total
  /\ u[x].charge = tr[x].charge
  /\ Within(tr[x].spent, u[x].spent)

LEMMA SpendingPaid ==
  ASSUME NEW tr \in [Path -> Node], NEW u \in [Path -> Node], Paid(tr),
         \A x \in Path : SpendsMore(tr, u, x)
  PROVE  Paid(u)
<1> SUFFICES ASSUME NEW x \in Path
             PROVE  ChargesSpent(u, x) /\ PartsPaid(u, x)
  BY DEF Paid
<1>1. \A n \in 1 .. MaxFan : Given(u, x, n) <=> Given(tr, x, n)
  BY DEF Given, IsOpen, SpendsMore
<1>2. Charged(u, x) = Charged(tr, x)
  BY <1>1 DEF Charged, Given, SpendsMore
<1>3. /\ Composed("sequential", Charged(tr, x)) \in [eps : Amount, delta : Nat]
      /\ tr[x].spent \in [eps : Amount, delta : Nat]
      /\ u[x].spent \in [eps : Amount, delta : Nat]
  BY ChargedComposed, LossesPlain DEF Node
<1>4. ChargesSpent(u, x)
  BY <1>2, <1>3, WithinLaws DEF Paid, ChargesSpent, SpendsMore
<1>5. PartsPaid(u, x)
  BY <1>1 DEF Paid, PartsPaid, Given, SpendsMore
<1> QED BY <1>4, <1>5

(* The name of an answer tells whose answer it is.                         *)
LEMMA AnswerOfOne ==
  ASSUME NEW x \in Path, NEW i, Append(x, i) \in Path,
         NEW p \in Path, NEW n, Append(x, i) = Append(p, n)
  PROVE  x = p /\ i = n
<1>1. Append(p, n) \in Path /\ Len(x) \in Nat /\ Len(p) \in Nat
  BY PathType
<1>2. Len(x) = Len(p)
  BY <1>1, AppendPath
<1>3. i = n
  BY <1>1, <1>2, AppendPath
<1>4. \A j \in 1 .. Len(p) : x[j] = p[j]
  BY <1>1, <1>2, AppendPath
<1>5. Below(x, p) /\ Below(p, x)
  BY <1>1, <1>2, <1>4 DEF Below
<1> QED BY <1>3, <1>5, BelowAntisymmetric

(* A new answer is paid for by what its queryable spends on it, or with    *)
(* the charge of the parallel queryable it is a part of.                   *)
LEMMA HandingOutPaid ==
  ASSUME NEW tr, WellRetired(tr), Paid(tr),
         NEW p \in Path, NEW n, n = tr[p].next,
         NEW c \in Path, c = Append(p, n),
         NEW v \in [Path -> Node], v[c].kind # "none",
         \A x \in Path \ {p, c} : SpendsMore(tr, v, x),
         /\ v[p].kind = tr[p].kind /\ v[p].total = tr[p].total
         /\ v[p].charge = tr[p].charge,
         tr[p].kind = "sequential" /\ IsFinite(tr[p].total) =>
           Within(AddedLosses(tr[p].spent, v[c].charge), v[p].spent),
         tr[p].kind = "parallel" => v[c].charge = tr[p].charge
  PROVE  Paid(v)
<1>1. /\ tr \in [Path -> Node] /\ n \in 1 .. MaxFan /\ n \in Nat
      /\ ~ Given(tr, p, n) /\ ~ IsOpen(tr, c)
  <2>1. tr \in [Path -> Node] /\ n \in 1 .. MaxFan
    BY AppendPath DEF WellRetired, Shaped
  <2>2. ~ (n < n)
    BY <2>1
  <2> QED BY <2>1, <2>2 DEF WellRetired, OpenedInOrder, Given
<1>2. c # p
  BY BelowAnswer, BelowReflexive DEF StrictlyBelow
<1>3. ASSUME NEW x \in Path, NEW i \in 1 .. MaxFan, x # p \/ i # n
      PROVE  /\ Given(v, x, i) <=> Given(tr, x, i)
             /\ Given(v, x, i) => v[Append(x, i)].charge = tr[Append(x, i)].charge
  <2> SUFFICES ASSUME Append(x, i) \in Path
               PROVE  /\ v[Append(x, i)].kind = tr[Append(x, i)].kind
                      /\ v[Append(x, i)].charge = tr[Append(x, i)].charge
    BY DEF Given, IsOpen
  <2>1. Append(x, i) # c
    BY <1>3, AnswerOfOne
  <2> QED BY <2>1 DEF SpendsMore
<1>4. \A x \in Path : Charged(v, x) \in [1 .. MaxFan -> Losses]
                      /\ Charged(tr, x) \in [1 .. MaxFan -> Losses]
  BY <1>1, ChargedType
<1>5. \A x \in Path :
        Composed("sequential", Charged(tr, x)) \in [eps : Amount, delta : Nat]
  BY <1>1, ChargedComposed, LossesPlain
<1>6. \A x \in Path : /\ tr[x].spent \in [eps : Amount, delta : Nat]
                      /\ v[x].spent \in [eps : Amount, delta : Nat]
                      /\ v[x].charge \in Losses
  BY <1>1, LossTypes DEF Node
<1>7. ASSUME NEW x \in Path, x \notin {p, c}
      PROVE  ChargesSpent(v, x) /\ PartsPaid(v, x)
  <2>1. Charged(v, x) = Charged(tr, x)
    BY <1>3, <1>7 DEF Charged
  <2>2. SpendsMore(tr, v, x) /\ ChargesSpent(tr, x) /\ PartsPaid(tr, x)
    BY <1>7 DEF Paid
  <2>3. ChargesSpent(v, x)
    BY <1>5, <1>6, <2>1, <2>2, WithinLaws DEF ChargesSpent, SpendsMore
  <2>4. PartsPaid(v, x)
    BY <1>3, <1>7, <2>2 DEF PartsPaid, SpendsMore
  <2> QED BY <2>3, <2>4
<1>8. ChargesSpent(v, c) /\ PartsPaid(v, c)
  <2>1. ASSUME NEW i \in 1 .. MaxFan
        PROVE  ~ Given(v, c, i)
    <3>1. SUFFICES ASSUME Given(tr, c, i) PROVE FALSE
      BY <1>2, <1>3
    <3>2. Append(c, i) \in Path /\ IsOpen(tr, Append(c, i))
      BY <3>1 DEF Given
    <3>3. Below(Append(c, i), c)
      BY <3>2, BelowAnswer, BelowReflexive DEF StrictlyBelow
    <3> QED BY <1>1, <3>2, <3>3 DEF WellRetired, OpenedFromOpen
  <2>2. Charged(v, c) = [i \in 1 .. MaxFan |-> NoLoss]
    BY <2>1 DEF Charged
  <2>3. Composed("sequential", Charged(v, c)) = NoLoss
    BY <2>2, ZerosCompose, FS_Interval, FanAssumption
  <2> QED BY <1>6, <2>1, <2>3, WithinLaws DEF ChargesSpent, PartsPaid
<1>9. ChargesSpent(v, p)
  <2> SUFFICES ASSUME tr[p].kind = "sequential", IsFinite(tr[p].total)
               PROVE  Within(Composed("sequential", Charged(v, p)), v[p].spent)
    BY DEF ChargesSpent
  <2>1. Charged(v, p) = [Charged(tr, p) EXCEPT ![n] = v[c].charge]
    <3>1. ASSUME NEW i \in 1 .. MaxFan
          PROVE  Charged(v, p)[i] = IF i = n THEN v[c].charge
                                    ELSE Charged(tr, p)[i]
      BY <1>3 DEF Charged, Given, IsOpen
    <3> QED BY <1>4, <3>1
  <2>2. Charged(tr, p)[n] = NoLoss
    BY <1>1 DEF Charged
  <2>3. Composed("sequential", Charged(v, p))
          = AddedLosses(Composed("sequential", Charged(tr, p)), v[c].charge)
    <3> DEFINE f == Charged(tr, p)
               a == v[c].charge
    <3>1. /\ IsFiniteSet(1 .. MaxFan) /\ a \in Losses
          /\ f \in [1 .. MaxFan -> Losses] /\ f[n] = NoLoss
      <4>1. IsFiniteSet(1 .. MaxFan)
        BY FS_Interval, FanAssumption
      <4>2. a \in Losses
        BY <1>6
      <4>3. f \in [1 .. MaxFan -> Losses]
        BY <1>4
      <4> QED BY <2>2, <4>1, <4>2, <4>3
    <3> HIDE DEF f, a
    <3>2. Composed("sequential", [f EXCEPT ![n] = a])
            = AddedLosses(Composed("sequential", f), a)
      BY <1>1, <3>1, SumAdds
    <3> QED BY <2>1, <3>2 DEF f, a
  <2>4. Within(Composed("sequential", Charged(tr, p)), tr[p].spent)
    BY DEF Paid, ChargesSpent
  <2>5. v[c].charge \in [eps : Amount, delta : Nat]
    BY <1>6, LossesPlain
  <2>6. Within(AddedLosses(Composed("sequential", Charged(tr, p)), v[c].charge),
               AddedLosses(tr[p].spent, v[c].charge))
    BY <1>5, <1>6, <2>4, <2>5, WithinLaws
  <2>7. /\ AddedLosses(Composed("sequential", Charged(tr, p)), v[c].charge)
             \in [eps : Amount, delta : Nat]
        /\ AddedLosses(tr[p].spent, v[c].charge) \in [eps : Amount, delta : Nat]
    <3>1. \A a, b \in [eps : Amount, delta : Nat] :
            AddedLosses(a, b) \in [eps : Amount, delta : Nat]
      BY DEF AddedLosses, Added, Amount
    <3> QED BY <1>5, <1>6, <2>5, <3>1
  <2> QED BY <1>6, <2>3, <2>6, <2>7, WithinLaws
<1>10. PartsPaid(v, p)
  BY <1>3 DEF Paid, PartsPaid
<1> QED BY <1>7, <1>8, <1>9, <1>10 DEF Paid

-----------------------------------------------------------------------------
(* The queries *)

LEMMA RetiresPaid ==
  ASSUME NEW tr \in [Path -> Node], Paid(tr),
         NEW u \in [Path -> Node], OnlyRetires(tr, u)
  PROVE  Paid(u) /\ \A x \in Path : SpendsMore(tr, u, x)
<1>1. ASSUME NEW x \in Path
      PROVE  SpendsMore(tr, u, x)
  <2>1. tr[x] \in Node /\ u[x].retired \in SUBSET (1 .. MaxDepth)
    BY DEF Node
  <2>2. u[x] = [tr[x] EXCEPT !.retired = u[x].retired]
    BY DEF OnlyRetires
  <2>3. SameAccount(tr[x], u[x])
    BY <2>1, <2>2, UncountedFields
  <2>4. tr[x].spent \in [eps : Amount, delta : Nat]
    BY DEF Node
  <2> QED BY <2>3, <2>4, WithinLaws DEF SameAccount, SpendsMore
<1> QED BY <1>1, SpendingPaid

LEMMA MeasuredPaid ==
  ASSUME NEW tr, WellRetired(tr), Accounted(tr), Paid(tr),
         NEW p \in Path, tr[p].kind = "sequential", Append(p, tr[p].next) \in Path,
         NEW m, WellMade(m), NEW hint \in Budgets \union {None},
         NEW cost \in Accepted(tr[p], m, hint), NEW raises \in BOOLEAN
  PROVE  Paid(Measured(tr, p, m, cost, raises))
<1> DEFINE u == RetireCurrent(tr, p)
           n == tr[p].next
           c == Append(p, n)
           spent == IF IsFinite(tr[p].remaining)
                    THEN AddedLosses(tr[p].spent, cost) ELSE tr[p].spent
           remaining == Subtract(tr[p].remaining, cost)
           nd == [tr[p] EXCEPT !.current = 0, !.remaining = remaining,
                               !.spent = spent]
           charged == [u EXCEPT ![p] = nd]
           new == Created(m, tr[p].sens, cost, tr[p].torn)
           v == [charged EXCEPT ![p].next = n + 1, ![p].current = n, ![c] = new]
<1>1. /\ tr \in [Path -> Node] /\ tr[p] \in Node
      /\ m \in Measurement /\ n \in Nat \ {0}
      /\ cost \in Budgets /\ CanSpend(tr[p].remaining, cost)
  <2>1. tr \in [Path -> Node] /\ tr[p] \in Node /\ m \in Measurement
    BY DEF WellRetired, Shaped, WellMade
  <2>2. tr[p].dIn \in Dist /\ n \in Nat \ {0}
    BY <2>1 DEF Node
  <2> QED BY <2>1, <2>2, AcceptedType
<1>2. /\ u \in [Path -> Node] /\ u[p] = tr[p]
      /\ \A x \in Path : SpendsMore(tr, u, x)
  <2>1. u \in [Path -> Node] /\ u[p] = tr[p] /\ OnlyRetires(tr, u)
    BY RetireCurrentEffect DEF StrictlyBelow, WellRetired, Shaped
  <2> HIDE DEF u
  <2> QED BY <1>1, <2>1, RetiresPaid
<1>3. /\ spent \in [eps : Amount, delta : Nat]
      /\ Within(tr[p].spent, spent)
      /\ IsFinite(tr[p].total) => spent = AddedLosses(tr[p].spent, cost)
  <2>1. /\ tr[p].spent \in [eps : Amount, delta : Nat]
        /\ tr[p].remaining \in Budgets
        /\ cost \in [eps : Amount, delta : Nat]
        /\ AddedLosses(tr[p].spent, cost) \in [eps : Amount, delta : Nat]
    BY <1>1, PlusType, LossTypes, LossesPlain DEF Node
  <2>2. Within(tr[p].spent, spent)
    BY <2>1, WithinLaws
  <2>3. ASSUME IsFinite(tr[p].total)
        PROVE  IsFinite(tr[p].remaining)
    <3>1. AddedLosses(tr[p].spent, tr[p].remaining) = tr[p].total
      BY <2>3 DEF Accounted, NodeAccounted, NodeBalanced
    <3> QED BY <1>1, <2>1, <2>3, <3>1, ChargeMoves
  <2> QED BY <2>1, <2>2, <2>3
<1>4. /\ nd \in Node /\ nd.kind = "sequential" /\ nd.total = tr[p].total
      /\ nd.charge = tr[p].charge /\ nd.spent = spent
  <2>1. remaining \in Budgets
    BY <1>1, SubtractType DEF Node
  <2> HIDE DEF remaining, spent
  <2> QED BY <1>1, <1>3, <2>1 DEF Node
<1>5. /\ c \in Path /\ p # c
      /\ new \in Node /\ new.kind # "none" /\ new.charge = cost
  <2>1. tr[p].sens \in Dist /\ tr[p].torn \in BOOLEAN
    BY <1>1 DEF Node
  <2> QED BY <1>1, <2>1, CreatedType, BelowAnswer, BelowReflexive
          DEF StrictlyBelow
<1>6. Measured(tr, p, m, cost, raises) = IF raises THEN charged ELSE v
  BY <1>2 DEF Measured
<1> HIDE DEF u, nd, new, spent
<1>7. /\ charged \in [Path -> Node] /\ charged[p] = nd
      /\ \A x \in Path \ {p} : charged[x] = u[x]
  BY <1>2, <1>4
<1>8. Paid(charged)
  <2>1. \A x \in Path : SpendsMore(tr, charged, x)
    BY <1>2, <1>3, <1>4, <1>7 DEF SpendsMore
  <2> HIDE DEF charged
  <2> QED BY <1>1, <1>7, <2>1, SpendingPaid
<1>9. Paid(v)
  <2>1. /\ v \in [Path -> Node] /\ v[c] = new
        /\ v[p] = [nd EXCEPT !.next = n + 1, !.current = n]
        /\ \A x \in Path \ {p, c} : v[x] = u[x]
    <3>1. [nd EXCEPT !.next = n + 1, !.current = n] \in Node
      <4>1. n + 1 \in Nat \ {0} /\ n \in Nat
        BY <1>1
      <4> HIDE DEF n
      <4> QED BY <1>4, <4>1 DEF Node
    <3> QED BY <1>4, <1>5, <1>7, <3>1
  <2>2. /\ v[p].kind = "sequential" /\ v[p].total = tr[p].total
        /\ v[p].charge = tr[p].charge /\ v[p].spent = spent
    <3> HIDE DEF v, n
    <3> QED BY <1>4, <2>1 DEF Node
  <2>3. \A x \in Path \ {p, c} : SpendsMore(tr, v, x)
    BY <1>2, <2>1 DEF SpendsMore
  <2>4. IsFinite(tr[p].total) => Within(AddedLosses(tr[p].spent, v[c].charge), v[p].spent)
    BY <1>3, <1>5, <2>1, <2>2, WithinLaws
  <2> HIDE DEF v, n, c
  <2> QED BY <1>5, <2>1, <2>2, <2>3, <2>4, HandingOutPaid DEF n, c
<1> QED BY <1>6, <1>8, <1>9

LEMMA TransformedPaid ==
  ASSUME NEW tr, WellRetired(tr), Paid(tr),
         NEW p \in Path, tr[p].kind = "sequential",
         NEW t \in Transformation, Monotone(t), NEW hint \in Dist \union {None},
         Transformed(tr, p, t, hint) \in [Path -> Node]
  PROVE  Paid(Transformed(tr, p, t, hint))
<1> DEFINE v == Transformed(tr, p, t, hint)
           known == Stabilities(tr[p].dIn, t, hint)
           d == CHOOSE e \in known : TRUE
           torn == [tr[p] EXCEPT !.sens = t.stab[@], !.torn = TRUE]
           moved == [tr[p] EXCEPT !.sens = t.stab[@], !.dIn = d, !.type = t.out]
<1>1. tr \in [Path -> Node] /\ \A x \in Path : tr[x] \in Node
  BY DEF WellRetired, Shaped
<1> HIDE DEF d
<1>2. v = [tr EXCEPT ![p] = IF known = {} THEN torn ELSE moved]
  BY <1>1 DEF Transformed, d
<1>3. \A nd \in {torn, moved} :
        /\ nd.kind = tr[p].kind /\ nd.total = tr[p].total
        /\ nd.charge = tr[p].charge /\ nd.spent = tr[p].spent
  BY <1>1 DEF Node
<1> HIDE DEF v, torn, moved
<1>4. \A x \in Path : /\ v[x].kind = tr[x].kind /\ v[x].total = tr[x].total
                      /\ v[x].charge = tr[x].charge /\ v[x].spent = tr[x].spent
  BY <1>1, <1>2, <1>3
<1>5. \A x \in Path : Within(tr[x].spent, tr[x].spent)
  BY <1>1, WithinLaws DEF Node
<1>6. \A x \in Path : SpendsMore(tr, v, x)
  BY <1>4, <1>5 DEF SpendsMore
<1>7. Paid(v)
  BY <1>1, <1>6, SpendingPaid DEF v
<1> QED BY <1>7 DEF v

LEMMA IndexedPaid ==
  ASSUME NEW tr, WellRetired(tr), Paid(tr),
         NEW p \in Path, tr[p].kind = "parallel", NEW raises \in BOOLEAN,
         tr[p].next <= Len(tr[p].parts) => Append(p, tr[p].next) \in Path
  PROVE  Paid(Indexed(tr, p, raises))
<1> DEFINE u == RetireCurrent(tr, p)
           n == tr[p].next
           c == Append(p, n)
           part == tr[p].parts[n]
           retired == [u EXCEPT ![p].next = n + 1]
           new == Created(part, tr[p].sens, tr[p].charge, tr[p].torn)
           v == [retired EXCEPT ![p].current = n, ![c] = new]
           over == raises \/ n > Len(tr[p].parts)
<1>1. tr \in [Path -> Node] /\ tr[p] \in Node /\ n \in Nat \ {0}
  <2>1. tr \in [Path -> Node] /\ tr[p] \in Node
    BY DEF WellRetired, Shaped
  <2> QED BY <2>1 DEF Node
<1>2. /\ u \in [Path -> Node] /\ u[p] = tr[p]
      /\ \A x \in Path : SpendsMore(tr, u, x)
  <2>1. u \in [Path -> Node] /\ u[p] = tr[p] /\ OnlyRetires(tr, u)
    BY RetireCurrentEffect DEF StrictlyBelow, WellRetired, Shaped
  <2> HIDE DEF u
  <2> QED BY <1>1, <2>1, RetiresPaid
<1>3. Indexed(tr, p, raises) = IF over THEN retired ELSE v
  BY DEF Indexed
<1> DEFINE nd == [tr[p] EXCEPT !.next = n + 1]
<1>4. /\ nd \in Node /\ nd.kind = "parallel" /\ nd.total = tr[p].total
      /\ nd.charge = tr[p].charge /\ nd.spent = tr[p].spent
  <2>1. n + 1 \in Nat \ {0}
    BY <1>1
  <2> HIDE DEF n
  <2> QED BY <1>1, <2>1 DEF Node
<1>5. Within(tr[p].spent, tr[p].spent)
  BY <1>1, WithinLaws DEF Node
<1> HIDE DEF u, nd
<1>6. /\ retired \in [Path -> Node] /\ retired[p] = nd
      /\ \A x \in Path \ {p} : retired[x] = u[x]
  BY <1>2, <1>4 DEF nd
<1>7. CASE over
  <2>1. \A x \in Path : SpendsMore(tr, retired, x)
    BY <1>2, <1>4, <1>5, <1>6 DEF SpendsMore
  <2> HIDE DEF retired
  <2>2. Paid(retired)
    BY <1>1, <1>6, <2>1, SpendingPaid
  <2> QED BY <1>3, <1>7, <2>2
<1>8. CASE ~ over
  <2>1. n \in 1 .. Len(tr[p].parts) /\ c \in Path /\ p # c
    <3>1. tr[p].parts \in Seq(AnswerMeasurement \union SequentialMeasurement)
      BY <1>1 DEF Node
    <3>2. n \in 1 .. Len(tr[p].parts) /\ c \in Path
      BY <1>1, <1>8, <3>1
    <3> QED BY <3>2, BelowAnswer, BelowReflexive DEF StrictlyBelow
  <2>2. new \in Node /\ new.kind # "none" /\ new.charge = tr[p].charge
    <3>1. /\ tr[p].parts \in Seq(AnswerMeasurement \union SequentialMeasurement)
          /\ tr[p].sens \in Dist /\ tr[p].charge \in Budgets
          /\ tr[p].torn \in BOOLEAN
      BY <1>1 DEF Node
    <3>2. part \in Measurement
      BY <2>1, <3>1 DEF Measurement
    <3> QED BY <3>1, <3>2, CreatedType
  <2> HIDE DEF new
  <2>3. /\ v \in [Path -> Node] /\ v[c] = new
        /\ v[p] = [nd EXCEPT !.current = n]
        /\ \A x \in Path \ {p, c} : v[x] = u[x]
    <3>1. [nd EXCEPT !.current = n] \in Node
      <4>1. n \in Nat
        BY <1>1
      <4> HIDE DEF n
      <4> QED BY <1>4, <4>1 DEF Node
    <3> HIDE DEF retired
    <3> QED BY <1>4, <1>6, <2>1, <2>2, <3>1
  <2>4. /\ v[p].kind = "parallel" /\ v[p].total = tr[p].total
        /\ v[p].charge = tr[p].charge
    <3> HIDE DEF v, n
    <3> QED BY <1>4, <2>3 DEF Node
  <2>5. \A x \in Path \ {p, c} : SpendsMore(tr, v, x)
    BY <1>2, <2>3 DEF SpendsMore
  <2> HIDE DEF v, n, c
  <2>6. Paid(v)
    BY <2>1, <2>2, <2>3, <2>4, <2>5, HandingOutPaid DEF n, c
  <2> QED BY <1>3, <1>8, <2>6
<1> QED BY <1>7, <1>8

-----------------------------------------------------------------------------
(* The specification *)

LEMMA InitPaid ==
  ASSUME Init
  PROVE  PaidInv
<1>1. PICK m \in RootCompositions :
        tree = [x \in Path |-> IF x = Root
                               THEN Created(m, m.dIn, m.budget, FALSE)
                               ELSE NotOpened]
  BY DEF Init
<1>2. WellRetired(tree)
  BY InitWrapperInv DEF WrapperInv
<1>3. tree \in [Path -> Node]
  BY <1>2 DEF WellRetired, Shaped
<1> SUFFICES ASSUME NEW x \in Path
             PROVE  ChargesSpent(tree, x) /\ PartsPaid(tree, x)
  BY DEF PaidInv, Paid
<1>4. \A n \in 1 .. MaxFan : ~ Given(tree, x, n)
  <2> SUFFICES ASSUME NEW n \in 1 .. MaxFan, Append(x, n) \in Path
               PROVE  ~ IsOpen(tree, Append(x, n))
    BY DEF Given
  <2>1. Append(x, n) # Root
    BY AppendPath, PathType DEF Root
  <2> QED BY <1>1, <2>1, NotOpenedType DEF IsOpen
<1>5. Charged(tree, x) = [n \in 1 .. MaxFan |-> NoLoss]
  BY <1>4 DEF Charged
<1>6. Composed("sequential", Charged(tree, x)) = NoLoss
  BY <1>5, ZerosCompose, FS_Interval, FanAssumption
<1>7. tree[x].spent \in [eps : Amount, delta : Nat]
  BY <1>3 DEF Node
<1> QED BY <1>4, <1>6, <1>7, WithinLaws DEF ChargesSpent, PartsPaid

LEMMA NotRootDeep ==
  ASSUME NEW x \in Path, x # Root
  PROVE  Len(x) \in 1 .. Len(x)
<1>1. Len(x) \in Nat
  BY PathType
<1>2. ASSUME Len(x) = 0
      PROVE  FALSE
  <2>1. Below(Root, x)
    BY <1>2, PathType DEF Below, Root
  <2> QED BY <2>1, RootAboveAll
<1> QED BY <1>1, <1>2

LEMMA PaidStep ==
  ASSUME WrapperInv, WrapperInv', AccountingInv, PaidInv, [Next]_vars
  PROVE  PaidInv'
<1>1. WellRetired(tree) /\ Accounted(tree) /\ Paid(tree)
  BY DEF WrapperInv, AccountingInv, PaidInv
<1>2. tree \in [Path -> Node] /\ tree' \in [Path -> Node]
  BY DEF WrapperInv, WellRetired, Shaped
<1>3. CASE UNCHANGED vars
  BY <1>1, <1>3 DEF vars, PaidInv
<1>4. ASSUME NEW p \in Path, NEW m \in Measurements, NEW hint \in LossHints,
             MeasurementQuery(p, m, hint)
      PROVE  PaidInv'
  <2>1. PICK cost \in Accepted(tree[p], m, hint), raises \in BOOLEAN :
          tree' = Measured(tree, p, m, cost, raises)
    BY <1>4 DEF MeasurementQuery
  <2>2. /\ tree[p].kind = "sequential"
        /\ Len(p) < MaxDepth /\ tree[p].next <= MaxFan
    BY <1>4 DEF MeasurementQuery, HasRoom
  <2>3. tree[p].next \in 1 .. MaxFan
    BY <1>2, <2>2, FanAssumption DEF Node
  <2>4. Append(p, tree[p].next) \in Path
    BY <2>2, <2>3, AnswerInPath
  <2>5. Paid(tree')
    BY <1>1, <2>1, <2>2, <2>4, MeasuredPaid, MeasurementsAssumption,
       HintsAssumption
  <2> QED BY <2>5 DEF PaidInv
<1>5. ASSUME NEW p \in Path, NEW t \in Transformations, NEW hint \in DistHints,
             TransformationQuery(p, t, hint)
      PROVE  PaidInv'
  <2>1. tree' = Transformed(tree, p, t, hint) /\ tree[p].kind = "sequential"
    BY <1>5 DEF TransformationQuery
  <2>3. t \in Transformation /\ Monotone(t)
    BY TransformationsAssumption
  <2>2. Paid(tree')
    BY <1>1, <1>2, <2>1, <2>3, TransformedPaid, HintsAssumption
  <2> QED BY <2>2 DEF PaidInv
<1>6. ASSUME NEW p \in Path, IndexQuery(p)
      PROVE  PaidInv'
  <2>1. PICK raises \in BOOLEAN : tree' = Indexed(tree, p, raises)
    BY <1>6 DEF IndexQuery
  <2>2. tree[p].kind = "parallel"
    BY <1>6 DEF IndexQuery
  <2>3. tree[p].next <= Len(tree[p].parts) => Append(p, tree[p].next) \in Path
    <3> HAVE tree[p].next <= Len(tree[p].parts)
    <3>1. Len(p) < MaxDepth /\ tree[p].next <= MaxFan
      BY <1>6 DEF IndexQuery, HasRoom
    <3>2. tree[p].next \in 1 .. MaxFan
      BY <1>2, <3>1, FanAssumption DEF Node
    <3> QED BY <3>1, <3>2, AnswerInPath
  <2>4. Paid(tree')
    BY <1>1, <2>1, <2>2, <2>3, IndexedPaid
  <2> QED BY <2>4 DEF PaidInv
<1>7. ASSUME NEW x \in Path, RetireQuery(x)
      PROVE  PaidInv'
  <2>1. tree' = RetireWrapper(tree, x, Len(x)) /\ x # Root
    BY <1>7 DEF RetireQuery
  <2>2. Len(x) \in 1 .. Len(x)
    BY <2>1, NotRootDeep
  <2>3. OnlyRetires(tree, tree')
    BY <1>1, <2>1, <2>2, RetireWrapperWellRetired
  <2>4. Paid(tree')
    BY <1>1, <1>2, <2>3, RetiresPaid
  <2> QED BY <2>4 DEF PaidInv
<1> QED BY <1>3, <1>4, <1>5, <1>6, <1>7 DEF Next

(* In every reachable state the charges of all answers are spent.          *)
THEOREM PaidSafety == Spec => []PaidInv
<1>1. Init => PaidInv
  BY InitPaid
<1>2. WrapperInv /\ WrapperInv' /\ AccountingInv /\ PaidInv /\ [Next]_vars
        => PaidInv'
  BY PaidStep
<1> QED BY <1>1, <1>2, WrapperSafety, AccountingSafety, PTL DEF Spec

-----------------------------------------------------------------------------
(* Charges cover losses *)

(* A finite value that covers a loss is at least as large in each component.*)
LEMMA CompareWithin ==
  ASSUME NEW v \in Losses, NEW w \in Losses
  PROVE  /\ Within(v, w) => Compare(v, w)
         /\ Compare(v, w) /\ IsFinite(w) => Within(v, w)
         /\ ~ IsFinite(w) => Compare(v, w)
BY MeasureAssumption
   DEF Compare, Within, IsFinite, Losses, AmountAtMost

LEMMA FiniteBelow ==
  ASSUME NEW v \in Losses, NEW w \in Losses, Within(v, w), IsFinite(w)
  PROVE  IsFinite(v)
BY MeasureAssumption, DeltaAssumption
   DEF Within, IsFinite, Losses, AmountAtMost

LEMMA LossCompareTransitive ==
  ASSUME NEW u \in Losses, NEW v \in Losses, NEW w \in Losses,
         Compare(v, w), IsFinite(v) => Compare(u, v)
  PROVE  Compare(u, w)
<1>1. CASE ~ IsFinite(w)
  BY <1>1, CompareWithin
<1>2. CASE IsFinite(w)
  <2>1. Within(v, w)
    BY <1>2, CompareWithin
  <2>2. IsFinite(v)
    BY <1>2, <2>1, FiniteBelow
  <2>3. Within(u, v)
    BY <2>2, CompareWithin
  <2>4. Within(u, w)
    BY <2>1, <2>3, LossesPlain, WithinLaws
  <2> QED BY <2>4, CompareWithin
<1> QED BY <1>1, <1>2

(* Each of the values added up is within the sum.                          *)
LEMMA PartOfSum ==
  ASSUME NEW D, IsFiniteSet(D), NEW f \in [D -> Losses], NEW n \in D
  PROVE  Within(f[n], Composed("sequential", f))
<1>1. PICK a : Composes(a, "sequential", D, f)
  BY ComposedFold
<1> DEFINE P == {s \in SUBSET D : n \in s => Within(f[n], a[s])}
<1>2. {} \in P
  OBVIOUS
<1>3. ASSUME NEW s \in SUBSET D, s # {}, s \ {FoldedFirst(s)} \in P
      PROVE  s \in P
  <2> DEFINE x == FoldedFirst(s)
             r == s \ {x}
  <2>1. /\ x \in D /\ r \in SUBSET D
        /\ a[s] = AddedLosses(f[x], a[r]) /\ a[r] \in Losses /\ f[x] \in Losses
    BY <1>1, <1>3 DEF Composes, Together
  <2>2. /\ f[x] \in [eps : Amount, delta : Nat]
        /\ a[r] \in [eps : Amount, delta : Nat]
        /\ f[n] \in [eps : Amount, delta : Nat]
    BY <2>1, LossesPlain
  <2>3. Within(f[x], a[s]) /\ Within(a[r], a[s])
    BY <2>1, <2>2, WithinLaws, PlusLaws
  <2>4. CASE n = x
    BY <2>3, <2>4
  <2>5. CASE n # x /\ n \in s
    <3>1. Within(f[n], a[r])
      BY <1>3, <2>5
    <3>2. a[s] \in [eps : Amount, delta : Nat]
      BY <1>1, LossesPlain DEF Composes
    <3>3. Within(f[n], a[s])
      BY <2>2, <2>3, <3>1, <3>2, WithinLaws
    <3> QED BY <3>3
  <2> QED BY <2>4, <2>5
<1> HIDE DEF P
<1>4. D \in P
  BY <1>2, <1>3, FoldInduction
<1> QED BY <1>1, <1>4 DEF P, Composes

(* What each queryable lost is covered by its charge, and in a composition *)
(* by the budget.                                                          *)
LossCovered(x) ==
  /\ IsOpen(tree, x) => Compare(TrueLoss[x], tree[x].charge)
  /\ tree[x].kind = "sequential" => LossBounded(x)

(* A queryable's loss is covered if those of its answers are.              *)
LEMMA CoveredUpwards ==
  ASSUME WrapperInv, AccountingInv, PaidInv,
         NEW x \in Path, ~ tree[x].torn,
         \A i \in 1 .. MaxFan : Given(tree, x, i) => LossCovered(Append(x, i))
  PROVE  LossCovered(x)
<1> DEFINE g == TrueLoss
           D == 1 .. MaxFan
           lost == AnswerLosses(g, x)
           paid == Charged(tree, x)
           total == tree[x].total
           charge == tree[x].charge
<1>1. /\ tree \in [Path -> Node] /\ tree[x] \in Node
      /\ NodeAccounted(tree[x]) /\ ChargesSpent(tree, x) /\ PartsPaid(tree, x)
  BY DEF WrapperInv, WellRetired, Shaped, AccountingInv, Accounted, PaidInv, Paid
<1>2. /\ g \in [Path -> Losses] /\ \A y \in Path : g[y] = LossOf(g, y)
  BY <1>1, TrueLossDefined DEF TypeOK, IsTrueLoss
<1> HIDE DEF g
<1>3. /\ IsFiniteSet(D) /\ lost \in [D -> Losses] /\ paid \in [D -> Losses]
      /\ total \in Losses /\ charge \in Losses
      /\ tree[x].spent \in [eps : Amount, delta : Nat]
  <2>1. IsFiniteSet(D)
    BY FS_Interval, FanAssumption
  <2>2. lost \in [D -> Losses] /\ paid \in [D -> Losses]
    BY <1>1, <1>2, AnswerLossesType, ChargedType
  <2>3. /\ total \in Losses /\ charge \in Losses
        /\ tree[x].spent \in [eps : Amount, delta : Nat]
    BY <1>1, LossTypes DEF Node
  <2> QED BY <2>1, <2>2, <2>3
<1>4. ASSUME NEW i \in D
      PROVE  IF Given(tree, x, i)
             THEN /\ paid[i] = tree[Append(x, i)].charge
                  /\ Compare(lost[i], paid[i])
             ELSE lost[i] = NoLoss /\ paid[i] = NoLoss
  <2>1. Append(x, i) \in Path <=> Len(x) < MaxDepth
    <3>1. Len(x) < MaxDepth => Append(x, i) \in Path
      BY AnswerInPath DEF D
    <3>2. ASSUME Append(x, i) \in Path
          PROVE  Len(x) < MaxDepth
      <4>1. Len(Append(x, i)) = Len(x) + 1 /\ Len(x) \in Nat
        BY <3>2, AppendPath, PathType
      <4>2. \A y \in Path : Len(y) <= MaxDepth
        BY PathType, DepthAssumption
      <4>3. Len(Append(x, i)) <= MaxDepth
        BY <3>2, <4>2
      <4> QED BY <4>1, <4>3, DepthAssumption
    <3> QED BY <3>1, <3>2
  <2>2. CASE Given(tree, x, i)
    <3>1. lost[i] = g[Append(x, i)] /\ paid[i] = tree[Append(x, i)].charge
      BY <2>1, <2>2 DEF AnswerLosses, Charged, Given
    <3>2. Compare(g[Append(x, i)], tree[Append(x, i)].charge)
      BY <2>2 DEF LossCovered, Given, g
    <3> QED BY <2>2, <3>1, <3>2
  <2>3. CASE ~ Given(tree, x, i)
    <3>1. paid[i] = NoLoss
      BY <2>3 DEF Charged
    <3>2. lost[i] = NoLoss
      <4>1. Append(x, i) \in Path => tree[Append(x, i)].kind = "none"
        BY <2>3 DEF Given, IsOpen
      <4>2. Append(x, i) \in Path => g[Append(x, i)] = NoLoss
        BY <1>2, <4>1 DEF LossOf
      <4> QED BY <2>1, <4>2 DEF AnswerLosses
    <3> QED BY <2>3, <3>1, <3>2
  <2> QED BY <2>2, <2>3
<1> HIDE DEF lost, paid, D
<1>5. tree[x].kind \in {"none", "answer", "sequential", "parallel"}
  BY <1>1 DEF Node
<1>6. CASE tree[x].kind = "none"
  BY <1>6 DEF LossCovered, IsOpen
<1>7. CASE tree[x].kind = "answer"
  <2>1. g[x] = tree[x].loss
    BY <1>2, <1>7 DEF LossOf
  <2>2. Compare(tree[x].loss, charge)
    BY <1>1, <1>7 DEF NodeAccounted, NodeCharged
  <2> QED BY <1>7, <2>1, <2>2 DEF LossCovered, g
<1>8. CASE tree[x].kind = "sequential"
  <2>1. g[x] = Composed("sequential", lost) /\ g[x] \in Losses
    BY <1>2, <1>8 DEF LossOf, lost
  <2>2. ASSUME IsFinite(total)
        PROVE  Compare(g[x], total)
    <3> DEFINE sum == Composed("sequential", paid)
    <3>1. Within(sum, tree[x].spent)
      BY <1>1, <1>8, <2>2 DEF ChargesSpent, paid
    <3>2. Within(tree[x].spent, total)
      <4>1. /\ AddedLosses(tree[x].spent, tree[x].remaining) = total
            /\ tree[x].remaining \in Losses
        BY <1>1, <1>8, <2>2, LossTypes DEF NodeAccounted, NodeBalanced, Node
      <4>2. tree[x].remaining \in [eps : Amount, delta : Nat]
        BY <4>1, LossesPlain
      <4> HIDE DEF total
      <4>3. Within(tree[x].spent, AddedLosses(tree[x].spent, tree[x].remaining))
        BY <1>3, <4>2, WithinLaws
      <4> QED BY <4>1, <4>3
    <3>3. sum \in Losses
      BY <1>3, ComposedType
    <3> HIDE DEF sum, total
    <3>4. Within(sum, total)
      BY <1>3, <3>1, <3>2, <3>3, LossesPlain, WithinLaws
    <3>5. ASSUME NEW i \in D
          PROVE  Within(lost[i], paid[i])
      <4>1. Within(paid[i], sum)
        BY <1>3, PartOfSum DEF sum
      <4>2. lost[i] \in Losses /\ paid[i] \in Losses
        BY <1>3
      <4>3. IsFinite(paid[i])
        BY <1>3, <2>2, <3>3, <3>4, <4>1, <4>2, FiniteBelow
      <4>4. CASE Given(tree, x, i)
        BY <1>4, <4>2, <4>3, <4>4, CompareWithin
      <4>5. CASE ~ Given(tree, x, i)
        BY <1>4, <4>2, <4>5, LossesPlain, WithinLaws
      <4> QED BY <4>4, <4>5
    <3>6. Within(g[x], sum)
      BY <1>3, <2>1, <3>5, SumMonotone DEF sum
    <3>7. Within(g[x], total)
      BY <1>3, <2>1, <3>3, <3>4, <3>6, LossesPlain, WithinLaws
    <3> QED BY <1>3, <2>1, <3>7, CompareWithin
  <2>3. Compare(total, charge)
    BY <1>1, <1>8 DEF NodeAccounted, NodeCharged
  <2>4. Compare(g[x], charge)
    <3> HIDE DEF total, charge
    <3> QED BY <1>3, <2>1, <2>2, <2>3, LossCompareTransitive
  <2> QED BY <1>8, <2>2, <2>4 DEF LossCovered, LossBounded, g
<1>9. CASE tree[x].kind = "parallel"
  <2>1. g[x] = Composed("parallel", lost) /\ g[x] \in Losses
    BY <1>2, <1>9 DEF LossOf, lost
  <2>2. CASE IsFinite(charge)
    <3>1. ASSUME NEW i \in D
          PROVE  Within(lost[i], charge)
      <4>1. lost[i] \in Losses
        BY <1>3
      <4>2. CASE Given(tree, x, i)
        <5>1. paid[i] = charge
          BY <1>1, <1>4, <1>9, <4>2 DEF PartsPaid, D
        <5> QED BY <1>3, <1>4, <2>2, <4>1, <4>2, <5>1, CompareWithin
      <4>3. CASE ~ Given(tree, x, i)
        BY <1>3, <1>4, <4>3, LossesPlain, WithinLaws
      <4> QED BY <4>2, <4>3
    <3> HIDE DEF charge
    <3>2. Within(g[x], charge)
      BY <1>3, <2>1, <3>1, LargestWithin
    <3>3. Compare(g[x], charge)
      BY <1>3, <2>1, <3>2, CompareWithin
    <3> QED BY <1>9, <3>3 DEF LossCovered, g, charge
  <2>3. CASE ~ IsFinite(charge)
    <3>1. Compare(g[x], charge)
      BY <1>3, <2>1, <2>3, CompareWithin
    <3> QED BY <1>9, <3>1 DEF LossCovered, g
  <2> QED BY <2>2, <2>3
<1> QED BY <1>5, <1>6, <1>7, <1>8, <1>9

(* From the deepest queryables upwards, all losses are covered.            *)
LEMMA AllCovered ==
  ASSUME WrapperInv, AccountingInv, PaidInv, \A x \in Path : ~ tree[x].torn
  PROVE  \A x \in Path : LossCovered(x)
<1> DEFINE N == {n \in Nat : \A x \in Path : MaxDepth < Len(x) + n => LossCovered(x)}
<1>1. \A x \in Path : Len(x) \in Nat /\ Len(x) <= MaxDepth
  BY PathType, DepthAssumption
<1>2. 0 \in N
  BY <1>1, DepthAssumption
<1>3. ASSUME NEW n \in Nat, n \in N
      PROVE  n + 1 \in N
  <2> SUFFICES ASSUME NEW x \in Path, MaxDepth < Len(x) + (n + 1)
               PROVE  LossCovered(x)
    OBVIOUS
  <2>1. ASSUME NEW i \in 1 .. MaxFan, Given(tree, x, i)
        PROVE  LossCovered(Append(x, i))
    <3>1. Append(x, i) \in Path
      BY <2>1 DEF Given
    <3>2. MaxDepth < Len(Append(x, i)) + n
      BY <1>1, <3>1, AppendPath, DepthAssumption
    <3> QED BY <1>3, <3>1, <3>2
  <2> QED BY <2>1, CoveredUpwards
<1>4. MaxDepth + 1 \in N
  <2> HIDE DEF N
  <2>1. Nat \subseteq N
    BY <1>2, <1>3, Induction
  <2> QED BY <2>1, DepthAssumption
<1> QED BY <1>1, <1>4, DepthAssumption

(* Whatever is submitted to whichever queryable of the tree, and whichever *)
(* query fails, the true loss of all that came out of a composition is     *)
(* within its privacy budget, unless some TransformationQuery raised after *)
(* it had replaced the data.                                               *)
THEOREM BudgetSafety == Spec => []LossWithinBudget
<1>1. WrapperInv /\ AccountingInv /\ PaidInv => LossWithinBudget
  BY AllCovered DEF LossCovered, LossWithinBudget
<1> QED BY <1>1, WrapperSafety, AccountingSafety, PaidSafety, PTL
=============================================================================
