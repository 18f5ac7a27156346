--------------------------- MODULE AccountantProofs ---------------------------
(***************************************************************************)
(* A family of accountants hands its one turn on from one to the next, for *)
(* splits of splits of every depth and width, whatever is queued on them   *)
(* and whichever calls raise.                                              *)
(***************************************************************************)
EXTENDS PrivacyAccountant, QueryablesProofs

-----------------------------------------------------------------------------
(* Queued transformations *)

(* What is queued on an accountant is, as one transformation, of the right *)
(* type, and monotone if each is.                                          *)
Then(u, t) ==
  [in |-> u.in, out |-> t.out, fn |-> u.fn /\ t.fn,
   stab |-> [d \in Dist |-> t.stab[u.stab[d]]]]

LEMMA ThenType ==
  ASSUME NEW u \in Transformation, NEW t \in Transformation
  PROVE  /\ Then(u, t) \in Transformation
         /\ Monotone(u) /\ Monotone(t) => Monotone(Then(u, t))
<1>1. \A d \in Dist : u.stab[d] \in Dist /\ t.stab[u.stab[d]] \in Dist
  BY DEF Transformation
<1>2. [d \in Dist |-> t.stab[u.stab[d]]] \in [Dist -> Dist]
  BY <1>1
<1>3. Then(u, t) \in Transformation
  BY <1>2 DEF Transformation, Then
<1>4. ASSUME Monotone(u), Monotone(t) PROVE Monotone(Then(u, t))
  <2>1. \A d \in Dist : Then(u, t).stab[d] = t.stab[u.stab[d]]
    BY DEF Then
  <2> QED BY <1>1, <1>4, <2>1 DEF Monotone
<1> QED BY <1>3, <1>4

(* What nothing queued is.                                                 *)
Identity(type) ==
  [in |-> type, out |-> type, fn |-> TRUE, stab |-> [d \in Dist |-> d]]

(* g[k] is what the first k queued transformations are together.           *)
IsChain(g, type, pending) ==
  /\ g[0] = Identity(IF pending = <<>> THEN type ELSE pending[1].t.in)
  /\ \A k \in 1 .. Len(pending) : g[k] = Then(g[k - 1], pending[k].t)

LEMMA QueuedTypes ==
  ASSUME NEW type \in Types, NEW pending \in Seq(Queued)
  PROVE  /\ Len(pending) \in Nat
         /\ \A k \in 1 .. Len(pending) :
              pending[k].t \in Transformation /\ Monotone(pending[k].t)
         /\ LET id == Identity(IF pending = <<>> THEN type ELSE pending[1].t.in)
            IN  id \in Transformation /\ Monotone(id)
<1> DEFINE L == Len(pending)
           start == IF pending = <<>> THEN type ELSE pending[1].t.in
<1>1. L \in Nat /\ \A k \in 1 .. L : pending[k].t \in Transformation /\ Monotone(pending[k].t)
  <2>1. L \in Nat /\ \A k \in 1 .. L : pending[k] \in Queued
    BY SMT
  <2> QED BY <2>1, TransformationsAssumption DEF Queued
<1>2. start \in Types
  <2>1. CASE pending # <<>>
    <3>1. 1 \in 1 .. L
      BY <1>1, <2>1
    <3>2. pending[1].t \in Transformation
      BY <1>1, <3>1
    <3> QED BY <3>2, <2>1 DEF Transformation
  <2> QED BY <2>1
<1>3. Identity(start) \in Transformation /\ Monotone(Identity(start))
  <2> HIDE DEF start
  <2> QED BY <1>2 DEF Transformation, Monotone, Identity
<1> QED BY <1>1, <1>3

LEMMA ChainedSteps ==
  ASSUME NEW type \in Types, NEW pending \in Seq(Queued)
  PROVE  \E g : IsChain(g, type, pending) /\ Chained(type, pending) = g[Len(pending)]
<1> DEFINE L == Len(pending)
           start == IF pending = <<>> THEN type ELSE pending[1].t.in
           base == Identity(start)
           Step(f, k) == IF k = 0 THEN base ELSE Then(f[k - 1], pending[k].t)
           chain == CHOOSE f : f = [k \in 0 .. L |-> Step(f, k)]
           op == [z \in (1 .. L) \X Transformation |-> Then(z[2], pending[z[1]].t)]
<1>1. /\ L \in Nat
      /\ \A k \in 1 .. L : pending[k].t \in Transformation /\ Monotone(pending[k].t)
  BY QueuedTypes
<1>3. base \in Transformation
  BY QueuedTypes
<1>4. Chained(type, pending) = chain[L]
  BY DEF Chained, Then, Identity
<1> HIDE DEF base, L
<1>5. op \in [(1 .. L) \X Transformation -> Transformation]
  BY <1>1, ThenType
<1>6. \A k \in 1 .. L, u \in Transformation : op[<<k, u>>] = Then(u, pending[k].t)
  OBVIOUS
<1> HIDE DEF op
<1>7. PICK g : IsStepped(g, L, Transformation, base, op)
  BY <1>1, <1>3, <1>5, SteppedExists
<1>8. g = [k \in 0 .. L |-> Step(g, k)]
  <2>1. ASSUME NEW k \in 0 .. L PROVE g[k] = Step(g, k)
    <3>1. CASE k = 0
      BY <1>7, <3>1 DEF IsStepped
    <3>2. CASE k # 0
      <4>1. k \in 1 .. L /\ k - 1 \in 0 .. L
        BY <1>1, <3>2
      <4>2. g[k - 1] \in Transformation
        BY <1>7, <4>1 DEF IsStepped
      <4> QED BY <1>6, <1>7, <3>2, <4>1, <4>2 DEF IsStepped
    <3> QED BY <3>1, <3>2
  <2> QED BY <1>7, <2>1 DEF IsStepped
<1>9. chain = [k \in 0 .. L |-> Step(chain, k)]
  <2> DEFINE Def(f) == [k \in 0 .. L |-> Step(f, k)]
  <2>1. g = Def(g)
    BY <1>8
  <2> HIDE DEF Def
  <2>2. (CHOOSE f : f = Def(f)) = Def(CHOOSE f : f = Def(f))
    BY <2>1
  <2> QED BY <2>2 DEF Def
<1> HIDE DEF chain
<1>10. \A k \in 0 .. L : chain[k] = Step(chain, k)
  BY <1>9
<1>11. IsChain(chain, type, pending)
  <2>1. chain[0] = base
    BY <1>1, <1>10
  <2>2. \A k \in 1 .. L : chain[k] = Then(chain[k - 1], pending[k].t)
    BY <1>1, <1>10
  <2> QED BY <2>1, <2>2 DEF IsChain, base, L
<1> QED BY <1>4, <1>11 DEF L

LEMMA ChainedType ==
  ASSUME NEW type \in Types, NEW pending \in Seq(Queued)
  PROVE  /\ Chained(type, pending) \in Transformation
         /\ Monotone(Chained(type, pending))
<1> DEFINE L == Len(pending)
<1>1. /\ L \in Nat
      /\ \A k \in 1 .. L : pending[k].t \in Transformation /\ Monotone(pending[k].t)
  BY QueuedTypes
<1>2. PICK g : IsChain(g, type, pending) /\ Chained(type, pending) = g[L]
  BY ChainedSteps
<1> DEFINE Good(k) == g[k] \in Transformation /\ Monotone(g[k])
           N == {n \in Nat : n \in 0 .. L => Good(n)}
<1>3. 0 \in N
  BY <1>2, QueuedTypes DEF IsChain
<1>4. ASSUME NEW n \in Nat, n \in N PROVE n + 1 \in N
  <2> SUFFICES ASSUME n + 1 \in 0 .. L PROVE Good(n + 1)
    OBVIOUS
  <2>1. n \in 0 .. L /\ n + 1 \in 1 .. L /\ (n + 1) - 1 = n
    BY <1>1
  <2>2. g[n + 1] = Then(g[n], pending[n + 1].t)
    BY <1>2, <2>1 DEF IsChain
  <2> QED BY <1>1, <1>4, <2>1, <2>2, ThenType
<1>5. L \in N
  <2> HIDE DEF N
  <2> QED BY <1>1, <1>3, <1>4, Induction
<1> QED BY <1>1, <1>2, <1>5

LEMMA ChainedNone ==
  ASSUME NEW type \in Types
  PROVE  Chained(type, <<>>) = Identity(type)
<1>1. <<>> \in Seq(Queued) /\ Len(<<>>) = 0
  OBVIOUS
<1> QED BY <1>1, ChainedSteps DEF IsChain

(* One more is queued.                                                     *)
LEMMA ChainedOneMore ==
  ASSUME NEW type \in Types, NEW pending \in Seq(Queued), NEW q \in Queued,
         NEW later \in Types, pending = <<>> => q.t.in = type
  PROVE  Chained(later, Append(pending, q)) = Then(Chained(type, pending), q.t)
<1> DEFINE L == Len(pending)
           after == Append(pending, q)
<1>1. L \in Nat
  OBVIOUS
<1>2. /\ after \in Seq(Queued) /\ Len(after) = L + 1 /\ after # <<>>
      /\ after[L + 1] = q /\ \A k \in 1 .. L : after[k] = pending[k]
  OBVIOUS
<1>3. PICK g : IsChain(g, type, pending) /\ Chained(type, pending) = g[L]
  BY ChainedSteps
<1> HIDE DEF after
<1>4. PICK h : IsChain(h, later, after) /\ Chained(later, after) = h[Len(after)]
  BY <1>2, ChainedSteps
<1> DEFINE N == {n \in Nat : n \in 0 .. L => h[n] = g[n]}
<1>5. 0 \in N
  <2>1. after[1].t.in = IF pending = <<>> THEN type ELSE pending[1].t.in
    <3>1. CASE pending = <<>>
      BY <1>2, <3>1
    <3>2. CASE pending # <<>>
      <4>1. 1 \in 1 .. L
        BY <3>2
      <4> QED BY <1>2, <3>2, <4>1
    <3> QED BY <3>1, <3>2
  <2>2. h[0] = g[0]
    BY <1>2, <1>3, <1>4, <2>1 DEF IsChain
  <2> QED BY <2>2
<1>6. ASSUME NEW n \in Nat, n \in N PROVE n + 1 \in N
  <2> SUFFICES ASSUME n + 1 \in 0 .. L PROVE h[n + 1] = g[n + 1]
    OBVIOUS
  <2>1. n \in 0 .. L /\ n + 1 \in 1 .. L /\ (n + 1) - 1 = n
    BY <1>1
  <2>2. n + 1 \in 1 .. Len(after)
    BY <1>1, <1>2, <2>1
  <2>3. h[n + 1] = Then(h[n], after[n + 1].t) /\ g[n + 1] = Then(g[n], pending[n + 1].t)
    BY <1>3, <1>4, <2>1, <2>2 DEF IsChain
  <2> QED BY <1>2, <1>6, <2>1, <2>3
<1>7. h[L] = g[L]
  <2>1. L \in N
    <3> HIDE DEF N, L
    <3> QED BY <1>1, <1>5, <1>6, Induction
  <2> QED BY <1>1, <2>1
<1>8. h[L + 1] = Then(h[L], q.t)
  <2>1. L + 1 \in 1 .. Len(after) /\ (L + 1) - 1 = L
    BY <1>1, <1>2
  <2> QED BY <1>2, <1>4, <2>1 DEF IsChain
<1> QED BY <1>2, <1>3, <1>4, <1>7, <1>8 DEF after

-----------------------------------------------------------------------------
(* The names of accountants *)

IsChild(c, a, q, i) ==
  /\ Append(a, q) \in Path /\ Len(Append(a, q)) = Len(a) + 1
  /\ q \in 1 .. MaxFan /\ i \in 1 .. MaxFan
  /\ Len(c) = Len(a) + 2 /\ c[Len(a) + 1] = q /\ c[Len(a) + 2] = i
  /\ Parent(c) = a /\ IndexInParent(c) = i /\ c # Root
  /\ StrictlyBelow(c, a) /\ StrictlyBelow(c, Append(a, q))
  /\ StrictlyBelow(Append(a, q), a)

LEMMA ChildNamed ==
  ASSUME NEW a \in Accountants, NEW q \in Nat, NEW i \in Nat,
         NEW c \in Accountants, c = Append(Append(a, q), i)
  PROVE  IsChild(c, a, q, i)
<1> DEFINE p == Append(a, q)
<1>1. /\ a \in Path /\ c \in Path /\ a \in Seq(Nat) /\ Len(a) \in Nat
      /\ Len(c) \in Nat
  <2>1. a \in Path /\ c \in Path
    BY DEF Accountants
  <2>2. a \in Seq(Nat)
    BY <2>1, PathType
  <2> QED BY <2>1, <2>2, PathType
<1>2. p \in Seq(Nat) /\ Len(p) = Len(a) + 1 /\ p[Len(a) + 1] = q
      /\ \A k \in 1 .. Len(a) : p[k] = a[k]
  BY <1>1
<1>3. Len(c) = Len(a) + 2 /\ c[Len(a) + 2] = i
      /\ \A k \in 1 .. Len(p) : c[k] = p[k]
  <2> HIDE DEF p
  <2>1. c = Append(p, i)
    BY DEF p
  <2> QED BY <1>1, <1>2, <2>1
<1>4. Len(c) \in 0 .. MaxDepth /\ \A k \in 1 .. Len(c) : c[k] \in 1 .. MaxFan
  BY <1>1, PathType
<1>5. q \in 1 .. MaxFan /\ i \in 1 .. MaxFan
  <2>1. Len(a) + 1 \in 1 .. Len(c) /\ Len(a) + 2 \in 1 .. Len(c) /\ Len(a) + 1 \in 1 .. Len(p)
    BY <1>1, <1>2, <1>3
  <2> HIDE DEF p
  <2> QED BY <1>2, <1>3, <1>4, <2>1
<1>6. p \in Path
  <2>1. Len(a) < MaxDepth
    BY <1>1, <1>3, <1>4, DepthAssumption
  <2> QED BY <1>1, <1>5, <2>1, AnswerInPath
<1>7. Below(c, p) /\ Below(c, a) /\ Below(p, a) /\ c # p /\ c # a /\ p # a
  <2> HIDE DEF p
  <2> QED BY <1>1, <1>2, <1>3 DEF Below
<1>8. Parent(c) = a
  <2>1. Len(c) - 2 = Len(a)
    BY <1>1, <1>3
  <2> QED BY <1>1, <1>7, <2>1, PathPrefix DEF Parent
<1>9. IndexInParent(c) = i
  BY <1>3 DEF IndexInParent
<1>10. c # Root
  BY <1>1, <1>3 DEF Root
<1>11. c[Len(a) + 1] = q
  <2> HIDE DEF p
  <2> QED BY <1>1, <1>2, <1>3
<1> QED
  BY <1>2, <1>3, <1>5, <1>6, <1>7, <1>8, <1>9, <1>10, <1>11
     DEF StrictlyBelow, IsChild

LEMMA Parity ==
  ASSUME NEW n \in Nat, n % 2 = 0
  PROVE  (n + 1) % 2 # 0 /\ (n + 2) % 2 = 0
OBVIOUS

(* The answers of the queryable of an accountant are no accountants', and  *)
(* the answers of these are.                                               *)
LEMMA ChildIsAccountant ==
  ASSUME NEW a \in Accountants, NEW q, Append(a, q) \in Path
  PROVE  /\ Append(a, q) \notin Accountants
         /\ \A i : Append(Append(a, q), i) \in Path =>
              Append(Append(a, q), i) \in Accountants
<1> DEFINE p == Append(a, q)
<1>1. a \in Path /\ Len(a) \in Nat /\ Len(a) % 2 = 0 /\ Len(p) = Len(a) + 1
  BY PathType, AppendPath DEF Accountants
<1> HIDE DEF p
<1>2. p \notin Accountants
  BY <1>1, Parity DEF Accountants
<1>3. ASSUME NEW i, Append(p, i) \in Path PROVE Append(p, i) \in Accountants
  <2>1. Len(Append(p, i)) = Len(a) + 2
    BY <1>1, <1>3, AppendPath DEF p
  <2> QED BY <1>1, <1>3, <2>1, Parity DEF Accountants
<1> QED BY <1>2, <1>3 DEF p

(* What is below an accountant is below a child of it.                     *)
LEMMA BelowChild ==
  ASSUME NEW a \in Accountants, NEW x \in Accountants, StrictlyBelow(x, a)
  PROVE  LET y == Append(Append(a, x[Len(a) + 1]), x[Len(a) + 2])
         IN  /\ x[Len(a) + 1] \in 1 .. MaxFan /\ x[Len(a) + 2] \in 1 .. MaxFan
             /\ y \in Accountants /\ Below(x, y) /\ Len(y) = Len(a) + 2
             /\ Len(a) + 2 <= Len(x)
<1> DEFINE p == Append(a, x[Len(a) + 1])
           y == Append(p, x[Len(a) + 2])
<1>1. a \in Path /\ x \in Path /\ Len(a) \in Nat /\ Len(x) \in Nat
  BY PathType DEF Accountants
<1>2. /\ x[Len(a) + 1] \in 1 .. MaxFan /\ p \in Path /\ Below(x, p)
  BY <1>1, AnswerAbove
<1>3. p \notin Accountants /\ Len(p) = Len(a) + 1
  BY <1>1, <1>2, ChildIsAccountant, AppendPath
<1>4. StrictlyBelow(x, p)
  BY <1>2, <1>3 DEF StrictlyBelow
<1> HIDE DEF p
<1>5. /\ x[Len(p) + 1] \in 1 .. MaxFan
      /\ Append(p, x[Len(p) + 1]) \in Path /\ Below(x, Append(p, x[Len(p) + 1]))
      /\ Len(p) < Len(x)
  BY <1>1, <1>2, <1>4, AnswerAbove
<1>6. Len(p) + 1 = Len(a) + 2
  BY <1>1, <1>3
<1>7. /\ x[Len(a) + 2] \in 1 .. MaxFan /\ y \in Path /\ Below(x, y)
      /\ Len(a) + 2 <= Len(x)
  BY <1>1, <1>5, <1>6
<1>8. y \in Accountants
  BY <1>2, <1>7, ChildIsAccountant DEF p
<1>9. Len(y) = Len(a) + 2
  BY <1>2, <1>3, <1>6, <1>7, AppendPath
<1> QED BY <1>2, <1>7, <1>8, <1>9 DEF p

(* Every accountant but the root is a child of its parent.                 *)
LEMMA ParentNamed ==
  ASSUME NEW x \in Accountants, x # Root
  PROVE  /\ Parent(x) \in Accountants /\ StrictlyBelow(x, Parent(x))
         /\ Len(x) = Len(Parent(x)) + 2
         /\ x[Len(Parent(x)) + 1] \in 1 .. MaxFan
         /\ IndexInParent(x) \in 1 .. MaxFan
         /\ x = Append(Append(Parent(x), x[Len(Parent(x)) + 1]), IndexInParent(x))
<1> DEFINE n == Len(x) - 2
           a == SubSeq(x, 1, n)
<1>1. x \in Path /\ Len(x) \in Nat /\ Len(x) % 2 = 0 /\ MaxDepth \in Nat
      /\ Len(x) <= MaxDepth
  BY PathType, DepthAssumption DEF Accountants
<1>2. Len(x) # 0
  <2> SUFFICES ASSUME Len(x) = 0 PROVE FALSE
    OBVIOUS
  <2>1. Below(Root, x)
    BY <1>1 DEF Below, Root
  <2> QED BY <1>1, <2>1, RootAboveAll
<1>3. n \in Nat /\ n + 2 = Len(x) /\ n % 2 = 0
  BY <1>1, <1>2
<1>4. \A k \in 1 .. n : x[k] \in 1 .. MaxFan
  BY <1>1, <1>3, PathType
<1>5. n \in Int /\ 1 \in Int
  BY <1>3
<1> HIDE DEF n
<1>6. /\ a \in Seq(1 .. MaxFan) /\ Len(a) = IF 1 <= n THEN n - 1 + 1 ELSE 0
      /\ \A k \in 1 .. n - 1 + 1 : a[k] = x[1 + k - 1]
  BY <1>4, <1>5, SubSeqProperties
<1>7. Len(a) = n /\ \A k \in 1 .. n : a[k] = x[k]
  BY <1>3, <1>6
<1> HIDE DEF a
<1>8. a \in Path
  <2>1. a \in [1 .. Len(a) -> 1 .. MaxFan]
    BY <1>6, LenProperties
  <2>2. a \in [1 .. n -> 1 .. MaxFan] /\ n \in 0 .. MaxDepth
    BY <1>1, <1>3, <1>7, <2>1
  <2> QED BY <2>2 DEF Path
<1>9. a \in Accountants /\ StrictlyBelow(x, a)
  BY <1>3, <1>7, <1>8 DEF Accountants, Below, StrictlyBelow
<1> DEFINE y == Append(Append(a, x[Len(a) + 1]), x[Len(a) + 2])
<1>10. /\ x[Len(a) + 1] \in 1 .. MaxFan /\ x[Len(a) + 2] \in 1 .. MaxFan
       /\ y \in Accountants /\ Below(x, y) /\ Len(y) = Len(a) + 2
  BY <1>9, BelowChild
<1>11. x = y
  <2> HIDE DEF y
  <2>1. Below(y, x)
    BY <1>3, <1>7, <1>10 DEF Below
  <2> QED BY <1>1, <1>10, <2>1, BelowAntisymmetric DEF Accountants
<1>12. a = Parent(x) /\ Len(a) + 2 = Len(x)
  BY <1>3, <1>7 DEF a, n, Parent
<1>13. x[Len(a) + 2] = IndexInParent(x)
  BY <1>12 DEF IndexInParent
<1> HIDE DEF y
<1>14. Len(x) = Len(a) + 2
  BY <1>10, <1>11
<1> QED BY <1>9, <1>10, <1>11, <1>12, <1>13, <1>14 DEF y

-----------------------------------------------------------------------------
(* Trees *)

(* All that the proofs about queryables say of a tree.                     *)
Sound(tr) == WellRetired(tr) /\ Accounted(tr) /\ Paid(tr)

SameCore(nd, new) ==
  /\ new.kind = nd.kind /\ new.next = nd.next /\ new.parts = nd.parts
  /\ new.remaining = nd.remaining

LEMMA RetiredCores ==
  ASSUME NEW tr \in [Path -> Node], NEW u, OnlyRetires(tr, u), NEW x \in Path
  PROVE  SameCore(tr[x], u[x])
<1>1. tr[x] \in Node /\ u[x].retired \in SUBSET (1 .. MaxDepth)
  BY DEF OnlyRetires, Node
<1>2. u[x] = [tr[x] EXCEPT !.retired = u[x].retired]
  BY DEF OnlyRetires
<1> QED BY <1>1, <1>2 DEF Node, SameCore

(* A TransformationQuery that passes its checks.                           *)
LEMMA TransformedTree ==
  ASSUME NEW tr, Sound(tr), NEW p \in Path, Live(tr, p),
         tr[p].kind = "sequential",
         NEW t \in Transformation, Monotone(t), NEW hint \in Dist \union {None}
  PROVE  LET v == Transformed(tr, p, t, hint)
         IN  /\ Sound(v)
             /\ OpenSet(v) = OpenSet(tr) /\ LiveSet(v) = LiveSet(tr)
             /\ \A x \in Path : SameCore(tr[x], v[x])
<1> DEFINE v == Transformed(tr, p, t, hint)
           known == Stabilities(tr[p].dIn, t, hint)
           d == CHOOSE e \in known : TRUE
           torn == [tr[p] EXCEPT !.sens = t.stab[@], !.torn = TRUE]
           moved == [tr[p] EXCEPT !.sens = t.stab[@], !.dIn = d, !.type = t.out]
<1>1. tr \in [Path -> Node] /\ tr[p] \in Node /\ IsOpen(tr, p)
  BY DEF Sound, WellRetired, Shaped, Live
<1>2. WellRetired(v) /\ OpenSet(v) = OpenSet(tr) /\ LiveSet(v) = LiveSet(tr)
  BY <1>1, TransformedEffect DEF Sound
<1>3. Accounted(v)
  BY TransformedAccounted DEF Sound
<1>4. Paid(v)
  <2>1. v \in [Path -> Node]
    BY <1>2 DEF WellRetired, Shaped
  <2> QED BY <2>1, TransformedPaid DEF Sound
<1> HIDE DEF d
<1>5. v = [tr EXCEPT ![p] = IF known = {} THEN torn ELSE moved]
  BY <1>1 DEF Transformed, d
<1>6. SameCore(tr[p], torn) /\ SameCore(tr[p], moved)
  BY <1>1 DEF Node, SameCore
<1> HIDE DEF v, torn, moved
<1>7. \A x \in Path : SameCore(tr[x], v[x])
  <2> TAKE x \in Path
  <2>1. CASE x = p
    BY <1>1, <1>5, <1>6, <2>1
  <2>2. CASE x # p
    BY <1>1, <1>5, <2>2 DEF SameCore
  <2> QED BY <2>1, <2>2
<1> QED BY <1>2, <1>3, <1>4, <1>7 DEF Sound, v

(* A MeasurementQuery that passes its checks.                              *)
IsMeasured(tr, p, m, cost, raises, v) ==
  LET c == Append(p, tr[p].next)
      kept == {x \in LiveSet(tr) : ~ StrictlyBelow(x, p)}
  IN  /\ Sound(v) /\ ~ IsOpen(tr, c)
      /\ raises => OpenSet(v) = OpenSet(tr) /\ LiveSet(v) = kept
      /\ ~ raises =>
           /\ OpenSet(v) = OpenSet(tr) \union {c}
           /\ LiveSet(v) = kept \union {c}
           /\ v[c].kind = m.kind /\ v[c].next = 1
           /\ m.kind = "parallel" => v[c].parts = m.parts
      /\ \A x \in Path \ {p, c} : SameCore(tr[x], v[x])
      /\ v[p].remaining = Subtract(tr[p].remaining, cost)
      /\ v[p].kind = tr[p].kind

LEMMA MeasuredTree ==
  ASSUME NEW tr, Sound(tr), NEW p \in Path, Live(tr, p),
         tr[p].kind = "sequential", Append(p, tr[p].next) \in Path,
         NEW m, WellMade(m), NEW hint \in Budgets \union {None},
         NEW cost \in Accepted(tr[p], m, hint), NEW raises \in BOOLEAN
  PROVE  IsMeasured(tr, p, m, cost, raises, Measured(tr, p, m, cost, raises))
<1> DEFINE u == RetireCurrent(tr, p)
           n == tr[p].next
           c == Append(p, n)
           spent == IF IsFinite(tr[p].remaining)
                    THEN AddedLosses(tr[p].spent, cost) ELSE tr[p].spent
           remaining == Subtract(tr[p].remaining, cost)
           nd == [tr[p] EXCEPT !.current = 0, !.remaining = remaining,
                               !.spent = spent]
           charged == [u EXCEPT ![p] = nd]
           new == Created(m, tr[p].sens, cost, tr[p].torn)
           answered == [nd EXCEPT !.next = n + 1, !.current = n]
           w == [u EXCEPT ![p] = answered, ![c] = new]
           v == Measured(tr, p, m, cost, raises)
           kept == {x \in LiveSet(tr) : ~ StrictlyBelow(x, p)}
<1>1. /\ tr \in [Path -> Node] /\ tr[p] \in Node /\ WellRetired(tr)
      /\ n \in 1 .. MaxFan /\ p # c
      /\ m \in Measurement
  <2>1. tr \in [Path -> Node] /\ tr[p] \in Node /\ WellRetired(tr)
    BY DEF Sound, WellRetired, Shaped
  <2>2. n \in 1 .. MaxFan /\ p # c
    BY AppendPath, BelowAnswer, BelowReflexive DEF StrictlyBelow
  <2> QED BY <2>1, <2>2 DEF WellMade
<1>2. cost \in Budgets /\ CanSpend(tr[p].remaining, cost)
  BY <1>1, AcceptedType DEF Node
<1>3. /\ WellRetired(v)
      /\ raises => OpenSet(v) = OpenSet(tr) /\ LiveSet(v) = kept
      /\ ~ raises => /\ ~ IsOpen(tr, c)
                     /\ OpenSet(v) = OpenSet(tr) \union {c}
                     /\ LiveSet(v) = kept \union {c}
  BY <1>1, <1>2, MeasuredEffect
<1>4. Sound(v)
  BY <1>3, MeasuredAccounted, MeasuredPaid DEF Sound
<1>5. ~ IsOpen(tr, c)
  <2>1. IsOpen(tr, c) => n < tr[p].next
    BY <1>1 DEF WellRetired, OpenedInOrder
  <2> QED BY <1>1, <2>1
<1>6. /\ u \in [Path -> Node] /\ u[p] = tr[p]
      /\ \A x \in Path : SameCore(tr[x], u[x])
  <2>1. WellRetired(u) /\ OnlyRetires(tr, u) /\ u[p] = tr[p]
    BY <1>1, RetireCurrentEffect DEF StrictlyBelow
  <2> HIDE DEF u
  <2> QED BY <1>1, <2>1, RetiredCores DEF WellRetired, Shaped
<1>7. /\ new.kind = m.kind /\ new.next = 1
      /\ m.kind = "parallel" => new.parts = m.parts
  BY <1>1, <1>2, CreatedType, CreatedFields DEF Node
<1>8. /\ nd.remaining = remaining /\ nd.kind = tr[p].kind
      /\ answered.remaining = remaining /\ answered.kind = tr[p].kind
  <2> HIDE DEF n, remaining, spent
  <2> QED BY <1>1 DEF Node
<1>9. v = IF raises THEN charged ELSE w
  BY <1>1, <1>6 DEF Measured
<1> HIDE DEF u, v, nd, answered, new, remaining
<1>10. \A x \in Path \ {p, c} : SameCore(tr[x], v[x])
  BY <1>1, <1>6, <1>9
<1>11. v[p].remaining = remaining /\ v[p].kind = tr[p].kind
  BY <1>1, <1>6, <1>8, <1>9
<1>12. ~ raises => v[c] = new
  BY <1>1, <1>6, <1>9
<1> QED BY <1>3, <1>4, <1>5, <1>7, <1>10, <1>11, <1>12 DEF v, remaining, IsMeasured

(* An IndexQuery for the next part of a parallel queryable.                *)
LEMMA IndexedTree ==
  ASSUME NEW tr, Sound(tr), NEW p \in Path, Live(tr, p),
         tr[p].kind = "parallel", tr[p].next <= Len(tr[p].parts),
         Append(p, tr[p].next) \in Path
  PROVE  LET v == Indexed(tr, p, FALSE)
             c == Append(p, tr[p].next)
             part == tr[p].parts[tr[p].next]
             kept == {x \in LiveSet(tr) : ~ StrictlyBelow(x, p)}
         IN  /\ Sound(v) /\ ~ IsOpen(tr, c)
             /\ OpenSet(v) = OpenSet(tr) \union {c}
             /\ LiveSet(v) = kept \union {c}
             /\ v[c].kind = part.kind
             /\ part.kind = "sequential" => v[c].remaining = part.budget
             /\ \A x \in Path \ {p, c} : SameCore(tr[x], v[x])
             /\ v[p].kind = tr[p].kind /\ v[p].parts = tr[p].parts
             /\ v[p].next = tr[p].next + 1
<1> DEFINE u == RetireCurrent(tr, p)
           n == tr[p].next
           c == Append(p, n)
           part == tr[p].parts[n]
           new == Created(part, tr[p].sens, tr[p].charge, tr[p].torn)
           answered == [tr[p] EXCEPT !.next = n + 1, !.current = n]
           w == [u EXCEPT ![p] = answered, ![c] = new]
           v == Indexed(tr, p, FALSE)
<1>1. /\ tr \in [Path -> Node] /\ tr[p] \in Node /\ WellRetired(tr)
      /\ n \in 1 .. MaxFan /\ p # c /\ n \in 1 .. Len(tr[p].parts)
      /\ part \in Measurement
  <2>1. tr \in [Path -> Node] /\ tr[p] \in Node /\ WellRetired(tr)
    BY DEF Sound, WellRetired, Shaped
  <2>2. n \in 1 .. MaxFan /\ p # c
    BY AppendPath, BelowAnswer, BelowReflexive DEF StrictlyBelow
  <2>3. tr[p].parts \in Seq(AnswerMeasurement \union SequentialMeasurement)
    BY <2>1 DEF Node
  <2>4. n \in 1 .. Len(tr[p].parts)
    BY <2>2, <2>3
  <2> QED BY <2>1, <2>2, <2>3, <2>4 DEF Measurement
<1>2. ~ (FALSE \/ n > Len(tr[p].parts))
  BY <1>1
<1>3. /\ WellRetired(v) /\ ~ IsOpen(tr, c)
      /\ OpenSet(v) = OpenSet(tr) \union {c}
      /\ LiveSet(v) = {x \in LiveSet(tr) : ~ StrictlyBelow(x, p)} \union {c}
  BY <1>1, <1>2, IndexedEffect
<1>4. Sound(v)
  BY <1>3, IndexedAccounted, IndexedPaid DEF Sound
<1>5. /\ u \in [Path -> Node] /\ u[p] = tr[p]
      /\ \A x \in Path : SameCore(tr[x], u[x])
  <2>1. WellRetired(u) /\ OnlyRetires(tr, u) /\ u[p] = tr[p]
    BY <1>1, RetireCurrentEffect DEF StrictlyBelow
  <2> HIDE DEF u
  <2> QED BY <1>1, <2>1, RetiredCores DEF WellRetired, Shaped
<1>6. /\ new.kind = part.kind
      /\ part.kind = "sequential" => new.remaining = part.budget
  <2> HIDE DEF part
  <2> QED BY <1>1, CreatedType, CreatedFields DEF Node
<1>7. /\ answered.kind = tr[p].kind /\ answered.parts = tr[p].parts
      /\ answered.next = n + 1
  <2> HIDE DEF n
  <2> QED BY <1>1 DEF Node
<1>8. v = w
  BY <1>1, <1>2, <1>5 DEF Indexed
<1> HIDE DEF u, v, answered, new
<1>9. \A x \in Path \ {p, c} : SameCore(tr[x], v[x])
  BY <1>1, <1>5, <1>8
<1>10. v[p] = answered /\ v[c] = new
  BY <1>1, <1>5, <1>8
<1> QED BY <1>3, <1>4, <1>6, <1>7, <1>9, <1>10 DEF v

-----------------------------------------------------------------------------
(* The invariant of a family of accountants *)

IsWorld(w) ==
  w \in [tree : [Path -> Node], acct : [Accountants -> Accountant], ok : BOOLEAN]

Waits(w, a) == w.acct[a].state = "WAITING_FOR_CHILDREN"
InUse(w, a) == w.acct[a].state \in {"ACTIVE", "WAITING_FOR_CHILDREN"}
Present(w, a) == w.acct[a].state \notin {"none", "RETIRED"}

ChildrenNamed(w) ==
  \A a \in Accountants : \A i \in 1 .. w.acct[a].size :
    Child(w, a, i) \in Accountants

RootStarted(w) == w.acct[Root].state \notin {"none", "WAITING_FOR_SIBLING"}

(* An accountant that exists came out of a split that was answered.        *)
CameFromSplit(w) ==
  \A a \in Accountants, q \in 1 .. MaxFan, i \in 1 .. MaxFan :
    LET c == Append(Append(a, q), i)
    IN  c \in Accountants /\ w.acct[c].state # "none" =>
          IsOpen(w.tree, Append(a, q))

(* Whoever is not retired waits for its turn, or has it, below accountants *)
(* that wait for their children, of the last split of each of these.       *)
Chain(w) ==
  \A x, a \in Accountants :
    Present(w, x) /\ StrictlyBelow(x, a) =>
      /\ Waits(w, a)
      /\ x[Len(a) + 1] = w.acct[a].pq
      /\ x[Len(a) + 2] <= w.acct[a].size

(* What those in use need of the tree.                                     *)
AnswersParts(w, a) ==
  LET nd == w.tree[ParallelOf(w, a)]
  IN  /\ ParallelOf(w, a) \in Path
      /\ Live(w.tree, ParallelOf(w, a))
      /\ nd.kind = "parallel" /\ Len(nd.parts) = w.acct[a].size
      /\ \A i \in 1 .. w.acct[a].size :
           /\ nd.parts[i].kind = "sequential"
           /\ w.acct[Child(w, a, i)].state = "WAITING_FOR_SIBLING" =>
                nd.parts[i].budget = w.acct[Child(w, a, i)].budget

Usable(w) ==
  \A a \in Accountants :
    /\ InUse(w, a) => Live(w.tree, a) /\ w.tree[a].kind = "sequential"
    /\ Waits(w, a) => AnswersParts(w, a)

InTurn(w, a, i) ==
  /\ InUse(w, Child(w, a, i))
  /\ \A j \in 1 .. w.acct[a].size :
       /\ j < i => w.acct[Child(w, a, j)].state = "RETIRED"
       /\ j > i => w.acct[Child(w, a, j)].state = "WAITING_FOR_SIBLING"
  /\ w.tree[ParallelOf(w, a)].next = i + 1

Order(w) ==
  \A a \in Accountants :
    /\ Waits(w, a) => \E i \in 1 .. w.acct[a].size : InTurn(w, a, i)
    /\ ~ Waits(w, a) =>
         \A i \in 1 .. w.acct[a].size : w.acct[Child(w, a, i)].state = "RETIRED"

BudgetsWithin(w) ==
  \A a \in Accountants :
    IsOpen(w.tree, a) => Compare(w.acct[a].budget, w.tree[a].remaining)

Family(w) ==
  /\ IsWorld(w) /\ Sound(w.tree)
  /\ ChildrenNamed(w) /\ RootStarted(w) /\ CameFromSplit(w)
  /\ Chain(w) /\ Usable(w) /\ Order(w) /\ BudgetsWithin(w)

LEMMA WorldType ==
  ASSUME NEW w, IsWorld(w)
  PROVE  /\ w.tree \in [Path -> Node] /\ w.ok \in BOOLEAN
         /\ w.acct \in [Accountants -> Accountant]
         /\ \A a \in Accountants :
              /\ w.acct[a] \in Accountant
              /\ w.acct[a].pq \in Nat /\ w.acct[a].size \in 0 .. MaxFan
              /\ w.acct[a].size \in Nat
              /\ w.acct[a].budget \in Budgets /\ w.acct[a].dIn \in Dist
              /\ w.acct[a].type \in Types
<1>1. /\ w.tree \in [Path -> Node] /\ w.ok \in BOOLEAN
      /\ w.acct \in [Accountants -> Accountant]
  BY DEF IsWorld
<1>2. ASSUME NEW a \in Accountants
      PROVE  /\ w.acct[a] \in Accountant
             /\ w.acct[a].pq \in Nat /\ w.acct[a].size \in 0 .. MaxFan
             /\ w.acct[a].size \in Nat
             /\ w.acct[a].budget \in Budgets /\ w.acct[a].dIn \in Dist
             /\ w.acct[a].type \in Types
  <2>1. w.acct[a] \in Accountant
    BY <1>1
  <2>2. w.acct[a].pq \in 0 .. MaxFan /\ w.acct[a].size \in 0 .. MaxFan
    BY <2>1 DEF Accountant
  <2>3. /\ w.acct[a].budget \in Budgets /\ w.acct[a].dIn \in Dist
        /\ w.acct[a].type \in Types
    BY <2>1 DEF Accountant
  <2> QED BY <2>1, <2>2, <2>3, FanAssumption
<1> QED BY <1>1, <1>2

(* Where the child of index i of a is.                                     *)
LEMMA ChildPlace ==
  ASSUME NEW w, Family(w), NEW a \in Accountants, NEW i \in 1 .. w.acct[a].size
  PROVE  LET c == Child(w, a, i)
             p == ParallelOf(w, a)
         IN  /\ c \in Accountants /\ p \in Path /\ c = Append(p, i)
             /\ p \notin Accountants
             /\ Parent(c) = a /\ IndexInParent(c) = i /\ c # Root
             /\ Len(c) = Len(a) + 2 /\ i \in 1 .. MaxFan /\ i \in Nat
             /\ c[Len(a) + 1] = w.acct[a].pq /\ c[Len(a) + 2] = i
             /\ StrictlyBelow(c, a) /\ StrictlyBelow(c, p)
             /\ StrictlyBelow(p, a)
<1>1. Child(w, a, i) \in Accountants
  BY DEF Family, ChildrenNamed
<1>2. w.acct[a].pq \in Nat /\ i \in Nat
  BY WorldType DEF Family
<1>3. Child(w, a, i) = Append(Append(a, w.acct[a].pq), i)
  BY DEF Child, ParallelOf
<1> DEFINE c == Child(w, a, i)
           q == w.acct[a].pq
<1> HIDE DEF c, q
<1>4. IsChild(c, a, q, i)
  <2>1. c \in Accountants /\ q \in Nat /\ i \in Nat /\ c = Append(Append(a, q), i)
    BY <1>1, <1>2, <1>3 DEF c, q
  <2> QED BY <2>1, ChildNamed, Zenon
<1>5. Append(a, q) \notin Accountants
  BY <1>4, ChildIsAccountant DEF IsChild
<1>6. ParallelOf(w, a) = Append(a, q) /\ c = Append(Append(a, q), i)
  BY <1>3 DEF ParallelOf, c, q
<1> QED BY <1>1, <1>2, <1>4, <1>5, <1>6 DEF c, q, IsChild

(* Children of two accountants are two, and so are those of one.           *)
LEMMA OneParent ==
  ASSUME NEW w, Family(w), NEW a \in Accountants, NEW i \in 1 .. w.acct[a].size,
         NEW b \in Accountants, NEW j \in 1 .. w.acct[b].size,
         Child(w, a, i) = Child(w, b, j)
  PROVE  a = b /\ i = j
BY ChildPlace

(* v has the family of w with nothing but data and budgets changed.        *)
Carried(w, v) ==
  /\ \A x \in Path : IsOpen(w.tree, x) => IsOpen(v.tree, x)
  /\ \A a \in Accountants :
       /\ v.acct[a].state = w.acct[a].state
       /\ v.acct[a].pq = w.acct[a].pq /\ v.acct[a].size = w.acct[a].size
       /\ w.acct[a].state = "WAITING_FOR_SIBLING" =>
            v.acct[a].budget = w.acct[a].budget
       /\ InUse(w, a) => Live(v.tree, a) /\ v.tree[a].kind = "sequential"
       /\ Waits(w, a) =>
            /\ Live(v.tree, ParallelOf(w, a))
            /\ SameCore(w.tree[ParallelOf(w, a)], v.tree[ParallelOf(w, a)])

LEMMA CarriedFamily ==
  ASSUME NEW w, Family(w), NEW v, IsWorld(v), Sound(v.tree), Carried(w, v),
         BudgetsWithin(v)
  PROVE  Family(v)
<1>1. \A a \in Accountants :
        /\ v.acct[a].state = w.acct[a].state
        /\ v.acct[a].pq = w.acct[a].pq /\ v.acct[a].size = w.acct[a].size
        /\ Waits(v, a) <=> Waits(w, a)
        /\ InUse(v, a) <=> InUse(w, a)
        /\ Present(v, a) <=> Present(w, a)
        /\ ParallelOf(v, a) = ParallelOf(w, a)
        /\ \A i : Child(v, a, i) = Child(w, a, i)
  BY DEF Carried, Waits, InUse, Present, ParallelOf, Child
<1>2. ChildrenNamed(v)
  BY <1>1 DEF Family, ChildrenNamed
<1>3. RootStarted(v)
  <2>1. Root \in Accountants
    BY RootInPath DEF Accountants, Root
  <2> QED BY <1>1, <2>1 DEF Family, RootStarted
<1>4. CameFromSplit(v)
  <2> SUFFICES ASSUME NEW a \in Accountants, NEW q \in 1 .. MaxFan,
                      NEW i \in 1 .. MaxFan, NEW c, c = Append(Append(a, q), i),
                      c \in Accountants, v.acct[c].state # "none"
               PROVE  IsOpen(v.tree, Append(a, q))
    BY DEF CameFromSplit
  <2>1. IsOpen(w.tree, Append(a, q))
    BY <1>1 DEF Family, CameFromSplit
  <2>2. q \in Nat /\ i \in Nat
    OBVIOUS
  <2>3. IsChild(c, a, q, i)
    BY <2>2, ChildNamed, Zenon
  <2> QED BY <2>1, <2>3 DEF Carried, IsChild
<1>5. Chain(v)
  BY <1>1 DEF Family, Chain
<1>6. Usable(v)
  <2> SUFFICES ASSUME NEW a \in Accountants
               PROVE  /\ InUse(v, a) => /\ Live(v.tree, a)
                                        /\ v.tree[a].kind = "sequential"
                      /\ Waits(v, a) => AnswersParts(v, a)
    BY DEF Usable
  <2>1. InUse(v, a) => Live(v.tree, a) /\ v.tree[a].kind = "sequential"
    BY <1>1 DEF Carried
  <2>2. ASSUME Waits(v, a) PROVE AnswersParts(v, a)
    <3>1. AnswersParts(w, a) /\ Waits(w, a)
      BY <1>1, <2>2 DEF Family, Usable
    <3>2. \A i \in 1 .. w.acct[a].size :
            v.acct[Child(w, a, i)].state = "WAITING_FOR_SIBLING" =>
              v.acct[Child(w, a, i)].budget = w.acct[Child(w, a, i)].budget
      BY <1>1 DEF Family, ChildrenNamed, Carried
    <3>3. \A i \in 1 .. w.acct[a].size :
            v.acct[Child(w, a, i)].state = w.acct[Child(w, a, i)].state
      BY <1>1 DEF Family, ChildrenNamed
    <3>4. /\ Live(v.tree, ParallelOf(w, a))
          /\ SameCore(w.tree[ParallelOf(w, a)], v.tree[ParallelOf(w, a)])
      BY <3>1 DEF Carried
    <3> QED BY <1>1, <3>1, <3>2, <3>3, <3>4 DEF AnswersParts, SameCore
  <2> QED BY <2>1, <2>2
<1>7. Order(v)
  <2> SUFFICES ASSUME NEW a \in Accountants
               PROVE  /\ Waits(v, a) =>
                           \E i \in 1 .. v.acct[a].size : InTurn(v, a, i)
                      /\ ~ Waits(v, a) =>
                           \A i \in 1 .. v.acct[a].size :
                             v.acct[Child(v, a, i)].state = "RETIRED"
    BY DEF Order
  <2>1. \A i \in 1 .. w.acct[a].size :
          /\ v.acct[Child(w, a, i)].state = w.acct[Child(w, a, i)].state
          /\ InUse(v, Child(w, a, i)) <=> InUse(w, Child(w, a, i))
    BY <1>1 DEF Family, ChildrenNamed
  <2>2. ASSUME Waits(v, a)
        PROVE  \E i \in 1 .. v.acct[a].size : InTurn(v, a, i)
    <3>1. Waits(w, a)
      BY <1>1, <2>2
    <3>2. PICK i \in 1 .. w.acct[a].size : InTurn(w, a, i)
      BY <3>1 DEF Family, Order
    <3>3. v.tree[ParallelOf(w, a)].next = w.tree[ParallelOf(w, a)].next
      BY <3>1 DEF Carried, SameCore
    <3>4. InTurn(v, a, i)
      BY <1>1, <2>1, <3>2, <3>3 DEF InTurn
    <3> QED BY <1>1, <3>4
  <2>3. ~ Waits(w, a) => \A i \in 1 .. w.acct[a].size :
                           w.acct[Child(w, a, i)].state = "RETIRED"
    BY DEF Family, Order
  <2> QED BY <1>1, <2>1, <2>2, <2>3
<1> QED BY <1>2, <1>3, <1>4, <1>5, <1>6, <1>7 DEF Family

-----------------------------------------------------------------------------
(* The turn goes on *)

LEMMA RootIsAccountant == Root \in Accountants /\ Len(Root) = 0
BY RootInPath DEF Accountants, Root

(* Below an accountant that waits there are only the child whose turn it   *)
(* is, if that is ACTIVE, and those that come after it.                    *)
LEMMA BelowWaiting ==
  ASSUME NEW w, Family(w), NEW a \in Accountants, Waits(w, a),
         NEW i \in 1 .. w.acct[a].size, InTurn(w, a, i),
         w.acct[Child(w, a, i)].state = "ACTIVE",
         NEW y \in Accountants, Present(w, y), StrictlyBelow(y, a)
  PROVE  \E j \in 1 .. w.acct[a].size : y = Child(w, a, j) /\ i <= j
<1> DEFINE q == y[Len(a) + 1]
           j == y[Len(a) + 2]
           c == Child(w, a, j)
<1>1. /\ q \in 1 .. MaxFan /\ j \in 1 .. MaxFan
      /\ Append(Append(a, q), j) \in Accountants
      /\ Below(y, Append(Append(a, q), j))
  BY BelowChild
<1>2. q = w.acct[a].pq /\ j <= w.acct[a].size
  BY DEF Family, Chain
<1>3. w.acct[a].size \in Nat
  BY WorldType DEF Family
<1> HIDE DEF q, j
<1>4. /\ j \in 1 .. w.acct[a].size /\ c \in Accountants /\ Below(y, c)
      /\ j \in Nat /\ i \in Nat
  BY <1>1, <1>2, <1>3 DEF Child, ParallelOf
<1>5. ~ Waits(w, c) /\ (j < i => ~ Present(w, c))
  BY <1>4 DEF InTurn, Waits, Present
<1>6. y = c
  <2> SUFFICES ASSUME y # c PROVE FALSE
    OBVIOUS
  <2>1. StrictlyBelow(y, c)
    BY <1>4 DEF StrictlyBelow
  <2>2. Waits(w, c)
    BY <1>4, <2>1 DEF Family, Chain
  <2> QED BY <1>5, <2>2
<1>7. i <= j
  BY <1>4, <1>5, <1>6
<1> QED BY <1>4, <1>6, <1>7

(* v is w with the accountants of S in other states.                       *)
Restated(w, v, S) ==
  \A y \in Accountants :
    /\ v.acct[y].pq = w.acct[y].pq /\ v.acct[y].size = w.acct[y].size
    /\ v.acct[y].budget = w.acct[y].budget
    /\ y \notin S => v.acct[y].state = w.acct[y].state

(* The root retires.                                                       *)
LEMMA RootRetires ==
  ASSUME NEW w, Family(w), w.acct[Root].state = "ACTIVE",
         NEW v, IsWorld(v), v.tree = w.tree, Restated(w, v, {Root}),
         v.acct[Root].state = "RETIRED"
  PROVE  Family(v)
<1>1. \A a \in Accountants :
        /\ v.acct[a].pq = w.acct[a].pq /\ v.acct[a].size = w.acct[a].size
        /\ v.acct[a].budget = w.acct[a].budget
        /\ a # Root => v.acct[a].state = w.acct[a].state
        /\ Waits(v, a) <=> Waits(w, a)
        /\ InUse(v, a) => InUse(w, a)
        /\ Present(v, a) => Present(w, a)
        /\ v.acct[a].state # "none" => w.acct[a].state # "none"
        /\ ParallelOf(v, a) = ParallelOf(w, a)
        /\ \A i : Child(v, a, i) = Child(w, a, i)
  BY DEF Restated, Waits, InUse, Present, ParallelOf, Child
<1>2. \A a \in Accountants : \A i \in 1 .. w.acct[a].size :
        /\ Child(w, a, i) \in Accountants
        /\ v.acct[Child(w, a, i)].state = w.acct[Child(w, a, i)].state
        /\ v.acct[Child(w, a, i)].budget = w.acct[Child(w, a, i)].budget
        /\ InUse(v, Child(w, a, i)) <=> InUse(w, Child(w, a, i))
  BY <1>1, ChildPlace DEF InUse
<1>3. ChildrenNamed(v)
  BY <1>1, <1>2 DEF ChildrenNamed
<1>4. RootStarted(v)
  BY DEF RootStarted
<1>5. CameFromSplit(v)
  BY <1>1 DEF Family, CameFromSplit
<1>6. Chain(v)
  BY <1>1 DEF Family, Chain
<1>7. Usable(v)
  <2> SUFFICES ASSUME NEW a \in Accountants
               PROVE  /\ InUse(v, a) => /\ Live(v.tree, a)
                                        /\ v.tree[a].kind = "sequential"
                      /\ Waits(v, a) => AnswersParts(v, a)
    BY DEF Usable
  <2>1. InUse(v, a) => Live(v.tree, a) /\ v.tree[a].kind = "sequential"
    BY <1>1 DEF Family, Usable
  <2>2. Waits(v, a) => AnswersParts(w, a)
    BY <1>1 DEF Family, Usable
  <2>3. AnswersParts(w, a) => AnswersParts(v, a)
    BY <1>1, <1>2 DEF AnswersParts
  <2> QED BY <2>1, <2>2, <2>3
<1>8. Order(v)
  <2> SUFFICES ASSUME NEW a \in Accountants
               PROVE  /\ Waits(v, a) =>
                           \E i \in 1 .. v.acct[a].size : InTurn(v, a, i)
                      /\ ~ Waits(v, a) =>
                           \A i \in 1 .. v.acct[a].size :
                             v.acct[Child(v, a, i)].state = "RETIRED"
    BY DEF Order
  <2>1. ASSUME NEW i \in 1 .. w.acct[a].size, InTurn(w, a, i)
        PROVE  InTurn(v, a, i)
    BY <1>1, <1>2, <2>1 DEF InTurn
  <2>2. Waits(w, a) => \E i \in 1 .. w.acct[a].size : InTurn(w, a, i)
    BY DEF Family, Order
  <2>3. ~ Waits(w, a) => \A i \in 1 .. w.acct[a].size :
                           w.acct[Child(w, a, i)].state = "RETIRED"
    BY DEF Family, Order
  <2> QED BY <1>1, <1>2, <2>1, <2>2, <2>3
<1>9. BudgetsWithin(v)
  BY <1>1 DEF Family, BudgetsWithin
<1> QED BY <1>3, <1>4, <1>5, <1>6, <1>7, <1>8, <1>9 DEF Family

(* The last child retires, and it is its parent's turn.                    *)
LEMMA LastRetires ==
  ASSUME NEW w, Family(w), NEW a \in Accountants, Waits(w, a),
         NEW n, n = w.acct[a].size, n \in 1 .. w.acct[a].size,
         InTurn(w, a, n), NEW x, x = Child(w, a, n),
         w.acct[x].state = "ACTIVE",
         NEW v, IsWorld(v), v.tree = w.tree, Restated(w, v, {x, a}),
         v.acct[x].state = "RETIRED", v.acct[a].state = "ACTIVE"
  PROVE  Family(v)
<1>0. x \in Accountants /\ x # a /\ x # Root
  BY ChildPlace DEF StrictlyBelow
<1>1. \A b \in Accountants :
        /\ v.acct[b].pq = w.acct[b].pq /\ v.acct[b].size = w.acct[b].size
        /\ v.acct[b].budget = w.acct[b].budget
        /\ b \notin {x, a} => v.acct[b].state = w.acct[b].state
        /\ Waits(v, b) <=> Waits(w, b) /\ b # a
        /\ InUse(v, b) => InUse(w, b)
        /\ Present(v, b) => Present(w, b) /\ b # x
        /\ v.acct[b].state # "none" => w.acct[b].state # "none"
        /\ v.acct[b].state = "WAITING_FOR_SIBLING" =>
             w.acct[b].state = "WAITING_FOR_SIBLING"
        /\ ParallelOf(v, b) = ParallelOf(w, b)
        /\ \A i : Child(v, b, i) = Child(w, b, i)
  BY <1>0 DEF Restated, Waits, InUse, Present, ParallelOf, Child
<1>2. \A b \in Accountants : \A i \in 1 .. w.acct[b].size :
        /\ Child(w, b, i) \in Accountants
        /\ v.acct[Child(w, b, i)].budget = w.acct[Child(w, b, i)].budget
        /\ v.acct[Child(w, b, i)].state = "WAITING_FOR_SIBLING" =>
             w.acct[Child(w, b, i)].state = "WAITING_FOR_SIBLING"
  BY <1>1, ChildPlace
<1>3. ChildrenNamed(v)
  BY <1>1, <1>2 DEF ChildrenNamed
<1>4. RootStarted(v)
  BY <1>0, <1>1, RootIsAccountant DEF Family, RootStarted
<1>5. CameFromSplit(v)
  BY <1>1 DEF Family, CameFromSplit
<1>6. Chain(v)
  <2> SUFFICES ASSUME NEW y \in Accountants, NEW b \in Accountants,
                      Present(v, y), StrictlyBelow(y, b)
               PROVE  /\ Waits(v, b)
                      /\ y[Len(b) + 1] = v.acct[b].pq
                      /\ y[Len(b) + 2] <= v.acct[b].size
    BY DEF Chain
  <2>1. Present(w, y) /\ y # x
    BY <1>1
  <2>2. b # a
    <3> SUFFICES ASSUME b = a PROVE FALSE
      OBVIOUS
    <3>1. PICK j \in 1 .. w.acct[a].size : y = Child(w, a, j) /\ n <= j
      BY <2>1, BelowWaiting
    <3>2. w.acct[a].size \in Nat
      BY WorldType DEF Family
    <3>3. j = n
      BY <3>1, <3>2
    <3> QED BY <2>1, <3>1, <3>3
  <2> QED BY <1>1, <2>1, <2>2 DEF Family, Chain
<1>7. Usable(v)
  <2> SUFFICES ASSUME NEW b \in Accountants
               PROVE  /\ InUse(v, b) => /\ Live(v.tree, b)
                                        /\ v.tree[b].kind = "sequential"
                      /\ Waits(v, b) => AnswersParts(v, b)
    BY DEF Usable
  <2>1. InUse(v, b) => Live(v.tree, b) /\ v.tree[b].kind = "sequential"
    BY <1>1 DEF Family, Usable
  <2>2. Waits(v, b) => AnswersParts(w, b)
    BY <1>1 DEF Family, Usable
  <2>3. AnswersParts(w, b) => AnswersParts(v, b)
    BY <1>1, <1>2 DEF AnswersParts
  <2> QED BY <2>1, <2>2, <2>3
<1>8. Order(v)
  <2> SUFFICES ASSUME NEW b \in Accountants
               PROVE  /\ Waits(v, b) =>
                           \E i \in 1 .. v.acct[b].size : InTurn(v, b, i)
                      /\ ~ Waits(v, b) =>
                           \A i \in 1 .. v.acct[b].size :
                             v.acct[Child(v, b, i)].state = "RETIRED"
    BY DEF Order
  <2>1. CASE b = a
    <3>1. ASSUME NEW i \in 1 .. w.acct[a].size
          PROVE  v.acct[Child(w, a, i)].state = "RETIRED"
      <4>1. CASE i = n
        BY <4>1
      <4>2. CASE i # n
        <5>1. i < n /\ Child(w, a, i) \notin {x, a}
          BY <4>2, OneParent, ChildPlace, WorldType DEF Family, StrictlyBelow
        <5>2. w.acct[Child(w, a, i)].state = "RETIRED"
          BY <5>1 DEF InTurn
        <5> QED BY <1>1, <1>2, <5>1, <5>2
      <4> QED BY <4>1, <4>2
    <3> QED BY <1>1, <2>1, <3>1
  <2>2. CASE b # a
    <3>1. ASSUME NEW i \in 1 .. w.acct[b].size
          PROVE  Child(w, b, i) # x
      BY <2>2, OneParent
    <3>2. ASSUME ~ Waits(w, b), NEW i \in 1 .. w.acct[b].size
          PROVE  v.acct[Child(w, b, i)].state = "RETIRED"
      <4>1. w.acct[Child(w, b, i)].state = "RETIRED"
        BY <3>2 DEF Family, Order
      <4>2. Child(w, b, i) # a
        BY <4>1 DEF Waits
      <4> QED BY <1>1, <1>2, <3>1, <4>1, <4>2
    <3>3. ASSUME Waits(w, b), NEW i \in 1 .. w.acct[b].size, InTurn(w, b, i)
          PROVE  InTurn(v, b, i)
      <4>1. \A j \in 1 .. w.acct[b].size :
              /\ j < i => v.acct[Child(w, b, j)].state = "RETIRED"
              /\ j > i => v.acct[Child(w, b, j)].state = "WAITING_FOR_SIBLING"
        <5> TAKE j \in 1 .. w.acct[b].size
        <5>1. CASE Child(w, b, j) = a
          <6>1. ~ (j < i) /\ ~ (j > i)
            BY <3>3, <5>1 DEF InTurn, Waits
          <6> QED BY <6>1
        <5>2. CASE Child(w, b, j) # a
          <6>1. v.acct[Child(w, b, j)].state = w.acct[Child(w, b, j)].state
            BY <1>1, <1>2, <3>1, <5>2
          <6> QED BY <3>3, <6>1 DEF InTurn
        <5> QED BY <5>1, <5>2
      <4>2. InUse(v, Child(w, b, i))
        <5>1. InUse(w, Child(w, b, i))
          BY <3>3 DEF InTurn
        <5>2. CASE Child(w, b, i) = a
          BY <5>2 DEF InUse
        <5>3. CASE Child(w, b, i) # a
          BY <1>1, <1>2, <3>1, <5>1, <5>3 DEF InUse
        <5> QED BY <5>2, <5>3
      <4>3. v.tree[ParallelOf(w, b)].next = i + 1
        BY <3>3 DEF InTurn
      <4> QED BY <1>1, <4>1, <4>2, <4>3 DEF InTurn
    <3>4. Waits(w, b) => \E i \in 1 .. w.acct[b].size : InTurn(w, b, i)
      BY DEF Family, Order
    <3> QED BY <1>1, <2>2, <3>2, <3>3, <3>4
  <2> QED BY <2>1, <2>2
<1>9. BudgetsWithin(v)
  BY <1>1 DEF Family, BudgetsWithin
<1> QED BY <1>3, <1>4, <1>5, <1>6, <1>7, <1>8, <1>9 DEF Family

(* An IndexQuery of an accountant a whose children have the turn leaves    *)
(* what the other accountants need of the tree.                            *)
LEMMA OthersUsable ==
  ASSUME NEW w, Family(w), NEW a \in Accountants, Waits(w, a),
         NEW i \in 1 .. w.acct[a].size, InTurn(w, a, i),
         w.acct[Child(w, a, i)].state = "ACTIVE", NEW u, NEW c \in Accountants,
         LiveSet(u) = {y \in LiveSet(w.tree) : ~ StrictlyBelow(y, ParallelOf(w, a))}
                        \union {c},
         \A y \in Path \ {ParallelOf(w, a), c} : SameCore(w.tree[y], u[y]),
         NEW b \in Accountants, b # c
  PROVE  /\ InUse(w, b) /\ b # Child(w, a, i) =>
              Live(u, b) /\ u[b].kind = "sequential"
         /\ Waits(w, b) /\ b # a =>
              /\ Live(u, ParallelOf(w, b))
              /\ SameCore(w.tree[ParallelOf(w, b)], u[ParallelOf(w, b)])
<1> DEFINE p == ParallelOf(w, a)
           r == ParallelOf(w, b)
<1>1. /\ p \in Path /\ p \notin Accountants /\ a \in Path /\ b \in Path
      /\ StrictlyBelow(p, a) /\ a # p
  BY ChildPlace DEF Accountants, StrictlyBelow
<1>2. ASSUME NEW y \in Accountants, InUse(w, y), StrictlyBelow(y, p)
      PROVE  y = Child(w, a, i)
  <2>1. y \in Path /\ Below(y, p)
    BY <1>2 DEF Accountants, StrictlyBelow
  <2>2. StrictlyBelow(y, a)
    BY <1>1, <2>1, BelowStrictlyBelow
  <2>3. Present(w, y)
    BY <1>2 DEF InUse, Present
  <2>4. PICK j \in 1 .. w.acct[a].size : y = Child(w, a, j) /\ i <= j
    BY <2>2, <2>3, BelowWaiting
  <2>5. ~ (i < j)
    BY <1>2, <2>4 DEF InTurn, InUse
  <2>6. i = j
    BY <2>4, <2>5
  <2> QED BY <2>4, <2>6
<1>3. ASSUME InUse(w, b), b # Child(w, a, i)
      PROVE  Live(u, b) /\ u[b].kind = "sequential"
  <2>1. Live(w.tree, b) /\ w.tree[b].kind = "sequential"
    BY <1>3 DEF Family, Usable
  <2>2. ~ StrictlyBelow(b, p)
    BY <1>2, <1>3
  <2>3. b \in LiveSet(u)
    BY <1>1, <2>1, <2>2 DEF LiveSet
  <2>4. SameCore(w.tree[b], u[b])
    BY <1>1
  <2> QED BY <2>1, <2>3, <2>4 DEF LiveSet, SameCore
<1>4. ASSUME Waits(w, b), b # a
      PROVE  Live(u, r) /\ SameCore(w.tree[r], u[r])
  <2>1. r \in Path /\ Live(w.tree, r)
    BY <1>4 DEF Family, Usable, AnswersParts
  <2>2. r # p /\ r \notin Accountants
    <3>1. r = Append(b, w.acct[b].pq) /\ p = Append(a, w.acct[a].pq)
      BY DEF ParallelOf
    <3> QED BY <1>1, <1>4, <2>1, <3>1, AnswerOfOne, ChildIsAccountant
  <2>3. ~ StrictlyBelow(r, p)
    <3> SUFFICES ASSUME StrictlyBelow(r, p) PROVE FALSE
      OBVIOUS
    <3>1. Below(r, p) /\ r = Append(b, w.acct[b].pq)
      BY DEF StrictlyBelow, ParallelOf
    <3>2. p = r \/ Below(b, p)
      BY <1>1, <2>1, <3>1, AboveAnswer
    <3>3. StrictlyBelow(b, p)
      BY <1>1, <2>2, <3>2 DEF StrictlyBelow
    <3>4. b = Child(w, a, i)
      BY <1>2, <1>4, <3>3 DEF InUse, Waits
    <3> QED BY <1>4, <3>4 DEF Waits
  <2>4. r \in LiveSet(u)
    BY <2>1, <2>3 DEF LiveSet
  <2>5. SameCore(w.tree[r], u[r])
    BY <2>1, <2>2
  <2> QED BY <2>4, <2>5 DEF LiveSet
<1> QED BY <1>3, <1>4

(* A child retires, and it is the turn of the next one.                    *)
LEMMA NextInTurn ==
  ASSUME NEW w, Family(w), NEW a \in Accountants, Waits(w, a),
         NEW i \in 1 .. w.acct[a].size, InTurn(w, a, i),
         NEW x, x = Child(w, a, i), w.acct[x].state = "ACTIVE",
         i + 1 \in 1 .. w.acct[a].size, NEW c, c = Child(w, a, i + 1),
         NEW v, IsWorld(v), v.tree = Indexed(w.tree, ParallelOf(w, a), FALSE),
         Restated(w, v, {x, c}),
         v.acct[x].state = "RETIRED", v.acct[c].state = "ACTIVE"
  PROVE  Family(v)
<1> DEFINE p == ParallelOf(w, a)
           tr == w.tree
           u == v.tree
<1>0. /\ x \in Accountants /\ c \in Accountants /\ x # c /\ x # a /\ c # a
      /\ x # Root /\ c # Root /\ i \in Nat
  <2>1. x \in Accountants /\ c \in Accountants /\ x # a /\ c # a
        /\ x # Root /\ c # Root /\ i \in Nat
    BY ChildPlace DEF StrictlyBelow
  <2>2. x # c
    BY <2>1, OneParent
  <2> QED BY <2>1, <2>2
<1>1. /\ p \in Path /\ p \notin Accountants /\ c = Append(p, i + 1)
      /\ c \in Path
  BY <1>0, ChildPlace DEF Accountants
<1>2. /\ Live(tr, p) /\ tr[p].kind = "parallel" /\ tr[p].next = i + 1
      /\ Len(tr[p].parts) = w.acct[a].size
      /\ \A k \in 1 .. w.acct[a].size :
           /\ tr[p].parts[k].kind = "sequential"
           /\ w.acct[Child(w, a, k)].state = "WAITING_FOR_SIBLING" =>
                tr[p].parts[k].budget = w.acct[Child(w, a, k)].budget
  BY DEF Family, Usable, AnswersParts, InTurn
<1>3. w.acct[c].state = "WAITING_FOR_SIBLING" /\ w.acct[a].size \in Nat
  <2>1. i + 1 > i /\ w.acct[a].size \in Nat
    BY WorldType DEF Family
  <2> QED BY <2>1 DEF InTurn
<1>4. /\ Sound(u)
      /\ OpenSet(u) = OpenSet(tr) \union {c}
      /\ LiveSet(u) = {y \in LiveSet(tr) : ~ StrictlyBelow(y, p)} \union {c}
      /\ u[c].kind = "sequential"
      /\ u[c].remaining = w.acct[c].budget
      /\ \A y \in Path \ {p, c} : SameCore(tr[y], u[y])
      /\ u[p].kind = "parallel" /\ u[p].parts = tr[p].parts
      /\ u[p].next = i + 2
  <2>1. tr[p].next <= Len(tr[p].parts) /\ Append(p, tr[p].next) = c
    BY <1>0, <1>1, <1>2, <1>3
  <2>2. Sound(tr)
    BY DEF Family
  <2> DEFINE part == tr[p].parts[tr[p].next]
  <2>3. part.kind = "sequential" /\ part.budget = w.acct[c].budget
    BY <1>2, <1>3
  <2>4. u = Indexed(tr, p, FALSE)
    OBVIOUS
  <2> HIDE DEF part, u, tr, p
  <2> DEFINE d == Append(p, tr[p].next)
             t == Indexed(tr, p, FALSE)
  <2>5. /\ Sound(t)
        /\ OpenSet(t) = OpenSet(tr) \union {d}
        /\ LiveSet(t) = {y \in LiveSet(tr) : ~ StrictlyBelow(y, p)} \union {d}
        /\ t[d].kind = part.kind
        /\ part.kind = "sequential" => t[d].remaining = part.budget
        /\ \A y \in Path \ {p, d} : SameCore(tr[y], t[y])
        /\ t[p].kind = tr[p].kind /\ t[p].parts = tr[p].parts
        /\ t[p].next = tr[p].next + 1
    BY <1>1, <1>2, <2>1, <2>2, IndexedTree DEF part
  <2>6. d = c
    BY <2>1
  <2> HIDE DEF d, t
  <2>7. (i + 1) + 1 = i + 2
    BY <1>0
  <2>8. t = u
    BY <2>4 DEF t
  <2> QED BY <1>2, <2>3, <2>5, <2>6, <2>7, <2>8
<1> HIDE DEF p, u, tr
<1>5. \A b \in Accountants :
        /\ v.acct[b].pq = w.acct[b].pq /\ v.acct[b].size = w.acct[b].size
        /\ v.acct[b].budget = w.acct[b].budget
        /\ b \notin {x, c} => v.acct[b].state = w.acct[b].state
        /\ Waits(v, b) <=> Waits(w, b)
        /\ InUse(v, b) => b = c \/ (InUse(w, b) /\ b # x)
        /\ Present(v, b) => Present(w, b)
        /\ v.acct[b].state # "none" => w.acct[b].state # "none"
        /\ v.acct[b].state = "WAITING_FOR_SIBLING" =>
             w.acct[b].state = "WAITING_FOR_SIBLING"
        /\ ParallelOf(v, b) = ParallelOf(w, b)
        /\ \A k : Child(v, b, k) = Child(w, b, k)
  BY <1>0, <1>3 DEF Restated, Waits, InUse, Present, ParallelOf, Child
<1>6. \A b \in Accountants : \A k \in 1 .. w.acct[b].size :
        /\ Child(w, b, k) \in Accountants
        /\ v.acct[Child(w, b, k)].budget = w.acct[Child(w, b, k)].budget
        /\ v.acct[Child(w, b, k)].state = "WAITING_FOR_SIBLING" =>
             w.acct[Child(w, b, k)].state = "WAITING_FOR_SIBLING"
  BY <1>5, ChildPlace
<1>7. \A b \in Accountants :
        /\ InUse(v, b) => Live(u, b) /\ u[b].kind = "sequential"
        /\ Waits(v, b) /\ b # a => /\ Live(u, ParallelOf(w, b))
                                   /\ SameCore(tr[ParallelOf(w, b)], u[ParallelOf(w, b)])
  <2> TAKE b \in Accountants
  <2>1. CASE b = c
    BY <1>1, <1>3, <1>4, <1>5, <2>1 DEF LiveSet, Waits
  <2>2. CASE b # c
    <3>1. /\ InUse(w, b) /\ b # x => Live(u, b) /\ u[b].kind = "sequential"
          /\ Waits(w, b) /\ b # a =>
               /\ Live(u, ParallelOf(w, b))
               /\ SameCore(tr[ParallelOf(w, b)], u[ParallelOf(w, b)])
      BY <1>0, <1>4, <2>2, OthersUsable DEF p, tr
    <3> QED BY <1>5, <2>2, <3>1
  <2> QED BY <2>1, <2>2
<1>8. ChildrenNamed(v)
  BY <1>5, <1>6 DEF ChildrenNamed
<1>9. RootStarted(v)
  BY <1>0, <1>5, RootIsAccountant DEF Family, RootStarted
<1>10. CameFromSplit(v)
  <2> SUFFICES ASSUME NEW b \in Accountants, NEW q \in 1 .. MaxFan,
                      NEW k \in 1 .. MaxFan, NEW y, y = Append(Append(b, q), k),
                      y \in Accountants, v.acct[y].state # "none"
               PROVE  IsOpen(u, Append(b, q))
    BY DEF CameFromSplit, u
  <2>1. IsOpen(tr, Append(b, q))
    BY <1>5 DEF Family, CameFromSplit, tr
  <2>2. q \in Nat /\ k \in Nat
    OBVIOUS
  <2>3. IsChild(y, b, q, k)
    BY <2>2, ChildNamed, Zenon
  <2> QED BY <1>4, <2>1, <2>3 DEF IsChild, OpenSet
<1>11. Chain(v)
  BY <1>5 DEF Family, Chain
<1>12. Usable(v)
  <2> SUFFICES ASSUME NEW b \in Accountants, Waits(v, b)
               PROVE  AnswersParts(v, b)
    BY <1>7 DEF Usable, u
  <2>1. AnswersParts(w, b)
    BY <1>5 DEF Family, Usable
  <2>2. Live(u, ParallelOf(w, b)) /\ u[ParallelOf(w, b)].kind = "parallel"
        /\ u[ParallelOf(w, b)].parts = tr[ParallelOf(w, b)].parts
    <3>1. CASE b = a
      <4>1. ~ StrictlyBelow(p, p)
        BY DEF StrictlyBelow
      <4>2. Live(u, p)
        BY <1>1, <1>2, <1>4, <4>1 DEF LiveSet
      <4> QED BY <1>4, <3>1, <4>2 DEF p
    <3>2. CASE b # a
      BY <1>7, <2>1, <3>2 DEF SameCore, AnswersParts, tr
    <3> QED BY <3>1, <3>2
  <2>3. /\ ParallelOf(v, b) = ParallelOf(w, b)
        /\ v.acct[b].size = w.acct[b].size
        /\ \A k : Child(v, b, k) = Child(w, b, k)
    BY <1>5
  <2>4. \A k \in 1 .. w.acct[b].size :
          /\ v.acct[Child(w, b, k)].budget = w.acct[Child(w, b, k)].budget
          /\ v.acct[Child(w, b, k)].state = "WAITING_FOR_SIBLING" =>
               w.acct[Child(w, b, k)].state = "WAITING_FOR_SIBLING"
    BY <1>6
  <2> DEFINE r == ParallelOf(w, b)
  <2>5. /\ r \in Path /\ Len(tr[r].parts) = w.acct[b].size
        /\ \A k \in 1 .. w.acct[b].size :
             /\ tr[r].parts[k].kind = "sequential"
             /\ w.acct[Child(w, b, k)].state = "WAITING_FOR_SIBLING" =>
                  tr[r].parts[k].budget = w.acct[Child(w, b, k)].budget
    BY <2>1 DEF AnswersParts, tr
  <2>6. /\ Len(u[r].parts) = v.acct[b].size
        /\ \A k \in 1 .. v.acct[b].size :
             /\ u[r].parts[k].kind = "sequential"
             /\ v.acct[Child(v, b, k)].state = "WAITING_FOR_SIBLING" =>
                  u[r].parts[k].budget = v.acct[Child(v, b, k)].budget
    BY <2>2, <2>3, <2>4, <2>5
  <2> HIDE DEF r
  <2>7. ParallelOf(v, b) = r
    BY <2>3 DEF r
  <2> QED BY <2>2, <2>5, <2>6, <2>7 DEF AnswersParts, u, r
<1>13. Order(v)
  <2> SUFFICES ASSUME NEW b \in Accountants
               PROVE  /\ Waits(v, b) =>
                           \E k \in 1 .. v.acct[b].size : InTurn(v, b, k)
                      /\ ~ Waits(v, b) =>
                           \A k \in 1 .. v.acct[b].size :
                             v.acct[Child(v, b, k)].state = "RETIRED"
    BY DEF Order
  <2>1. CASE b = a
    <3>1. \A j \in 1 .. w.acct[a].size :
            /\ j < i + 1 => v.acct[Child(w, a, j)].state = "RETIRED"
            /\ j > i + 1 => v.acct[Child(w, a, j)].state = "WAITING_FOR_SIBLING"
      <4> TAKE j \in 1 .. w.acct[a].size
      <4>1. CASE j = i
        BY <1>0, <4>1
      <4>2. CASE j = i + 1
        BY <1>0, <4>2
      <4>3. CASE j # i /\ j # i + 1
        <5>1. Child(w, a, j) \notin {x, c}
          BY <4>3, OneParent
        <5>2. v.acct[Child(w, a, j)].state = w.acct[Child(w, a, j)].state
          BY <1>5, <1>6, <5>1
        <5>3. /\ j < i + 1 => j < i
              /\ j > i + 1 => j > i
          BY <1>0, <4>3
        <5> QED BY <5>2, <5>3 DEF InTurn
      <4> QED BY <4>1, <4>2, <4>3
    <3>2. InUse(v, Child(w, a, i + 1))
      BY DEF InUse
    <3>3. u[p].next = (i + 1) + 1
      BY <1>0, <1>4
    <3>4. /\ ParallelOf(v, a) = p /\ v.acct[a].size = w.acct[a].size
          /\ \A k : Child(v, a, k) = Child(w, a, k)
          /\ Waits(v, a)
      BY <1>5 DEF p
    <3>5. InTurn(v, a, i + 1)
      BY <3>1, <3>2, <3>3, <3>4 DEF InTurn, u
    <3> QED BY <2>1, <3>4, <3>5
  <2>2. CASE b # a
    <3>1. ASSUME NEW k \in 1 .. w.acct[b].size
          PROVE  /\ Child(w, b, k) \notin {x, c}
                 /\ v.acct[Child(w, b, k)].state = w.acct[Child(w, b, k)].state
                 /\ InUse(v, Child(w, b, k)) <=> InUse(w, Child(w, b, k))
      <4>1. Child(w, b, k) \notin {x, c}
        BY <2>2, OneParent
      <4>2. v.acct[Child(w, b, k)].state = w.acct[Child(w, b, k)].state
        BY <1>5, <1>6, <4>1
      <4> QED BY <4>1, <4>2 DEF InUse
    <3>2. ASSUME Waits(w, b), NEW k \in 1 .. w.acct[b].size, InTurn(w, b, k)
          PROVE  InTurn(v, b, k)
      <4>1. u[ParallelOf(w, b)].next = k + 1
        BY <1>5, <1>7, <2>2, <3>2 DEF InTurn, SameCore, tr
      <4>2. /\ ParallelOf(v, b) = ParallelOf(w, b)
            /\ v.acct[b].size = w.acct[b].size
            /\ \A j : Child(v, b, j) = Child(w, b, j)
        BY <1>5
      <4>3. \A j \in 1 .. w.acct[b].size :
              /\ j < k => w.acct[Child(w, b, j)].state = "RETIRED"
              /\ j > k => w.acct[Child(w, b, j)].state = "WAITING_FOR_SIBLING"
        BY <3>2 DEF InTurn
      <4>4. InUse(v, Child(w, b, k))
        BY <3>1, <3>2 DEF InTurn
      <4> QED BY <3>1, <4>1, <4>2, <4>3, <4>4 DEF InTurn, u
    <3>3. Waits(w, b) => \E k \in 1 .. w.acct[b].size : InTurn(w, b, k)
      BY DEF Family, Order
    <3>4. ~ Waits(w, b) => \A k \in 1 .. w.acct[b].size :
                             w.acct[Child(w, b, k)].state = "RETIRED"
      BY DEF Family, Order
    <3> QED BY <1>5, <3>1, <3>2, <3>3, <3>4
  <2> QED BY <2>1, <2>2
<1>14. BudgetsWithin(v)
  <2> SUFFICES ASSUME NEW b \in Accountants, IsOpen(u, b)
               PROVE  Compare(v.acct[b].budget, u[b].remaining)
    BY DEF BudgetsWithin, u
  <2>1. CASE b = c
    <3>1. w.acct[c].budget \in Budgets
      BY <1>0, WorldType DEF Family
    <3> QED BY <1>0, <1>4, <1>5, <2>1, <3>1, CompareReflexive
  <2>2. CASE b # c
    <3>1. b \in Path /\ b # p
      BY <1>1 DEF Accountants
    <3>2. IsOpen(tr, b) /\ SameCore(tr[b], u[b])
      BY <1>4, <2>2, <3>1 DEF OpenSet
    <3>3. Compare(w.acct[b].budget, tr[b].remaining)
      BY <3>2 DEF Family, BudgetsWithin, tr
    <3> QED BY <1>5, <3>2, <3>3 DEF SameCore
  <2> QED BY <2>1, <2>2
<1> QED BY <1>4, <1>8, <1>9, <1>10, <1>11, <1>12, <1>13, <1>14 DEF Family, u

-----------------------------------------------------------------------------
(* Worlds that differ in one accountant *)

LEMMA SetAccount ==
  ASSUME NEW w, IsWorld(w), NEW a \in Accountants, NEW r \in Accountant
  PROVE  LET v == [w EXCEPT !.acct[a] = r]
         IN  /\ IsWorld(v) /\ v.tree = w.tree /\ v.ok = w.ok
             /\ v.acct[a] = r
             /\ \A b \in Accountants : b # a => v.acct[b] = w.acct[b]
BY DEF IsWorld

(* What an accountant shows, and what is queued on it.                      *)
SameNotes(r, new) ==
  /\ new.type = r.type /\ new.dIn = r.dIn /\ new.pending = r.pending
  /\ new.budget = r.budget

States == {"none", "ACTIVE", "WAITING_FOR_SIBLING", "WAITING_FOR_CHILDREN",
           "RETIRED"}

LEMMA SetState ==
  ASSUME NEW w, IsWorld(w), NEW a \in Accountants, NEW s \in States
  PROVE  LET v == [w EXCEPT !.acct[a].state = s]
         IN  /\ IsWorld(v) /\ v.tree = w.tree /\ v.ok = w.ok
             /\ v.acct[a].state = s
             /\ Restated(w, v, {a})
             /\ \A b \in Accountants : b # a => v.acct[b] = w.acct[b]
             /\ SameNotes(w.acct[a], v.acct[a])
<1> DEFINE r == [w.acct[a] EXCEPT !.state = s]
           v == [w EXCEPT !.acct[a] = r]
<1>1. w.acct[a] \in Accountant
  BY WorldType
<1>2. /\ r \in Accountant /\ r.state = s /\ r.pq = w.acct[a].pq
      /\ r.size = w.acct[a].size /\ r.budget = w.acct[a].budget
      /\ SameNotes(w.acct[a], r)
  BY <1>1 DEF Accountant, States, SameNotes
<1>3. v = [w EXCEPT !.acct[a].state = s]
  BY DEF IsWorld
<1> HIDE DEF r
<1>4. /\ IsWorld(v) /\ v.tree = w.tree /\ v.ok = w.ok /\ v.acct[a] = r
      /\ \A b \in Accountants : b # a => v.acct[b] = w.acct[b]
  BY <1>2, SetAccount
<1> HIDE DEF v
<1>5. Restated(w, v, {a})
  BY <1>2, <1>4 DEF Restated
<1> QED BY <1>2, <1>3, <1>4, <1>5

(* v is w with the state of one accountant set to s.                       *)
InState(w, v, a, s) ==
  /\ IsWorld(v) /\ v.tree = w.tree /\ v.ok = w.ok
  /\ v.acct[a].state = s
  /\ Restated(w, v, {a})
  /\ \A y \in Accountants : y # a => v.acct[y] = w.acct[y]
  /\ SameNotes(w.acct[a], v.acct[a])

LEMMA StateSet ==
  ASSUME NEW w, IsWorld(w), NEW a \in Accountants, NEW s \in States,
         NEW v, v = [w EXCEPT !.acct[a].state = s]
  PROVE  InState(w, v, a, s)
<1> DEFINE z == [w EXCEPT !.acct[a].state = s]
<1>1. /\ IsWorld(z) /\ z.tree = w.tree /\ z.ok = w.ok
      /\ z.acct[a].state = s
      /\ Restated(w, z, {a})
      /\ \A y \in Accountants : y # a => z.acct[y] = w.acct[y]
      /\ SameNotes(w.acct[a], z.acct[a])
  BY SetState
<1>2. v = z
  OBVIOUS
<1> HIDE DEF z
<1> QED BY <1>1, <1>2 DEF InState

LEMMA SetPending ==
  ASSUME NEW w, IsWorld(w), NEW a \in Accountants,
         NEW q \in {None} \union Seq(Queued)
  PROVE  LET v == [w EXCEPT !.acct[a].pending = q]
         IN  /\ IsWorld(v) /\ v.tree = w.tree /\ v.ok = w.ok
             /\ Restated(w, v, {})
             /\ \A b \in Accountants : b # a => v.acct[b] = w.acct[b]
<1> DEFINE r == [w.acct[a] EXCEPT !.pending = q]
           v == [w EXCEPT !.acct[a] = r]
<1>1. w.acct[a] \in Accountant
  BY WorldType
<1>2. /\ r \in Accountant /\ r.state = w.acct[a].state /\ r.pq = w.acct[a].pq
      /\ r.size = w.acct[a].size /\ r.budget = w.acct[a].budget
  BY <1>1 DEF Accountant
<1>3. v = [w EXCEPT !.acct[a].pending = q]
  BY DEF IsWorld
<1> HIDE DEF r
<1>4. /\ IsWorld(v) /\ v.tree = w.tree /\ v.ok = w.ok /\ v.acct[a] = r
      /\ \A b \in Accountants : b # a => v.acct[b] = w.acct[b]
  BY <1>2, SetAccount
<1> HIDE DEF v
<1>5. Restated(w, v, {})
  BY <1>2, <1>4 DEF Restated
<1> QED BY <1>3, <1>4, <1>5

(* What an accountant notes for itself is no business of the family.       *)
LEMMA Annotated ==
  ASSUME NEW w, Family(w), NEW v, IsWorld(v), v.tree = w.tree,
         Restated(w, v, {})
  PROVE  Family(v) /\ Carried(w, v)
<1>1. \A a \in Accountants :
        /\ InUse(w, a) => Live(w.tree, a) /\ w.tree[a].kind = "sequential"
        /\ Waits(w, a) => Live(w.tree, ParallelOf(w, a))
  BY DEF Family, Usable, AnswersParts
<1>2. \A x : SameCore(x, x)
  BY DEF SameCore
<1>3. Carried(w, v)
  BY <1>1, <1>2 DEF Carried, Restated
<1>4. BudgetsWithin(v)
  BY DEF Family, BudgetsWithin, Restated
<1>5. Sound(v.tree)
  BY DEF Family
<1> QED BY <1>3, <1>4, <1>5, CarriedFamily

LEMMA SameWorld ==
  ASSUME NEW w, Family(w)
  PROVE  Restated(w, w, {}) /\ Carried(w, w)
<1>1. Restated(w, w, {})
  BY DEF Restated
<1> QED BY <1>1, Annotated DEF Family

LEMMA RaisedFamily ==
  ASSUME NEW w, Family(w)
  PROVE  /\ Family(Raised(w)) /\ Carried(w, Raised(w))
         /\ Raised(w).acct = w.acct /\ Raised(w).tree = w.tree
         /\ Raised(w).ok = FALSE
<1> DEFINE v == Raised(w)
<1>1. /\ IsWorld(v) /\ v.acct = w.acct /\ v.tree = w.tree /\ v.ok = FALSE
  BY DEF Family, IsWorld, Raised
<1> HIDE DEF v
<1>2. Restated(w, v, {})
  BY <1>1 DEF Restated
<1>3. Family(v) /\ Carried(w, v)
  BY <1>1, <1>2, Annotated
<1> QED BY <1>1, <1>3 DEF v

-----------------------------------------------------------------------------
(* What is submitted to the queryables *)

LEMMA SubmittedTransformation ==
  ASSUME NEW w, Family(w), NEW a \in Accountants, InUse(w, a),
         NEW t \in Transformation, Monotone(t), NEW hint \in Dist \union {None}
  PROVE  LET v == SubmitTransformation(w, a, t, hint)
         IN  Family(v) /\ Carried(w, v) /\ v.acct = w.acct
<1> DEFINE v == SubmitTransformation(w, a, t, hint)
           u == Transformed(w.tree, a, t, hint)
           known == Stabilities(w.tree[a].dIn, t, hint) # {}
<1>1. CASE ~ Live(w.tree, a) \/ t.in # w.tree[a].type
  BY <1>1, RaisedFamily DEF SubmitTransformation
<1>2. CASE ~ (~ Live(w.tree, a) \/ t.in # w.tree[a].type)
  <2>1. v = [w EXCEPT !.tree = u, !.ok = known]
    BY <1>2 DEF SubmitTransformation, Family, IsWorld
  <2>2. /\ Live(w.tree, a) /\ w.tree[a].kind = "sequential" /\ a \in Path
        /\ Sound(w.tree)
    BY DEF Family, Usable, Accountants
  <2>3. /\ Sound(u)
        /\ OpenSet(u) = OpenSet(w.tree) /\ LiveSet(u) = LiveSet(w.tree)
        /\ \A x \in Path : SameCore(w.tree[x], u[x])
    BY <2>2, TransformedTree
  <2>4. u \in [Path -> Node] /\ known \in BOOLEAN
    BY <2>3 DEF Sound, WellRetired, Shaped
  <2> HIDE DEF u, known, v
  <2>5. IsWorld(v) /\ v.tree = u /\ v.acct = w.acct
    BY <2>1, <2>4 DEF Family, IsWorld
  <2>6. \A b \in Accountants :
          /\ InUse(w, b) => Live(u, b) /\ u[b].kind = "sequential"
          /\ Waits(w, b) =>
               /\ Live(u, ParallelOf(w, b))
               /\ SameCore(w.tree[ParallelOf(w, b)], u[ParallelOf(w, b)])
    <3> TAKE b \in Accountants
    <3>1. b \in Path
      BY DEF Accountants
    <3>2. InUse(w, b) => Live(w.tree, b) /\ w.tree[b].kind = "sequential"
      BY DEF Family, Usable
    <3>3. Waits(w, b) => ParallelOf(w, b) \in Path /\ Live(w.tree, ParallelOf(w, b))
      BY DEF Family, Usable, AnswersParts
    <3> QED BY <2>3, <3>1, <3>2, <3>3 DEF LiveSet, SameCore
  <2>7. \A x \in Path : IsOpen(u, x) <=> IsOpen(w.tree, x)
    BY <2>3 DEF OpenSet
  <2>8. Carried(w, v)
    BY <2>5, <2>6, <2>7 DEF Carried
  <2>9. BudgetsWithin(v)
    BY <2>3, <2>5, <2>7 DEF Family, BudgetsWithin, Accountants, SameCore
  <2>10. Family(v)
    BY <2>3, <2>5, <2>8, <2>9, CarriedFamily
  <2> QED BY <2>5, <2>8, <2>10 DEF v
<1> QED BY <1>1, <1>2

(* Nothing but what is queued on a changes.                                *)
LEMMA ExecutedPending ==
  ASSUME NEW w, Family(w), NEW a \in Accountants, InUse(w, a)
  PROVE  LET v == ExecutePending(w, a)
         IN  /\ Family(v) /\ Restated(w, v, {})
             /\ \A b \in Accountants : b # a => v.acct[b] = w.acct[b]
             /\ w.acct[a].pending = None => v = w
             /\ ~ w.ok => v = w
<1> DEFINE v == ExecutePending(w, a)
           chain == Chained(w.acct[a].type, w.acct[a].pending)
           done == SubmitTransformation(w, a, chain, None)
<1>1. CASE ~ w.ok \/ w.acct[a].pending = None
  <2>1. v = w
    BY <1>1 DEF ExecutePending
  <2> QED BY <2>1, SameWorld
<1>2. CASE ~ (~ w.ok \/ w.acct[a].pending = None)
  <2>1. HasQueryable(w, a)
    BY DEF Family, Usable, HasQueryable, Live
  <2>2. v = IF done.ok THEN [done EXCEPT !.acct[a].pending = None] ELSE done
    BY <1>2, <2>1 DEF ExecutePending
  <2>3. w.acct[a].type \in Types /\ w.acct[a].pending \in Seq(Queued)
    <3>1. w.acct[a] \in Accountant
      BY WorldType DEF Family
    <3> QED BY <1>2, <3>1 DEF Accountant
  <2>4. chain \in Transformation /\ Monotone(chain)
    BY <2>3, ChainedType
  <2> HIDE DEF chain
  <2>5. Family(done) /\ done.acct = w.acct
    BY <2>4, SubmittedTransformation
  <2> HIDE DEF done, v
  <2>6. Restated(w, done, {})
    BY <2>5 DEF Restated
  <2>7. CASE ~ done.ok
    <3>1. v = done
      BY <2>2, <2>7
    <3> QED BY <1>2, <2>5, <2>6, <3>1 DEF v
  <2>8. CASE done.ok
    <3>1. v = [done EXCEPT !.acct[a].pending = None]
      BY <2>2, <2>8
    <3>2. /\ IsWorld(v) /\ v.tree = done.tree /\ Restated(done, v, {})
          /\ \A b \in Accountants : b # a => v.acct[b] = done.acct[b]
      BY <2>5, <3>1, SetPending DEF Family
    <3>3. Family(v)
      BY <2>5, <3>2, Annotated
    <3>4. Restated(w, v, {})
      BY <2>6, <3>2 DEF Restated
    <3>5. \A b \in Accountants : b # a => v.acct[b] = w.acct[b]
      BY <2>5, <3>2
    <3> QED BY <1>2, <3>3, <3>4, <3>5 DEF v
  <2> QED BY <2>7, <2>8
<1> QED BY <1>1, <1>2

-----------------------------------------------------------------------------
(* Retiring *)

(* Nobody takes a step back from w to v, and the retired are left alone.   *)
Moved(w, v) ==
  \A b \in Accountants :
    /\ v.acct[b].pq = w.acct[b].pq /\ v.acct[b].size = w.acct[b].size
    /\ w.acct[b].state = "RETIRED" => v.acct[b] = w.acct[b]
    /\ v.acct[b].state = "none" <=> w.acct[b].state = "none"
    /\ v.acct[b].state = "WAITING_FOR_SIBLING" =>
         w.acct[b].state = "WAITING_FOR_SIBLING"
    /\ Waits(v, b) => Waits(w, b)

LEMMA MovedOn ==
  ASSUME NEW u, NEW v, NEW w, Moved(u, v), Moved(v, w)
  PROVE  Moved(u, w)
BY DEF Moved

(* The turn of x has passed to its next sibling, or to its parent.         *)
Followed(v, x) ==
  LET a == Parent(x)
      i == IndexInParent(x)
  IN  IF i = v.acct[a].size
      THEN v.acct[a].state = "ACTIVE"
      ELSE v.acct[Child(v, a, i + 1)].state = "ACTIVE"

LEMMA ExecutedMoved ==
  ASSUME NEW w, Family(w), NEW a \in Accountants, InUse(w, a)
  PROVE  Moved(w, ExecutePending(w, a))
<1> DEFINE v == ExecutePending(w, a)
<1>1. /\ Restated(w, v, {})
      /\ \A b \in Accountants : b # a => v.acct[b] = w.acct[b]
  BY ExecutedPending
<1>2. w.acct[a].state # "RETIRED"
  BY DEF InUse
<1> HIDE DEF v
<1>3. Moved(w, v)
  BY <1>1, <1>2 DEF Moved, Restated, Waits
<1> QED BY <1>3 DEF v

(* Where an accountant in use or waiting for its turn is.                  *)
LEMMA ChildOfWaiting ==
  ASSUME NEW w, Family(w), NEW x \in Accountants, Present(w, x), x # Root
  PROVE  LET a == Parent(x)
             i == IndexInParent(x)
         IN  /\ a \in Accountants /\ Waits(w, a)
             /\ i \in 1 .. w.acct[a].size /\ x = Child(w, a, i)
             /\ i \in Nat /\ w.acct[a].size \in Nat
             /\ \E k \in 1 .. w.acct[a].size : InTurn(w, a, k)
<1> DEFINE a == Parent(x)
           i == IndexInParent(x)
<1>1. /\ a \in Accountants /\ StrictlyBelow(x, a) /\ Len(x) = Len(a) + 2
      /\ i \in 1 .. MaxFan
      /\ x = Append(Append(a, x[Len(a) + 1]), i)
  BY ParentNamed
<1>2. x[Len(a) + 2] = i
  BY <1>1 DEF IndexInParent
<1> HIDE DEF a, i
<1>3. Waits(w, a) /\ x[Len(a) + 1] = w.acct[a].pq /\ x[Len(a) + 2] <= w.acct[a].size
  BY <1>1 DEF Family, Chain
<1>4. w.acct[a].size \in Nat
  BY <1>1, WorldType DEF Family
<1>5. i \in 1 .. w.acct[a].size /\ i \in Nat
  BY <1>1, <1>2, <1>3, <1>4
<1>6. x = Child(w, a, i)
  BY <1>1, <1>3 DEF Child, ParallelOf
<1>7. \E k \in 1 .. w.acct[a].size : InTurn(w, a, k)
  BY <1>1, <1>3 DEF Family, Order
<1> QED BY <1>1, <1>3, <1>4, <1>5, <1>6, <1>7 DEF a, i

(* From w to m, x retires and hands its turn on to y.                      *)
HandsOn(w, m, x, y) ==
  LET a == Parent(x)
      i == IndexInParent(x)
  IN  /\ Family(m) /\ Moved(w, m) /\ m.ok = w.ok
      /\ y \in Accountants /\ y # x
      /\ m.acct[x].state = "RETIRED" /\ m.acct[y].state = "ACTIVE"
      /\ \A b \in Accountants :
           /\ SameNotes(w.acct[b], m.acct[b])
           /\ b \notin {x, y} => m.acct[b] = w.acct[b]
      /\ \/ /\ i = w.acct[a].size /\ y = a /\ m.tree = w.tree
         \/ /\ i # w.acct[a].size /\ y = Child(w, a, i + 1)
            /\ i + 1 \in 1 .. w.acct[a].size
            /\ w.acct[y].state = "WAITING_FOR_SIBLING" /\ InTurn(w, a, i)
            /\ m.tree = Indexed(w.tree, ParallelOf(w, a), FALSE)

LEMMA HandedOn ==
  ASSUME NEW w, Family(w), w.ok, NEW x \in Accountants,
         w.acct[x].state = "ACTIVE", x # Root
  PROVE  \E m, y : HandsOn(w, m, x, y) /\ Retirement(w, x) = ExecutePending(m, y)
<1> DEFINE v == Retirement(w, x)
           retired == [w EXCEPT !.acct[x].state = "RETIRED"]
           a == Parent(x)
           i == IndexInParent(x)
<1>1. InState(w, retired, x, "RETIRED")
  <2>1. IsWorld(w) /\ "RETIRED" \in States
    BY DEF Family, States
  <2>2. retired = [w EXCEPT !.acct[x].state = "RETIRED"]
    OBVIOUS
  <2> HIDE DEF retired
  <2> QED BY <2>1, <2>2, StateSet, Zenon
<1>2. /\ IsWorld(retired) /\ retired.tree = w.tree /\ retired.ok = w.ok
      /\ retired.acct[x].state = "RETIRED"
      /\ Restated(w, retired, {x})
      /\ \A b \in Accountants : b # x => retired.acct[b] = w.acct[b]
      /\ SameNotes(w.acct[x], retired.acct[x])
  BY <1>1 DEF InState
<1>3. v = ActivateNext(retired, a, i)
  BY DEF Retirement
<1>4. Present(w, x)
  BY DEF Present
<1>5. /\ a \in Accountants /\ Waits(w, a)
      /\ i \in 1 .. w.acct[a].size /\ x = Child(w, a, i)
      /\ i \in Nat /\ w.acct[a].size \in Nat
      /\ \E k \in 1 .. w.acct[a].size : InTurn(w, a, k)
  BY <1>4, ChildOfWaiting
<1> HIDE DEF a, i, v, retired
<1>6. PICK k \in 1 .. w.acct[a].size : InTurn(w, a, k)
  BY <1>5
<1>7. InTurn(w, a, i)
  <2>1. ~ (i < k) /\ ~ (i > k)
    BY <1>5, <1>6 DEF InTurn
  <2>2. i = k
    BY <1>5, <1>6, <2>1
  <2> QED BY <1>6, <2>2
<1>8. a # x
  BY <1>5 DEF Waits
<1>9. retired.acct[a].size = w.acct[a].size
  BY <1>2, <1>5 DEF Restated
<1>10. IsWorld(retired) /\ a \in Accountants /\ "ACTIVE" \in States
  BY <1>2, <1>5 DEF States
<1>11. CASE i = w.acct[a].size
  <2> DEFINE m == [retired EXCEPT !.acct[a].state = "ACTIVE"]
  <2>1. v = ExecutePending(m, a)
    BY <1>3, <1>9, <1>11 DEF ActivateNext
  <2>2. /\ IsWorld(m) /\ m.tree = retired.tree /\ m.ok = retired.ok
        /\ m.acct[a].state = "ACTIVE"
        /\ Restated(retired, m, {a})
        /\ \A b \in Accountants : b # a => m.acct[b] = retired.acct[b]
        /\ SameNotes(retired.acct[a], m.acct[a])
    <3>1. m = [retired EXCEPT !.acct[a].state = "ACTIVE"]
      OBVIOUS
    <3> HIDE DEF m
    <3>2. InState(retired, m, a, "ACTIVE")
      BY <1>10, <3>1, StateSet, Zenon
    <3> QED BY <3>2 DEF InState
  <2> HIDE DEF m
  <2>3. /\ Restated(w, m, {x, a}) /\ m.acct[x].state = "RETIRED"
        /\ m.tree = w.tree
    BY <1>2, <1>8, <2>2 DEF Restated
  <2>4. Family(m)
    BY <1>5, <1>7, <1>11, <2>2, <2>3, LastRetires
  <2>5. Moved(w, m)
    BY <1>2, <1>5, <1>8, <2>2, <2>3 DEF Moved, Restated, Waits
  <2>6. \A b \in Accountants :
          /\ SameNotes(w.acct[b], m.acct[b])
          /\ b \notin {x, a} => m.acct[b] = w.acct[b]
    BY <1>2, <1>8, <2>2 DEF SameNotes
  <2>7. HandsOn(w, m, x, a)
    BY <1>2, <1>5, <1>8, <1>11, <2>2, <2>3, <2>4, <2>5, <2>6 DEF HandsOn, a, i
  <2> QED BY <2>1, <2>7 DEF v
<1>12. CASE i # w.acct[a].size
  <2> DEFINE c == Child(w, a, i + 1)
             p == ParallelOf(w, a)
             active == [retired EXCEPT !.acct[c].state = "ACTIVE"]
             u == Indexed(active.tree, p, FALSE)
             m == [active EXCEPT !.tree = u]
  <2>1. Child(retired, a, i + 1) = c /\ ParallelOf(retired, a) = p
    BY <1>2, <1>5 DEF Child, ParallelOf, Restated
  <2>2. i + 1 \in 1 .. w.acct[a].size
    BY <1>5, <1>12
  <2>3. c \in Accountants /\ c # x
    BY <1>5, <2>2, ChildPlace, OneParent
  <2>4. Live(retired.tree, p) /\ retired.tree[p].next = i + 1 /\ p \in Path
    BY <1>2, <1>5, <1>7 DEF Family, Usable, AnswersParts, InTurn
  <2>5. w.acct[c].state = "WAITING_FOR_SIBLING"
    <3>1. i + 1 > i
      BY <1>5
    <3> QED BY <1>7, <2>2, <3>1 DEF InTurn
  <2> HIDE DEF c, p
  <2>6. v = ExecutePending(m, c)
    BY <1>3, <1>9, <1>12, <2>1, <2>4 DEF ActivateNext, ActivateChild
  <2>7. /\ IsWorld(active) /\ active.tree = retired.tree /\ active.ok = retired.ok
        /\ active.acct[c].state = "ACTIVE"
        /\ Restated(retired, active, {c})
        /\ \A b \in Accountants : b # c => active.acct[b] = retired.acct[b]
        /\ SameNotes(retired.acct[c], active.acct[c])
    <3>1. active = [retired EXCEPT !.acct[c].state = "ACTIVE"]
      OBVIOUS
    <3> HIDE DEF active
    <3>2. InState(retired, active, c, "ACTIVE")
      BY <1>10, <2>3, <3>1, StateSet, Zenon
    <3> QED BY <3>2 DEF InState
  <2> HIDE DEF active
  <2>8. u = Indexed(w.tree, p, FALSE)
    BY <1>2, <2>7
  <2> HIDE DEF u
  <2>9. u \in [Path -> Node]
    <3>1. /\ Live(w.tree, p) /\ w.tree[p].kind = "parallel"
          /\ w.tree[p].next = i + 1
          /\ Len(w.tree[p].parts) = w.acct[a].size
      BY <1>2, <1>5, <2>4 DEF Family, Usable, AnswersParts, p
    <3>2. Append(p, w.tree[p].next) = c /\ c \in Path
      BY <1>5, <2>2, <2>3, <3>1, ChildPlace DEF c, p, Accountants
    <3>3. w.tree[p].next <= Len(w.tree[p].parts)
      BY <1>5, <2>2, <3>1
    <3>4. Sound(Indexed(w.tree, p, FALSE))
      BY <2>4, <3>1, <3>2, <3>3, IndexedTree DEF Family
    <3> QED BY <2>8, <3>4 DEF Sound, WellRetired, Shaped
  <2>10. IsWorld(m) /\ m.tree = u /\ m.acct = active.acct /\ m.ok = active.ok
    BY <2>7, <2>9 DEF IsWorld
  <2> HIDE DEF m
  <2>11. /\ Restated(w, m, {x, c}) /\ m.acct[x].state = "RETIRED"
         /\ m.acct[c].state = "ACTIVE"
    BY <1>2, <2>3, <2>7, <2>10 DEF Restated
  <2>12. Family(m)
    BY <1>5, <1>7, <2>2, <2>8, <2>10, <2>11, NextInTurn DEF c, p
  <2>13. Moved(w, m)
    BY <1>2, <2>3, <2>5, <2>7, <2>10, <2>11 DEF Moved, Restated, Waits
  <2>14. \A b \in Accountants :
           /\ SameNotes(w.acct[b], m.acct[b])
           /\ b \notin {x, c} => m.acct[b] = w.acct[b]
    BY <1>2, <2>3, <2>7, <2>10 DEF SameNotes
  <2>15. HandsOn(w, m, x, c)
    BY <1>2, <1>7, <1>12, <2>2, <2>3, <2>5, <2>7, <2>8, <2>10, <2>11, <2>12,
       <2>13, <2>14 DEF HandsOn, a, i, c, p
  <2> QED BY <2>6, <2>15 DEF v
<1> QED BY <1>11, <1>12

LEMMA RetirementEffect ==
  ASSUME NEW w, Family(w), NEW x \in Accountants, w.acct[x].state = "ACTIVE"
  PROVE  LET v == Retirement(w, x)
         IN  /\ Family(v) /\ Moved(w, v)
             /\ v.ok => /\ v.acct[x].state = "RETIRED"
                        /\ x # Root => Followed(v, x)
<1> DEFINE v == Retirement(w, x)
           a == Parent(x)
           i == IndexInParent(x)
<1>1. CASE ~ w.ok
  <2>1. v = w
    BY <1>1 DEF Retirement
  <2> QED BY <1>1, <2>1 DEF Moved
<1>2. CASE w.ok /\ x = Root
  <2> DEFINE retired == [w EXCEPT !.acct[x].state = "RETIRED"]
  <2>1. v = retired
    BY <1>2 DEF Retirement
  <2>2. InState(w, retired, x, "RETIRED")
    <3>1. IsWorld(w) /\ "RETIRED" \in States
      BY DEF Family, States
    <3>2. retired = [w EXCEPT !.acct[x].state = "RETIRED"]
      OBVIOUS
    <3> HIDE DEF retired
    <3> QED BY <3>1, <3>2, StateSet, Zenon
  <2> HIDE DEF retired, v
  <2>3. Family(v)
    BY <1>2, <2>1, <2>2, RootRetires DEF InState
  <2>4. Moved(w, v) /\ v.acct[x].state = "RETIRED"
    BY <2>1, <2>2 DEF InState, Moved, Restated, Waits
  <2> QED BY <1>2, <2>3, <2>4 DEF v
<1>3. CASE w.ok /\ x # Root
  <2>1. PICK m, y : HandsOn(w, m, x, y) /\ v = ExecutePending(m, y)
    BY <1>3, HandedOn
  <2> HIDE DEF v, a, i
  <2>2. /\ Family(m) /\ Moved(w, m) /\ y \in Accountants /\ InUse(m, y)
        /\ m.acct[x].state = "RETIRED" /\ m.acct[y].state = "ACTIVE"
    BY <2>1 DEF HandsOn, InUse
  <2>3. Family(v) /\ Restated(m, v, {}) /\ Moved(m, v)
    BY <2>1, <2>2, ExecutedPending, ExecutedMoved
  <2>4. Moved(w, v)
    BY <2>2, <2>3, MovedOn
  <2>5. v.acct[x].state = "RETIRED" /\ v.acct[y].state = "ACTIVE"
    BY <2>2, <2>3 DEF Restated
  <2>6. a \in Accountants
    BY <1>3, ParentNamed DEF a
  <2>7. /\ v.acct[a].size = w.acct[a].size
        /\ \A k : Child(v, a, k) = Child(w, a, k)
    BY <2>4, <2>6 DEF Moved, Child, ParallelOf
  <2>8. \/ i = w.acct[a].size /\ y = a
        \/ i # w.acct[a].size /\ y = Child(w, a, i + 1)
    BY <2>1 DEF HandsOn, a, i
  <2>9. Followed(v, x)
    BY <2>5, <2>7, <2>8 DEF Followed, a, i
  <2> QED BY <2>3, <2>4, <2>5, <2>9 DEF v
<1> QED BY <1>1, <1>2, <1>3

-----------------------------------------------------------------------------
(* force_activate retires whatever stands before an accountant, and that   *)
(* comes to an end.                                                        *)

Existing(w) == {x \in Accountants : w.acct[x].state # "none"}

(* Someone is to be retired before it is a's turn, ...                     *)
Follows(w, a) ==
  \/ Waits(w, a)
  \/ w.acct[a].state = "WAITING_FOR_SIBLING" /\ IndexInParent(a) # 1

(* ... namely its last child or its preceding sibling.                     *)
Before(w, a) ==
  IF Waits(w, a)
  THEN Child(w, a, w.acct[a].size)
  ELSE Child(w, Parent(a), IndexInParent(a) - 1)

Rank(x) ==
  (MaxDepth - Len(x)) * (MaxFan + 1) + IF x = Root THEN 0 ELSE IndexInParent(x)

LEMMA Products ==
  ASSUME NEW m \in Nat, NEW n \in Nat, NEW k \in Nat, n + k = m
  PROVE  /\ n * (MaxFan + 1) \in Nat
         /\ m * (MaxFan + 1) = n * (MaxFan + 1) + k * (MaxFan + 1)
         /\ k * (MaxFan + 1) \in Nat
BY FanAssumption

LEMMA TwoMore ==
  ASSUME NEW m \in Nat, NEW n \in Nat, n + 2 = m
  PROVE  /\ n * (MaxFan + 1) \in Nat
         /\ m * (MaxFan + 1) = n * (MaxFan + 1) + MaxFan + MaxFan + 2
BY FanAssumption

LEMMA RankType ==
  ASSUME NEW x \in Accountants
  PROVE  /\ Rank(x) \in Nat
         /\ Rank(x) < MaxDepth * (MaxFan + 1) + MaxFan + 1
<1> DEFINE n == MaxDepth - Len(x)
           i == IF x = Root THEN 0 ELSE IndexInParent(x)
<1>1. Len(x) \in Nat /\ n \in Nat /\ n + Len(x) = MaxDepth /\ MaxDepth \in Nat
  BY PathType, DepthAssumption DEF Accountants
<1>2. i \in 0 .. MaxFan
  BY ParentNamed, FanAssumption
<1> HIDE DEF n, i
<1>3. /\ n * (MaxFan + 1) \in Nat
      /\ MaxDepth * (MaxFan + 1) = n * (MaxFan + 1) + Len(x) * (MaxFan + 1)
      /\ Len(x) * (MaxFan + 1) \in Nat
  BY <1>1, Products
<1>4. Rank(x) = n * (MaxFan + 1) + i
  BY DEF Rank, n, i
<1> QED BY <1>2, <1>3, <1>4, FanAssumption

LEMMA BeforeIsLess ==
  ASSUME NEW w, Family(w), NEW a \in Accountants, Follows(w, a)
  PROVE  LET b == Before(w, a)
             p == IF Waits(w, a) THEN a ELSE Parent(a)
             i == IF Waits(w, a) THEN w.acct[a].size ELSE IndexInParent(a) - 1
         IN  /\ b \in Existing(w) /\ Rank(b) < Rank(a)
             /\ w.acct[b].state # "RETIRED" /\ b # Root
             /\ Parent(b) = p /\ IndexInParent(b) = i
             /\ p \in Accountants
             /\ ~ Waits(w, a) =>
                  i # w.acct[p].size /\ Child(w, p, i + 1) = a
<1>1. CASE Waits(w, a)
  <2> DEFINE n == w.acct[a].size
             b == Child(w, a, n)
  <2>1. PICK k \in 1 .. n : InTurn(w, a, k)
    BY <1>1 DEF Family, Order
  <2>2. n \in Nat
    BY WorldType DEF Family
  <2>3. n \in 1 .. w.acct[a].size
    BY <2>1, <2>2
  <2>4. /\ b \in Accountants /\ Parent(b) = a /\ IndexInParent(b) = n /\ b # Root
        /\ Len(b) = Len(a) + 2 /\ n \in 1 .. MaxFan
    BY <2>3, ChildPlace
  <2>5. InUse(w, b) \/ w.acct[b].state = "WAITING_FOR_SIBLING"
    <3>1. k = n \/ n > k
      BY <2>1, <2>2
    <3> QED BY <2>1, <2>3, <3>1 DEF InTurn
  <2> HIDE DEF b
  <2>6. Rank(b) < Rank(a)
    <3> DEFINE i == IF a = Root THEN 0 ELSE IndexInParent(a)
               d == MaxDepth - Len(b)
               e == MaxDepth - Len(a)
    <3>1. i \in 0 .. MaxFan
      BY ParentNamed, FanAssumption
    <3>2. d \in Nat /\ e \in Nat /\ d + 2 = e
      <4>1. a \in Path /\ b \in Path
        BY <2>4 DEF Accountants
      <4>2. Len(a) \in Nat /\ Len(b) \in 0 .. MaxDepth
        BY <4>1, PathType
      <4> QED BY <2>4, <4>2, DepthAssumption
    <3>3. Rank(b) = d * (MaxFan + 1) + n /\ Rank(a) = e * (MaxFan + 1) + i
      BY <2>4 DEF Rank
    <3> HIDE DEF d, e, i, n
    <3>4. /\ d * (MaxFan + 1) \in Nat
          /\ e * (MaxFan + 1) = d * (MaxFan + 1) + MaxFan + MaxFan + 2
      BY <3>2, TwoMore
    <3> QED BY <2>4, <3>1, <3>3, <3>4, FanAssumption
  <2>7. Before(w, a) = b
    BY <1>1 DEF Before, b
  <2> QED BY <1>1, <2>4, <2>5, <2>6, <2>7 DEF Existing, InUse
<1>2. CASE ~ Waits(w, a)
  <2> DEFINE p == Parent(a)
             j == IndexInParent(a)
             i == j - 1
             b == Child(w, p, i)
  <2>1. w.acct[a].state = "WAITING_FOR_SIBLING" /\ j # 1 /\ Present(w, a)
    BY <1>2 DEF Follows, Present
  <2>2. a # Root
    BY <2>1 DEF Family, RootStarted
  <2>3. /\ p \in Accountants /\ Waits(w, p)
        /\ j \in 1 .. w.acct[p].size /\ a = Child(w, p, j)
        /\ j \in Nat /\ w.acct[p].size \in Nat
        /\ \E k \in 1 .. w.acct[p].size : InTurn(w, p, k)
    BY <2>1, <2>2, ChildOfWaiting
  <2> HIDE DEF p, j
  <2>4. i \in 1 .. w.acct[p].size /\ i # w.acct[p].size /\ i + 1 = j /\ i \in Nat
    BY <2>1, <2>3
  <2> HIDE DEF i
  <2>5. PICK k \in 1 .. w.acct[p].size : InTurn(w, p, k)
    BY <2>3
  <2>6. k <= i
    <3>1. j # k /\ ~ (j < k)
      BY <2>1, <2>3, <2>5 DEF InTurn, InUse
    <3> QED BY <2>3, <2>4, <2>5, <3>1
  <2>7. InUse(w, b) \/ w.acct[b].state = "WAITING_FOR_SIBLING"
    <3>1. k = i \/ i > k
      BY <2>4, <2>5, <2>6
    <3> QED BY <2>4, <2>5, <3>1 DEF InTurn
  <2>8. /\ b \in Accountants /\ Parent(b) = p /\ IndexInParent(b) = i /\ b # Root
        /\ Len(b) = Len(p) + 2
    BY <2>3, <2>4, ChildPlace
  <2>9. Len(a) = Len(p) + 2 /\ IndexInParent(a) = j
    BY <2>3, ChildPlace
  <2> HIDE DEF b
  <2>10. Rank(b) < Rank(a)
    <3> DEFINE d == (MaxDepth - Len(a)) * (MaxFan + 1)
    <3>1. Rank(b) = d + i /\ Rank(a) = d + j
      BY <2>2, <2>8, <2>9 DEF Rank
    <3>2. d \in Int
      <4>1. MaxDepth - Len(a) \in Nat
        BY PathType, DepthAssumption DEF Accountants
      <4> QED BY <4>1, FanAssumption
    <3> HIDE DEF d
    <3> QED BY <2>3, <2>4, <3>1, <3>2
  <2>11. Before(w, a) = b /\ j - 1 = i
    BY <1>2 DEF Before, b, p, j, i
  <2> QED BY <1>2, <2>3, <2>4, <2>7, <2>8, <2>10, <2>11
          DEF Existing, InUse, p, j
<1> QED BY <1>1, <1>2

(* What retire(force=True) of a leaves behind, from what those of others do. *)
ForcedStep(w, g, a) ==
  IF w.acct[a].state = "RETIRED"
  THEN w
  ELSE Retirement(Activated(w, a, g), a)

LEMMA ForcedStepLocal ==
  ASSUME NEW w, Family(w), NEW a \in Existing(w), NEW g, NEW h,
         Follows(w, a) => g[Before(w, a)] = h[Before(w, a)]
  PROVE  ForcedStep(w, g, a) = ForcedStep(w, h, a)
<1>1. w.acct[a].state \in States \ {"none"}
  BY WorldType DEF Family, Existing, Accountant, States
<1>2. Activated(w, a, g) = Activated(w, a, h)
  <2>1. CASE Waits(w, a)
    BY <2>1 DEF Activated, Waits, Follows, Before
  <2>2. CASE w.acct[a].state = "WAITING_FOR_SIBLING"
    BY <2>2 DEF Activated, Waits, Follows, Before
  <2>3. CASE w.acct[a].state \in {"RETIRED", "ACTIVE"}
    BY <2>3 DEF Activated
  <2> QED BY <1>1, <2>1, <2>2, <2>3 DEF States, Waits
<1> QED BY <1>2 DEF ForcedStep

LEMMA ForcedDefined ==
  ASSUME NEW w, Family(w)
  PROVE  \A a \in Existing(w) :
           ForcedRetirements(w)[a] = ForcedStep(w, ForcedRetirements(w), a)
<1> DEFINE E == Existing(w)
           IsFn(g) == g = [a \in E |-> g[a]]
           N == {n \in Nat : \E g : IsFn(g) /\
                   \A a \in E : Rank(a) < n => g[a] = ForcedStep(w, g, a)}
           top == MaxDepth * (MaxFan + 1) + MaxFan + 1
           Def(f) == [a \in E |-> ForcedStep(w, f, a)]
           forced == CHOOSE f : f = Def(f)
<1>1. top \in Nat
  BY DepthAssumption, FanAssumption
<1>2. \A a \in E : a \in Accountants /\ Rank(a) \in Nat /\ Rank(a) < top
  BY RankType DEF Existing
<1> HIDE DEF top
<1>3. 0 \in N
  <2> DEFINE g == [a \in E |-> w]
  <2>1. IsFn(g)
    OBVIOUS
  <2> HIDE DEF g, IsFn, E
  <2> QED BY <1>2, <2>1
<1>4. ASSUME NEW n \in Nat, n \in N
      PROVE  n + 1 \in N
  <2>1. PICK g : IsFn(g) /\ \A a \in E : Rank(a) < n => g[a] = ForcedStep(w, g, a)
    BY <1>4
  <2> DEFINE h == [a \in E |-> ForcedStep(w, g, a)]
  <2>2. IsFn(h) /\ \A a \in E : h[a] = ForcedStep(w, g, a)
    OBVIOUS
  <2> HIDE DEF h
  <2>3. ASSUME NEW a \in E, Rank(a) < n + 1
        PROVE  h[a] = ForcedStep(w, h, a)
    <3>1. ASSUME Follows(w, a)
          PROVE  g[Before(w, a)] = h[Before(w, a)]
      <4>1. Before(w, a) \in E /\ Rank(Before(w, a)) < Rank(a)
        BY <1>2, <3>1, BeforeIsLess
      <4>2. Rank(Before(w, a)) < n
        BY <1>2, <2>3, <4>1
      <4> QED BY <2>1, <2>2, <4>1, <4>2
    <3>2. ForcedStep(w, g, a) = ForcedStep(w, h, a)
      BY <3>1, ForcedStepLocal
    <3> QED BY <2>2, <3>2
  <2> HIDE DEF IsFn, E
  <2> QED BY <2>2, <2>3
<1>5. top \in N
  <2> HIDE DEF N
  <2> QED BY <1>1, <1>3, <1>4, Induction
<1>6. PICK g : IsFn(g) /\ \A a \in E : g[a] = ForcedStep(w, g, a)
  BY <1>2, <1>5
<1>7. g = Def(g)
  BY <1>6
<1>8. forced = Def(forced)
  <2> HIDE DEF Def
  <2> QED BY <1>7
<1>9. ForcedRetirements(w) = forced
  BY DEF ForcedRetirements, ForcedStep, Existing
<1> HIDE DEF forced
<1>10. \A a \in E : forced[a] = ForcedStep(w, forced, a)
  BY <1>8
<1> QED BY <1>9, <1>10

(* The call came back with a retired and somebody else in turn, or raised. *)
RetiredFrom(w, v, a) ==
  /\ Family(v) /\ Moved(w, v)
  /\ v.ok => /\ v.acct[a].state = "RETIRED"
             /\ w.acct[a].state # "RETIRED" /\ a # Root => Followed(v, a)

(* Once who is before a is retired, it is a's turn.                        *)
LEMMA TurnComes ==
  ASSUME NEW w, Family(w), NEW a \in Existing(w), Follows(w, a),
         NEW u, RetiredFrom(w, u, Before(w, a)), u.ok
  PROVE  u.acct[a].state = "ACTIVE"
<1> DEFINE b == Before(w, a)
           p == IF Waits(w, a) THEN a ELSE Parent(a)
           i == IF Waits(w, a) THEN w.acct[a].size ELSE IndexInParent(a) - 1
<1>1. /\ w.acct[b].state # "RETIRED" /\ b # Root
      /\ Parent(b) = p /\ IndexInParent(b) = i /\ p \in Accountants
      /\ ~ Waits(w, a) => i # w.acct[p].size /\ Child(w, p, i + 1) = a
  BY BeforeIsLess DEF Existing
<1>2. Followed(u, b) /\ Moved(w, u)
  BY <1>1 DEF RetiredFrom
<1> HIDE DEF b
<1>3. IF i = u.acct[p].size
      THEN u.acct[p].state = "ACTIVE"
      ELSE u.acct[Child(u, p, i + 1)].state = "ACTIVE"
  BY <1>1, <1>2 DEF Followed
<1>4. u.acct[p].size = w.acct[p].size /\ Child(u, p, i + 1) = Child(w, p, i + 1)
  BY <1>1, <1>2 DEF Moved, Child, ParallelOf
<1> QED BY <1>1, <1>3, <1>4

LEMMA ActivatedEffect ==
  ASSUME NEW w, Family(w), NEW a \in Existing(w), NEW g,
         Follows(w, a) => RetiredFrom(w, g[Before(w, a)], Before(w, a))
  PROVE  LET v == Activated(w, a, g)
         IN  /\ Family(v) /\ Moved(w, v)
             /\ v.ok => v.acct[a].state = "ACTIVE"
<1> DEFINE v == Activated(w, a, g)
           b == Before(w, a)
           u == g[b]
<1>0. a \in Accountants
  BY DEF Existing
<1>1. w.acct[a].state \in States \ {"none"}
  BY WorldType DEF Family, Existing, Accountant, States
<1>2. Family(Raised(w)) /\ Moved(w, Raised(w)) /\ Raised(w).ok = FALSE
  BY RaisedFamily DEF Moved, Waits
<1>3. CASE w.acct[a].state = "RETIRED"
  <2>1. v = Raised(w)
    BY <1>3 DEF Activated
  <2> QED BY <1>2, <2>1
<1>4. CASE w.acct[a].state = "ACTIVE"
  <2>1. v = w
    BY <1>4 DEF Activated
  <2> QED BY <1>4, <2>1 DEF Moved
<1>5. CASE w.acct[a].state = "WAITING_FOR_SIBLING" /\ IndexInParent(a) = 1
  <2>1. v = Raised(w)
    BY <1>5 DEF Activated
  <2> QED BY <1>2, <2>1
<1>6. CASE Follows(w, a)
  <2>1. v = ExecutePending(u, a)
    BY <1>6 DEF Activated, Follows, Before, Waits
  <2>2. Family(u) /\ Moved(w, u)
    BY <1>6 DEF RetiredFrom
  <2>4. ASSUME u.ok PROVE u.acct[a].state = "ACTIVE"
    BY <1>6, <2>4, TurnComes
  <2> HIDE DEF u, v
  <2>5. CASE ~ u.ok
    <3>1. v = u
      BY <2>1, <2>5 DEF ExecutePending
    <3> QED BY <2>2, <2>5, <3>1 DEF v
  <2>6. CASE u.ok
    <3>1. InUse(u, a)
      BY <2>4, <2>6 DEF InUse
    <3>2. Family(v) /\ Restated(u, v, {}) /\ Moved(u, v)
      BY <1>0, <2>1, <2>2, <3>1, ExecutedPending, ExecutedMoved
    <3>3. Moved(w, v)
      BY <2>2, <3>2, MovedOn
    <3>4. v.acct[a].state = "ACTIVE"
      BY <1>0, <2>4, <2>6, <3>2 DEF Restated
    <3> QED BY <3>2, <3>3, <3>4 DEF v
  <2> QED BY <2>5, <2>6
<1> QED BY <1>1, <1>3, <1>4, <1>5, <1>6 DEF States, Follows, Waits

LEMMA RetirementOf ==
  ASSUME NEW w, Family(w), NEW a \in Existing(w), w.acct[a].state # "RETIRED",
         NEW u, Family(u), Moved(w, u), u.ok => u.acct[a].state = "ACTIVE"
  PROVE  RetiredFrom(w, Retirement(u, a), a)
<1> DEFINE v == Retirement(u, a)
<1>0. a \in Accountants
  BY DEF Existing
<1>1. CASE ~ u.ok
  <2>1. v = u
    BY <1>1 DEF Retirement
  <2> QED BY <1>1, <2>1 DEF RetiredFrom
<1>2. CASE u.ok
  <2>1. /\ Family(v) /\ Moved(u, v)
        /\ v.ok => /\ v.acct[a].state = "RETIRED"
                   /\ a # Root => Followed(v, a)
    BY <1>0, <1>2, RetirementEffect
  <2>2. Moved(w, v)
    BY <2>1, MovedOn
  <2> QED BY <2>1, <2>2 DEF RetiredFrom
<1> QED BY <1>1, <1>2

LEMMA ForcedEffect ==
  ASSUME NEW w, Family(w)
  PROVE  \A a \in Existing(w) : RetiredFrom(w, ForcedRetirements(w)[a], a)
<1> DEFINE E == Existing(w)
           g == ForcedRetirements(w)
           N == {n \in Nat : \A a \in E : Rank(a) < n => RetiredFrom(w, g[a], a)}
<1>1. \A a \in E : /\ a \in Accountants /\ Rank(a) \in Nat
                   /\ g[a] = ForcedStep(w, g, a)
  BY RankType, ForcedDefined DEF Existing
<1> HIDE DEF g
<1>2. 0 \in N
  BY <1>1
<1>3. ASSUME NEW n \in Nat, n \in N
      PROVE  n + 1 \in N
  <2> SUFFICES ASSUME NEW a \in E, Rank(a) < n + 1
               PROVE  RetiredFrom(w, g[a], a)
    OBVIOUS
  <2>1. CASE w.acct[a].state = "RETIRED"
    <3>1. g[a] = w
      BY <1>1, <2>1 DEF ForcedStep
    <3> QED BY <2>1, <3>1 DEF RetiredFrom, Moved
  <2>2. CASE w.acct[a].state # "RETIRED"
    <3>1. ASSUME Follows(w, a)
          PROVE  RetiredFrom(w, g[Before(w, a)], Before(w, a))
      <4>1. Before(w, a) \in E /\ Rank(Before(w, a)) < Rank(a)
        BY <1>1, <3>1, BeforeIsLess
      <4>2. Rank(Before(w, a)) < n
        BY <1>1, <4>1
      <4> QED BY <1>3, <4>1, <4>2
    <3> DEFINE u == Activated(w, a, g)
    <3>2. /\ Family(u) /\ Moved(w, u)
          /\ u.ok => u.acct[a].state = "ACTIVE"
      BY <3>1, ActivatedEffect
    <3>3. g[a] = Retirement(u, a)
      BY <1>1, <2>2 DEF ForcedStep
    <3> HIDE DEF u
    <3> QED BY <2>2, <3>2, <3>3, RetirementOf
  <2> QED BY <2>1, <2>2
<1>4. ASSUME NEW a \in E
      PROVE  RetiredFrom(w, g[a], a)
  <2>1. Rank(a) + 1 \in Nat /\ Rank(a) < Rank(a) + 1
    BY <1>1
  <2>2. Rank(a) + 1 \in N
    <3> HIDE DEF N
    <3> QED BY <1>2, <1>3, <2>1, Induction
  <2> QED BY <2>1, <2>2
<1> QED BY <1>4 DEF g

(* force_activate and retire                                               *)
LEMMA ForceActivateEffect ==
  ASSUME NEW w, Family(w), NEW a \in Existing(w)
  PROVE  LET v == ForceActivate(w, a)
         IN  /\ Family(v) /\ Moved(w, v)
             /\ v.ok => v.acct[a].state = "ACTIVE"
<1>1. Follows(w, a) =>
        RetiredFrom(w, ForcedRetirements(w)[Before(w, a)], Before(w, a))
  BY BeforeIsLess, ForcedEffect DEF Existing
<1> QED BY <1>1, ActivatedEffect DEF ForceActivate

LEMMA RetireFamily ==
  ASSUME NEW w, Family(w), NEW a \in Existing(w), NEW force \in BOOLEAN
  PROVE  LET v == Retire(w, a, force)
         IN  Family(v) /\ Moved(w, v)
<1> DEFINE v == Retire(w, a, force)
<1>1. CASE w.acct[a].state = "RETIRED"
  <2>1. v = w
    BY <1>1 DEF Retire
  <2> QED BY <2>1 DEF Moved
<1>2. CASE Waits(w, a) /\ ~ force
  <2>1. v = Raised(w)
    BY <1>2 DEF Retire, Waits
  <2> QED BY <2>1, RaisedFamily DEF Moved, Waits
<1>3. CASE w.acct[a].state # "RETIRED" /\ ~ (Waits(w, a) /\ ~ force)
  <2> DEFINE u == ForceActivate(w, a)
  <2>1. v = Retirement(u, a)
    BY <1>3 DEF Retire, Waits
  <2>2. /\ Family(u) /\ Moved(w, u)
        /\ u.ok => u.acct[a].state = "ACTIVE"
    BY ForceActivateEffect
  <2> HIDE DEF u
  <2> QED BY <1>3, <2>1, <2>2, RetirementOf DEF RetiredFrom
<1> QED BY <1>1, <1>2, <1>3

-----------------------------------------------------------------------------
(* transform_in_place and queue_transformation *)

(* The transitions PrivacyAccountantState documents.                       *)
Documented(w, v) ==
  \A b \in Accountants :
    /\ w.acct[b].state = "RETIRED" => v.acct[b] = w.acct[b]
    /\ v.acct[b].state = "WAITING_FOR_SIBLING" =>
         w.acct[b].state \in {"none", "WAITING_FOR_SIBLING"}
    /\ v.acct[b].state = "WAITING_FOR_CHILDREN" =>
         w.acct[b].state \in {"ACTIVE", "WAITING_FOR_CHILDREN"}

LEMMA MovedDocumented ==
  ASSUME NEW w, NEW v, Moved(w, v)
  PROVE  Documented(w, v)
BY DEF Moved, Documented, Waits

(* v is w but for what a notes for itself.                                 *)
NotedOnly(w, v, a) ==
  /\ Family(v) /\ Restated(w, v, {})
  /\ \A b \in Accountants : b # a => v.acct[b] = w.acct[b]

LEMMA NotedDocumented ==
  ASSUME NEW w, NEW v, NEW a \in Accountants, NotedOnly(w, v, a),
         w.acct[a].state # "RETIRED"
  PROVE  Documented(w, v)
BY DEF NotedOnly, Restated, Documented

LEMMA NotedOn ==
  ASSUME NEW u, NEW v, NEW w, NEW a, NotedOnly(u, v, a), NotedOnly(v, w, a)
  PROVE  NotedOnly(u, w, a)
BY DEF NotedOnly, Restated

LEMMA RaisedNoted ==
  ASSUME NEW w, NEW v, NEW a, NotedOnly(w, v, a)
  PROVE  NotedOnly(w, Raised(v), a)
<1>1. /\ Family(Raised(v)) /\ Raised(v).acct = v.acct
  BY RaisedFamily DEF NotedOnly
<1> QED BY <1>1 DEF NotedOnly, Restated

(* The fields an accountant keeps for itself.                              *)
LEMMA NotedPending ==
  ASSUME NEW w, Family(w), NEW a \in Accountants,
         NEW q \in {None} \union Seq(Queued)
  PROVE  LET v == [w EXCEPT !.acct[a].pending = q]
         IN  NotedOnly(w, v, a) /\ v.ok = w.ok
<1> DEFINE v == [w EXCEPT !.acct[a].pending = q]
<1>1. IsWorld(w)
  BY DEF Family
<1>2. /\ IsWorld(v) /\ v.tree = w.tree /\ v.ok = w.ok
      /\ Restated(w, v, {})
      /\ \A b \in Accountants : b # a => v.acct[b] = w.acct[b]
  BY <1>1, SetPending
<1> HIDE DEF v
<1>3. Family(v)
  BY <1>2, Annotated
<1> QED BY <1>2, <1>3 DEF NotedOnly, v

LEMMA NotedType ==
  ASSUME NEW w, Family(w), NEW a \in Accountants, NEW t \in Types
  PROVE  LET v == [w EXCEPT !.acct[a].type = t]
         IN  NotedOnly(w, v, a) /\ v.ok = w.ok
<1> DEFINE r == [w.acct[a] EXCEPT !.type = t]
           v == [w EXCEPT !.acct[a] = r]
<1>1. w.acct[a] \in Accountant /\ IsWorld(w)
  BY WorldType DEF Family
<1>2. /\ r \in Accountant /\ r.state = w.acct[a].state /\ r.pq = w.acct[a].pq
      /\ r.size = w.acct[a].size /\ r.budget = w.acct[a].budget
  BY <1>1 DEF Accountant
<1>3. v = [w EXCEPT !.acct[a].type = t]
  BY <1>1 DEF IsWorld
<1> HIDE DEF r
<1>4. /\ IsWorld(v) /\ v.tree = w.tree /\ v.ok = w.ok /\ v.acct[a] = r
      /\ \A b \in Accountants : b # a => v.acct[b] = w.acct[b]
  BY <1>1, <1>2, SetAccount
<1> HIDE DEF v
<1>5. Restated(w, v, {})
  BY <1>2, <1>4 DEF Restated
<1>6. Family(v)
  BY <1>4, <1>5, Annotated
<1> QED BY <1>3, <1>4, <1>5, <1>6 DEF NotedOnly

LEMMA NotedDistance ==
  ASSUME NEW w, Family(w), NEW a \in Accountants, NEW d \in Dist
  PROVE  LET v == [w EXCEPT !.acct[a].dIn = d]
         IN  NotedOnly(w, v, a) /\ v.ok = w.ok
<1> DEFINE r == [w.acct[a] EXCEPT !.dIn = d]
           v == [w EXCEPT !.acct[a] = r]
<1>1. w.acct[a] \in Accountant /\ IsWorld(w)
  BY WorldType DEF Family
<1>2. /\ r \in Accountant /\ r.state = w.acct[a].state /\ r.pq = w.acct[a].pq
      /\ r.size = w.acct[a].size /\ r.budget = w.acct[a].budget
  BY <1>1 DEF Accountant
<1>3. v = [w EXCEPT !.acct[a].dIn = d]
  BY <1>1 DEF IsWorld
<1> HIDE DEF r
<1>4. /\ IsWorld(v) /\ v.tree = w.tree /\ v.ok = w.ok /\ v.acct[a] = r
      /\ \A b \in Accountants : b # a => v.acct[b] = w.acct[b]
  BY <1>1, <1>2, SetAccount
<1> HIDE DEF v
<1>5. Restated(w, v, {})
  BY <1>2, <1>4 DEF Restated
<1>6. Family(v)
  BY <1>4, <1>5, Annotated
<1> QED BY <1>3, <1>4, <1>5, <1>6 DEF NotedOnly

LEMMA SameNoted ==
  ASSUME NEW w, Family(w), NEW a
  PROVE  NotedOnly(w, w, a)
BY SameWorld DEF NotedOnly

(* What an accountant may take for its new distance.                       *)
LEMMA KnownDistance ==
  ASSUME NEW d \in Dist, NEW t \in Transformation, NEW hint \in Dist \union {None}
  PROVE  /\ t.stab[d] \in Dist
         /\ \A e \in Stabilities(d, t, hint) : e \in Dist
<1>1. t.stab \in [Dist -> Dist]
  BY DEF Transformation
<1> QED BY <1>1 DEF Stabilities

LEMMA TransformFamily ==
  ASSUME NEW w, Family(w), NEW a \in Accountants,
         NEW t \in Transformations, NEW hint \in Dist \union {None}
  PROVE  LET v == TransformInPlace(w, a, t, hint)
         IN  NotedOnly(w, v, a)
<1> DEFINE v == TransformInPlace(w, a, t, hint)
           me == w.acct[a]
           refused == \/ me.state # "ACTIVE" \/ ~ HasQueryable(w, a)
                      \/ t.in # me.type
                      \/ hint # None /\ ~ t.stab[me.dIn] <= hint
           asked == SubmitTransformation(w, a, t, hint)
           known == Stabilities(me.dIn, t, hint)
           typed == [asked EXCEPT !.acct[a].type = t.out]
           d == CHOOSE e \in known : TRUE
           moved == [typed EXCEPT !.acct[a].dIn = d]
<1>1. t \in Transformation /\ Monotone(t) /\ t.out \in Types
  <2>1. t \in Transformation /\ Monotone(t)
    BY TransformationsAssumption
  <2> QED BY <2>1 DEF Transformation
<1>2. me.dIn \in Dist
  BY WorldType DEF Family
<1>3. \A e \in known : e \in Dist
  BY <1>1, <1>2, KnownDistance
<1>4. v = IF refused THEN Raised(w)
          ELSE IF ~ asked.ok THEN asked
          ELSE IF known = {} THEN Raised(typed) ELSE moved
  BY DEF TransformInPlace
<1>5. CASE refused
  <2>1. v = Raised(w)
    BY <1>4, <1>5
  <2> QED BY <2>1, SameNoted, RaisedNoted
<1>6. CASE ~ refused
  <2>1. InUse(w, a)
    BY <1>6 DEF InUse
  <2>2. Family(asked) /\ asked.acct = w.acct
    BY <1>1, <2>1, SubmittedTransformation
  <2> HIDE DEF asked, known, refused, v
  <2>3. NotedOnly(w, asked, a)
    BY <2>2 DEF NotedOnly, Restated
  <2>4. NotedOnly(asked, typed, a)
    BY <1>1, <2>2, NotedType
  <2> HIDE DEF typed
  <2>5. NotedOnly(w, typed, a) /\ Family(typed)
    BY <2>3, <2>4, NotedOn DEF NotedOnly
  <2>6. NotedOnly(w, Raised(typed), a)
    BY <2>5, RaisedNoted
  <2>7. ASSUME known # {} PROVE NotedOnly(w, moved, a)
    <3>1. d \in Dist
      BY <1>3, <2>7
    <3> HIDE DEF d
    <3>2. NotedOnly(typed, moved, a)
      BY <2>5, <3>1, NotedDistance
    <3> HIDE DEF moved
    <3> QED BY <2>5, <3>2, NotedOn
  <2> HIDE DEF moved
  <2>8. NotedOnly(w, v, a)
    BY <1>4, <1>6, <2>3, <2>6, <2>7
  <2> QED BY <2>8 DEF v
<1> QED BY <1>5, <1>6

LEMMA QueueFamily ==
  ASSUME NEW w, Family(w), NEW a \in Accountants,
         NEW t \in Transformations, NEW hint \in Dist \union {None}
  PROVE  LET v == QueueTransformation(w, a, t, hint)
         IN  NotedOnly(w, v, a)
<1> DEFINE v == QueueTransformation(w, a, t, hint)
           me == w.acct[a]
           before == IF me.pending = None THEN <<>> ELSE me.pending
           out == IF before = <<>> THEN me.type ELSE before[Len(before)].t.out
           after == Append(before, [t |-> t, hint |-> hint])
           started == [w EXCEPT !.acct[a].pending = before]
           queued == [w EXCEPT !.acct[a].pending = after]
           refused == hint # None /\ ChainRelation(after, me.dIn, hint) # {FALSE}
           ds == IF hint \in {None, 0}
                 THEN IF t.fn THEN {t.stab[me.dIn]} ELSE {}
                 ELSE {hint}
           d == CHOOSE e \in ds : TRUE
           far == [queued EXCEPT !.acct[a].dIn = d]
           done == [far EXCEPT !.acct[a].type = t.out]
<1>1. t \in Transformation /\ t.out \in Types
  <2>1. t \in Transformation
    BY TransformationsAssumption
  <2> QED BY <2>1 DEF Transformation
<1>2. me \in Accountant /\ me.dIn \in Dist /\ me.type \in Types
  BY WorldType DEF Family
<1>3. before \in Seq(Queued) /\ after \in Seq(Queued)
  <2>1. before \in Seq(Queued)
    BY <1>2 DEF Accountant
  <2>2. [t |-> t, hint |-> hint] \in Queued
    BY DEF Queued
  <2> HIDE DEF before
  <2> QED BY <2>1, <2>2
<1>4. \A e \in ds : e \in Dist
  BY <1>1, <1>2, KnownDistance
<1>5. [queued EXCEPT !.acct[a].dIn = CHOOSE e \in ds : TRUE,
                     !.acct[a].type = t.out] = done
  OBVIOUS
<1>6. CASE me.state = "RETIRED"
  <2>1. v = Raised(w)
    BY <1>6 DEF QueueTransformation
  <2> QED BY <2>1, SameNoted, RaisedNoted
<1>7. CASE me.state = "ACTIVE"
  <2>1. v = TransformInPlace(w, a, t, hint)
    BY <1>7 DEF QueueTransformation
  <2> QED BY <2>1, TransformFamily
<1>8. CASE me.state \notin {"RETIRED", "ACTIVE"}
  <2>1. v = IF t.in # out \/ refused THEN Raised(started)
            ELSE IF ds = {} THEN Raised(queued) ELSE done
    BY <1>5, <1>8 DEF QueueTransformation
  <2> HIDE DEF refused, out, ds, v, before, after
  <2>2. NotedOnly(w, started, a) /\ NotedOnly(w, queued, a)
    BY <1>3, NotedPending
  <2> HIDE DEF started, queued
  <2>3. NotedOnly(w, Raised(started), a) /\ NotedOnly(w, Raised(queued), a)
    BY <2>2, RaisedNoted
  <2>4. ASSUME ds # {} PROVE NotedOnly(w, done, a)
    <3>1. d \in Dist
      BY <1>4, <2>4
    <3> HIDE DEF d
    <3>2. NotedOnly(queued, far, a)
      BY <2>2, <3>1, NotedDistance DEF NotedOnly
    <3> HIDE DEF far
    <3>3. NotedOnly(far, done, a)
      BY <1>1, <3>2, NotedType DEF NotedOnly
    <3> HIDE DEF done
    <3> QED BY <2>2, <3>2, <3>3, NotedOn
  <2> HIDE DEF done
  <2>5. NotedOnly(w, v, a)
    BY <2>1, <2>3, <2>4
  <2> QED BY <2>5 DEF v
<1> QED BY <1>6, <1>7, <1>8

-----------------------------------------------------------------------------
(* measure, and what split has in common with it                           *)

(* An accountant that pays no less than its queryable charges still shows  *)
(* no more than the queryable has.                                         *)
LEMMA SpendBoth ==
  ASSUME NEW b \in Budgets, NEW r \in Budgets, NEW c \in Budgets,
         CanSpend(b, c), Compare(b, r)
  PROVE  /\ Compare(Subtract(b, c), r)
         /\ CanSpend(r, c) => Compare(Subtract(b, c), Subtract(r, c))
<1> USE DeltaAssumption, InfiniteAssumption, MeasureAssumption
<1>1. /\ b.eps \in Amount /\ r.eps \in Amount /\ c.eps \in Amount
      /\ b.delta \in Nat /\ r.delta \in Nat /\ c.delta \in Nat
  BY DEF Budgets
<1>2. CASE ~ IsFinite(b)
  <2>1. Subtract(b, c) = b /\ ~ IsFinite(r)
    BY <1>1, <1>2 DEF Subtract, Compare, IsFinite, AmountAtMost, Amount
  <2>2. Subtract(r, c) = r
    BY <2>1 DEF Subtract
  <2> QED BY <2>1, <2>2
<1>3. CASE IsFinite(b)
  <2>1. /\ b.eps \in Nat /\ c.eps \in Nat /\ c.eps <= b.eps /\ c.delta <= b.delta
    BY <1>1, <1>3 DEF CanSpend, IsFinite, AmountAtMost, Amount
  <2>2. Subtract(b, c) = [eps |-> b.eps - c.eps, delta |-> b.delta - c.delta]
    BY <1>3 DEF Subtract
  <2>3. Compare(Subtract(b, c), r)
    BY <1>1, <1>3, <2>1, <2>2 DEF Compare, AmountAtMost, Amount
  <2>4. CASE ~ IsFinite(r)
    <3>1. Subtract(r, c) = r
      BY <2>4 DEF Subtract
    <3> QED BY <2>3, <3>1
  <2>5. CASE IsFinite(r)
    <3>1. /\ r.eps \in Nat /\ b.eps <= r.eps /\ b.delta <= r.delta
      BY <1>1, <2>1, <2>5 DEF Compare, IsFinite, AmountAtMost, Amount
    <3>2. Subtract(r, c) = [eps |-> r.eps - c.eps, delta |-> r.delta - c.delta]
      BY <2>5 DEF Subtract
    <3> QED BY <1>1, <2>1, <2>2, <2>3, <3>1, <3>2 DEF Compare, AmountAtMost
  <2> QED BY <2>3, <2>4, <2>5
<1> QED BY <1>2, <1>3

LEMMA SetBudget ==
  ASSUME NEW w, IsWorld(w), NEW a \in Accountants, NEW b \in Budgets
  PROVE  LET v == [w EXCEPT !.acct[a].budget = b]
         IN  /\ IsWorld(v) /\ v.tree = w.tree /\ v.ok = w.ok
             /\ \A y \in Accountants :
                  /\ v.acct[y].state = w.acct[y].state
                  /\ v.acct[y].pq = w.acct[y].pq /\ v.acct[y].size = w.acct[y].size
             /\ v.acct[a].budget = b
             /\ \A y \in Accountants : y # a => v.acct[y] = w.acct[y]
<1> DEFINE r == [w.acct[a] EXCEPT !.budget = b]
           v == [w EXCEPT !.acct[a] = r]
<1>1. w.acct[a] \in Accountant
  BY WorldType
<1>2. /\ r \in Accountant /\ r.state = w.acct[a].state /\ r.pq = w.acct[a].pq
      /\ r.size = w.acct[a].size /\ r.budget = b
  BY <1>1 DEF Accountant
<1>3. v = [w EXCEPT !.acct[a].budget = b]
  BY DEF IsWorld
<1> HIDE DEF r
<1>4. /\ IsWorld(v) /\ v.tree = w.tree /\ v.ok = w.ok /\ v.acct[a] = r
      /\ \A y \in Accountants : y # a => v.acct[y] = w.acct[y]
  BY <1>2, SetAccount
<1> HIDE DEF v
<1>5. \A y \in Accountants :
        /\ v.acct[y].state = w.acct[y].state
        /\ v.acct[y].pq = w.acct[y].pq /\ v.acct[y].size = w.acct[y].size
  BY <1>2, <1>4
<1> QED BY <1>2, <1>3, <1>4, <1>5

(* Nobody is in use below an ACTIVE accountant.                            *)
LEMMA BelowActive ==
  ASSUME NEW w, Family(w), NEW a \in Accountants, w.acct[a].state = "ACTIVE",
         NEW b \in Accountants
  PROVE  /\ Present(w, b) => ~ StrictlyBelow(b, a)
         /\ Waits(w, b) => /\ ParallelOf(w, b) \in Path
                           /\ ParallelOf(w, b) \notin Accountants
                           /\ ~ StrictlyBelow(ParallelOf(w, b), a)
<1>1. ASSUME Present(w, b) PROVE ~ StrictlyBelow(b, a)
  BY <1>1 DEF Family, Chain, Waits
<1>2. ASSUME Waits(w, b)
      PROVE  /\ ParallelOf(w, b) \in Path /\ ParallelOf(w, b) \notin Accountants
             /\ ~ StrictlyBelow(ParallelOf(w, b), a)
  <2> DEFINE r == ParallelOf(w, b)
  <2>1. r \in Path /\ r = Append(b, w.acct[b].pq)
    BY <1>2 DEF Family, Usable, AnswersParts, ParallelOf
  <2>2. r \notin Accountants /\ a \in Path /\ b \in Path
    BY <2>1, ChildIsAccountant DEF Accountants
  <2> HIDE DEF r
  <2>3. ~ StrictlyBelow(r, a)
    <3> SUFFICES ASSUME StrictlyBelow(r, a) PROVE FALSE
      OBVIOUS
    <3>1. Below(r, a) /\ r # a
      BY DEF StrictlyBelow
    <3>2. Below(b, a)
      BY <2>1, <2>2, <3>1, AboveAnswer
    <3>3. b # a /\ Present(w, b)
      BY <1>2 DEF Waits, Present
    <3> QED BY <1>1, <3>2, <3>3 DEF StrictlyBelow
  <2> QED BY <2>1, <2>2, <2>3 DEF r
<1> QED BY <1>1, <1>2

(* v is w after a paid: what it asked its queryable may have been refused, *)
(* have failed, or have been answered.                                     *)
PaidFor(w, v, a) ==
  /\ Family(v) /\ Carried(w, v)
  /\ \A b \in Accountants : b # a => v.acct[b] = w.acct[b]

Answered(w, v, a, m) ==
  LET c == Append(a, w.tree[a].next)
  IN  /\ c \in Path /\ Live(v.tree, c) /\ ~ IsOpen(w.tree, c)
      /\ v.tree[c].kind = m.kind /\ v.tree[c].next = 1
      /\ m.kind = "parallel" => v.tree[c].parts = m.parts
      /\ \A x \in Path : IsOpen(v.tree, x) => IsOpen(w.tree, x) \/ x = c

LEMMA PaidAndAsked ==
  ASSUME NEW w, Family(w), NEW a \in Accountants, w.acct[a].state = "ACTIVE",
         Len(a) < MaxDepth, w.tree[a].next <= MaxFan,
         NEW m, WellMade(m), NEW hint \in Budgets \union {None},
         NEW b \in Budgets, CanSpend(w.acct[a].budget, b),
         \A c \in Accepted(w.tree[a], m, hint) : c = b,
         NEW raises \in BOOLEAN,
         NEW paid, paid = [w EXCEPT !.acct[a].budget = Subtract(@, b)],
         NEW v, v = SubmitMeasurement(paid, a, m, hint, raises)
  PROVE  PaidFor(w, v, a) /\ (v.ok => Answered(w, v, a, m))
<1> DEFINE tr == w.tree
           left == Subtract(w.acct[a].budget, b)
           n == tr[a].next
           c == Append(a, n)
           costs == Accepted(tr[a], m, hint)
<1>1. /\ IsWorld(w) /\ tr \in [Path -> Node] /\ Sound(tr)
      /\ w.acct[a].budget \in Budgets /\ left \in Budgets
      /\ a \in Path
  BY WorldType, SubtractType DEF Family, Accountants
<1>2. Live(tr, a) /\ tr[a].kind = "sequential" /\ IsOpen(tr, a)
  BY DEF Family, Usable, InUse, Live
<1>3. /\ tr[a] \in Node /\ n \in 1 .. MaxFan /\ tr[a].remaining \in Budgets
      /\ tr[a].dIn \in Dist
  <2>1. tr[a] \in Node
    BY <1>1
  <2> QED BY <2>1, FanAssumption DEF Node
<1>4. /\ c \in Path /\ c \notin Accountants
  BY <1>1, <1>3, AnswerInPath, ChildIsAccountant
<1>5. Compare(w.acct[a].budget, tr[a].remaining)
  BY <1>2 DEF Family, BudgetsWithin
<1>6. /\ IsWorld(paid) /\ paid.tree = tr /\ paid.ok = w.ok
      /\ \A y \in Accountants :
           /\ paid.acct[y].state = w.acct[y].state
           /\ paid.acct[y].pq = w.acct[y].pq /\ paid.acct[y].size = w.acct[y].size
      /\ paid.acct[a].budget = left
      /\ \A y \in Accountants : y # a => paid.acct[y] = w.acct[y]
  <2> DEFINE z == [w EXCEPT !.acct[a].budget = left]
  <2>1. paid = z
    OBVIOUS
  <2>2. IsWorld(w) /\ left \in Budgets
    BY <1>1
  <2> HIDE DEF left
  <2>3. /\ IsWorld(z) /\ z.tree = w.tree /\ z.ok = w.ok
        /\ \A y \in Accountants :
             /\ z.acct[y].state = w.acct[y].state
             /\ z.acct[y].pq = w.acct[y].pq /\ z.acct[y].size = w.acct[y].size
        /\ z.acct[a].budget = left
        /\ \A y \in Accountants : y # a => z.acct[y] = w.acct[y]
    BY <2>2, SetBudget
  <2> HIDE DEF z
  <2> QED BY <2>1, <2>3
<1>7. ASSUME NEW z, IsWorld(z), z.acct = paid.acct, Sound(z.tree),
             NEW x \in Path,
             LiveSet(z.tree) \in
               {{y \in LiveSet(tr) : ~ StrictlyBelow(y, a)},
                {y \in LiveSet(tr) : ~ StrictlyBelow(y, a)} \union {c},
                LiveSet(tr)},
             \A y \in Path : IsOpen(tr, y) => IsOpen(z.tree, y),
             \A y \in Path : IsOpen(z.tree, y) => IsOpen(tr, y) \/ y = c,
             \A y \in Path \ {a, c} : SameCore(tr[y], z.tree[y]),
             z.tree[a].kind = "sequential",
             Compare(left, z.tree[a].remaining)
      PROVE  PaidFor(w, z, a)
  <2> DEFINE u == z.tree
  <2>1. \A y \in Path : Live(tr, y) /\ ~ StrictlyBelow(y, a) => Live(u, y)
    BY <1>7 DEF LiveSet
  <2>2. Carried(w, z)
    <3>1. ASSUME NEW y \in Accountants
          PROVE  /\ InUse(w, y) => Live(u, y) /\ u[y].kind = "sequential"
                 /\ Waits(w, y) =>
                      /\ Live(u, ParallelOf(w, y))
                      /\ SameCore(tr[ParallelOf(w, y)], u[ParallelOf(w, y)])
      <4>1. y \in Path /\ y # c
        BY <1>4 DEF Accountants
      <4>2. ASSUME InUse(w, y) PROVE Live(u, y) /\ u[y].kind = "sequential"
        <5>1. Live(tr, y) /\ tr[y].kind = "sequential"
          BY <4>2 DEF Family, Usable
        <5>2. ~ StrictlyBelow(y, a)
          BY <4>2, BelowActive DEF InUse, Present
        <5> QED BY <1>7, <2>1, <4>1, <5>1, <5>2 DEF SameCore
      <4>3. ASSUME Waits(w, y)
            PROVE  /\ Live(u, ParallelOf(w, y))
                   /\ SameCore(tr[ParallelOf(w, y)], u[ParallelOf(w, y)])
        <5> DEFINE r == ParallelOf(w, y)
        <5>1. r \in Path /\ r \notin Accountants /\ ~ StrictlyBelow(r, a)
          BY <4>3, BelowActive
        <5>2. Live(tr, r)
          BY <4>3 DEF Family, Usable, AnswersParts
        <5>3. r # a /\ r # c
          <6>1. y # a /\ r = Append(y, w.acct[y].pq)
            BY <4>3 DEF Waits, ParallelOf
          <6> HIDE DEF r
          <6>2. Append(y, w.acct[y].pq) = Append(a, n) => y = a
            BY <1>1, <4>1, <5>1, <6>1, AnswerOfOne
          <6> QED BY <5>1, <6>1, <6>2
        <5> HIDE DEF r, u
        <5> QED BY <1>7, <2>1, <5>1, <5>2, <5>3 DEF r, u
      <4> QED BY <4>2, <4>3
    <3>2. \A y \in Accountants :
            /\ z.acct[y].state = w.acct[y].state
            /\ z.acct[y].pq = w.acct[y].pq /\ z.acct[y].size = w.acct[y].size
            /\ w.acct[y].state = "WAITING_FOR_SIBLING" =>
                 z.acct[y].budget = w.acct[y].budget
      BY <1>6, <1>7
    <3> QED BY <1>7, <3>1, <3>2 DEF Carried
  <2>3. BudgetsWithin(z)
    <3> SUFFICES ASSUME NEW y \in Accountants, IsOpen(u, y)
                 PROVE  Compare(z.acct[y].budget, u[y].remaining)
      BY DEF BudgetsWithin
    <3>1. CASE y = a
      BY <1>6, <1>7, <3>1
    <3>2. CASE y # a
      <4>1. y \in Path \ {a, c}
        BY <1>4, <3>2 DEF Accountants
      <4>2. IsOpen(tr, y) /\ SameCore(tr[y], u[y])
        BY <1>7, <4>1
      <4>3. Compare(w.acct[y].budget, tr[y].remaining)
        BY <4>2 DEF Family, BudgetsWithin
      <4> QED BY <1>6, <1>7, <3>2, <4>2, <4>3 DEF SameCore
    <3> QED BY <3>1, <3>2
  <2>4. Family(z)
    BY <1>7, <2>2, <2>3, CarriedFamily
  <2> QED BY <1>6, <1>7, <2>2, <2>4 DEF PaidFor
<1> HIDE DEF tr, left, costs
<1>8. CASE ~ Live(tr, a) \/ costs = {}
  <2>1. v = Raised(paid)
    BY <1>6, <1>8 DEF SubmitMeasurement, costs, tr
  <2>2. /\ IsWorld(v) /\ v.acct = paid.acct /\ v.tree = tr /\ v.ok = FALSE
    BY <1>6, <2>1 DEF IsWorld, Raised
  <2>3. Compare(left, tr[a].remaining)
    BY <1>1, <1>3, <1>5, SpendBoth DEF left
  <2>4. \A y : SameCore(tr[y], tr[y])
    BY DEF SameCore
  <2>5. PaidFor(w, v, a)
    BY <1>1, <1>2, <1>7, <2>2, <2>3, <2>4
  <2> QED BY <2>2, <2>5
<1>9. CASE Live(tr, a) /\ costs # {}
  <2> DEFINE cost == CHOOSE e \in costs : TRUE
             u == Measured(tr, a, m, cost, raises)
  <2>1. cost \in costs /\ cost = b
    BY <1>9 DEF costs, tr
  <2> HIDE DEF cost
  <2>2. CanSpend(tr[a].remaining, b)
    BY <2>1 DEF costs, Accepted
  <2>3. v = [paid EXCEPT !.tree = u, !.ok = ~ raises]
    BY <1>6, <1>9 DEF SubmitMeasurement, costs, tr, cost
  <2> DEFINE kept == {x \in LiveSet(tr) : ~ StrictlyBelow(x, a)}
  <2>4. /\ Sound(u) /\ ~ IsOpen(tr, c)
        /\ raises => OpenSet(u) = OpenSet(tr) /\ LiveSet(u) = kept
        /\ ~ raises =>
             /\ OpenSet(u) = OpenSet(tr) \union {c}
             /\ LiveSet(u) = kept \union {c}
             /\ u[c].kind = m.kind /\ u[c].next = 1
             /\ m.kind = "parallel" => u[c].parts = m.parts
        /\ \A x \in Path \ {a, c} : SameCore(tr[x], u[x])
        /\ u[a].remaining = Subtract(tr[a].remaining, cost)
        /\ u[a].kind = tr[a].kind
    <3> HIDE DEF kept, u, cost
    <3>1. /\ Sound(tr) /\ a \in Path /\ Live(tr, a) /\ tr[a].kind = "sequential"
          /\ Append(a, tr[a].next) \in Path /\ WellMade(m)
          /\ hint \in Budgets \union {None} /\ cost \in Accepted(tr[a], m, hint)
          /\ raises \in BOOLEAN
      BY <1>1, <1>2, <1>4, <2>1 DEF costs
    <3>2. IsMeasured(tr, a, m, cost, raises, u)
      BY <3>1, MeasuredTree, Zenon DEF u
    <3> QED BY <3>2 DEF kept, IsMeasured
  <2> HIDE DEF u, kept
  <2>5. u \in [Path -> Node]
    BY <2>4 DEF Sound, WellRetired, Shaped
  <2>6. IsWorld(v) /\ v.acct = paid.acct /\ v.tree = u /\ v.ok = ~ raises
    BY <1>6, <2>3, <2>5 DEF IsWorld
  <2>7. Compare(left, u[a].remaining)
    BY <1>1, <1>3, <1>5, <2>1, <2>2, <2>4, SpendBoth DEF left
  <2>8. /\ \A y \in Path : IsOpen(tr, y) => IsOpen(u, y)
        /\ \A y \in Path : IsOpen(u, y) => IsOpen(tr, y) \/ y = c
    BY <2>4 DEF OpenSet
  <2>9. LiveSet(u) = kept \/ LiveSet(u) = kept \union {c}
    BY <2>4
  <2>10. PaidFor(w, v, a)
    <3>1. LiveSet(v.tree) \in
               {{y \in LiveSet(tr) : ~ StrictlyBelow(y, a)},
                {y \in LiveSet(tr) : ~ StrictlyBelow(y, a)} \union {c},
                LiveSet(tr)}
      BY <2>6, <2>9 DEF kept
    <3> QED BY <1>1, <1>2, <1>7, <2>4, <2>6, <2>7, <2>8, <3>1
  <2>11. ASSUME v.ok PROVE Answered(w, v, a, m)
    <3>1. Live(u, c)
      BY <2>4, <2>6, <2>11 DEF LiveSet
    <3> QED BY <1>4, <2>4, <2>6, <2>8, <2>11, <3>1 DEF Answered, tr
  <2> QED BY <2>10, <2>11
<1> QED BY <1>8, <1>9

LEMMA PaidDocumented ==
  ASSUME NEW w, NEW v, NEW a \in Accountants, PaidFor(w, v, a),
         w.acct[a].state = "ACTIVE"
  PROVE  Documented(w, v)
BY DEF PaidFor, Carried, Documented

LEMMA MeasureFamily ==
  ASSUME NEW w, Family(w), NEW a \in Accountants,
         Len(a) < MaxDepth, w.tree[a].next <= MaxFan,
         NEW m, WellMade(m), NEW hint \in Budgets \union {None},
         NEW raises \in BOOLEAN
  PROVE  LET v == Measure(w, a, m, hint, raises)
         IN  Family(v) /\ Documented(w, v)
<1> DEFINE v == Measure(w, a, m, hint, raises)
           me == w.acct[a]
           nd == [type |-> me.type, dIn |-> me.dIn, remaining |-> me.budget]
           costs == Accepted(nd, m, hint)
           cost == CHOOSE c \in costs : TRUE
           paid == [w EXCEPT !.acct[a].budget = Subtract(@, cost)]
           refused == me.state # "ACTIVE" \/ ~ HasQueryable(w, a) \/ costs = {}
<1>1. v = IF refused THEN Raised(w)
          ELSE SubmitMeasurement(paid, a, m, cost, raises)
  BY DEF Measure
<1>2. CASE refused
  <2>1. v = Raised(w)
    BY <1>1, <1>2
  <2> QED BY <2>1, RaisedFamily DEF Documented
<1>3. CASE ~ refused
  <2>1. cost \in costs
    BY <1>3
  <2>2. nd.dIn \in Dist /\ nd.remaining = me.budget
    BY WorldType DEF Family
  <2> HIDE DEF cost, nd
  <2>3. cost \in Budgets /\ CanSpend(me.budget, cost)
    BY <2>1, <2>2, AcceptedType DEF WellMade
  <2>4. \A c \in Accepted(w.tree[a], m, cost) : c = cost
    BY <2>3, HintsAssumption DEF Accepted, Charges
  <2> HIDE DEF paid, costs, v
  <2>5. /\ v = SubmitMeasurement(paid, a, m, cost, raises)
        /\ w.acct[a].state = "ACTIVE"
        /\ cost \in Budgets \union {None}
    BY <1>1, <1>3, <2>3
  <2>6. paid = [w EXCEPT !.acct[a].budget = Subtract(@, cost)]
    BY DEF paid
  <2>7. PaidFor(w, v, a)
    BY <2>3, <2>4, <2>5, <2>6, PaidAndAsked
  <2> QED BY <2>5, <2>7, PaidDocumented DEF PaidFor, v
<1> QED BY <1>2, <1>3

-----------------------------------------------------------------------------
(* split                                                                   *)

(* v is u with an accountant for each of the n children of a's answer q,   *)
(* of which the first has its turn.                                        *)
SplitInto(u, v, a, q, n, b) ==
  LET child(i) == Append(Append(a, q), i)
  IN  /\ IsWorld(v) /\ v.tree = Indexed(u.tree, Append(a, q), FALSE)
      /\ v.acct[a].state = "WAITING_FOR_CHILDREN"
      /\ v.acct[a].pq = q /\ v.acct[a].size = n
      /\ v.acct[a].budget = u.acct[a].budget
      /\ \A i \in 1 .. n :
           /\ v.acct[child(i)].state =
                IF i = 1 THEN "ACTIVE" ELSE "WAITING_FOR_SIBLING"
           /\ v.acct[child(i)].budget = b /\ v.acct[child(i)].size = 0
      /\ \A y \in Accountants :
           y # a /\ (\A i \in 1 .. n : y # child(i)) => v.acct[y] = u.acct[y]

(* The answer q of a is a new parallel queryable of n compositions with    *)
(* budget b, and nobody has seen an answer of it.                          *)
ReadyToSplit(u, a, q, n, b) ==
  LET nd == u.tree[Append(a, q)]
  IN  /\ u.acct[a].state = "ACTIVE" /\ Len(a) + 2 <= MaxDepth
      /\ Append(a, q) \in Path /\ Live(u.tree, Append(a, q))
      /\ nd.kind = "parallel" /\ nd.next = 1 /\ Len(nd.parts) = n
      /\ \A i \in 1 .. n : nd.parts[i].kind = "sequential" /\ nd.parts[i].budget = b
      /\ \A i \in 1 .. n : u.acct[Append(Append(a, q), i)].state = "none"

LEMMA SplitPlaces ==
  ASSUME NEW a \in Accountants, Len(a) + 2 <= MaxDepth,
         NEW q, Append(a, q) \in Path, NEW n \in 1 .. MaxFan
  PROVE  /\ q \in 1 .. MaxFan /\ Append(a, q) \notin Accountants
         /\ \A i \in 1 .. n :
              /\ Append(Append(a, q), i) \in Accountants
              /\ IsChild(Append(Append(a, q), i), a, q, i)
              /\ Append(Append(a, q), i) # a
         /\ \A i, j \in 1 .. n :
              Append(Append(a, q), i) = Append(Append(a, q), j) => i = j
<1> DEFINE p == Append(a, q)
<1>1. a \in Path /\ Len(a) \in Nat /\ q \in 1 .. MaxFan /\ Len(p) = Len(a) + 1
      /\ p \notin Accountants
  BY PathType, AppendPath, ChildIsAccountant DEF Accountants
<1>2. ASSUME NEW i \in 1 .. n
      PROVE  /\ Append(p, i) \in Accountants /\ IsChild(Append(p, i), a, q, i)
             /\ Append(p, i) # a
  <2>1. i \in 1 .. MaxFan /\ Len(p) < MaxDepth
    BY <1>1, FanAssumption, DepthAssumption
  <2>2. Append(p, i) \in Path
    <3> HIDE DEF p
    <3>1. p \in Path
      BY DEF p
    <3> QED BY <2>1, <3>1, AnswerInPath
  <2>3. Append(p, i) \in Accountants
    BY <2>2, ChildIsAccountant
  <2>4. q \in Nat /\ i \in Nat
    BY <1>1, <2>1
  <2>5. IsChild(Append(p, i), a, q, i)
    BY <2>3, <2>4, ChildNamed, Zenon
  <2> QED BY <2>3, <2>5 DEF IsChild, StrictlyBelow
<1>3. \A i, j \in 1 .. n : Append(p, i) = Append(p, j) => i = j
  <2> TAKE i, j \in 1 .. n
  <2>1. IsChild(Append(p, i), a, q, i) /\ IsChild(Append(p, j), a, q, j)
    BY <1>2
  <2> HIDE DEF p
  <2> QED BY <2>1 DEF IsChild
<1> QED BY <1>1, <1>2, <1>3

IsSplitTree(tr, a, q, n, b, t) ==
  LET p == Append(a, q)
      c == Append(p, 1)
  IN  /\ Sound(t) /\ c \in Path
      /\ OpenSet(t) = OpenSet(tr) \union {c}
      /\ LiveSet(t) = {y \in LiveSet(tr) : ~ StrictlyBelow(y, p)} \union {c}
      /\ t[c].kind = "sequential" /\ t[c].remaining = b
      /\ \A y \in Path \ {p, c} : SameCore(tr[y], t[y])
      /\ t[p].kind = "parallel" /\ t[p].parts = tr[p].parts
      /\ t[p].next = 2
      /\ \A i \in 1 .. n : ~ IsOpen(tr, Append(p, i))

LEMMA SplitTree ==
  ASSUME NEW u, Family(u), NEW a \in Accountants, NEW q, NEW n \in 1 .. MaxFan,
         NEW b, ReadyToSplit(u, a, q, n, b)
  PROVE  IsSplitTree(u.tree, a, q, n, b, Indexed(u.tree, Append(a, q), FALSE))
<1> DEFINE p == Append(a, q)
           tr == u.tree
           c == Append(p, 1)
           t == Indexed(tr, p, FALSE)
           d == Append(p, tr[p].next)
           part == tr[p].parts[tr[p].next]
<1>1. /\ tr[p].kind = "parallel" /\ tr[p].next = 1 /\ Len(tr[p].parts) = n
      /\ p \in Path /\ Live(tr, p) /\ Sound(tr)
      /\ \A i \in 1 .. n : tr[p].parts[i].kind = "sequential" /\ tr[p].parts[i].budget = b
      /\ Len(a) + 2 <= MaxDepth
  BY DEF ReadyToSplit, Family
<1>2. n \in Nat /\ 1 \in 1 .. n
  BY FanAssumption
<1>3. \A i \in 1 .. n : Append(p, i) \in Path
  BY <1>1, SplitPlaces DEF Accountants
<1>4. d = c /\ c \in Path /\ tr[p].next <= Len(tr[p].parts)
      /\ part.kind = "sequential" /\ part.budget = b
  BY <1>1, <1>2, <1>3
<1>5. ASSUME NEW i \in 1 .. n PROVE ~ IsOpen(tr, Append(p, i))
  <2>1. i \in 1 .. MaxFan /\ ~ (i < 1)
    BY FanAssumption
  <2>2. OpenedInOrder(tr)
    BY <1>1 DEF Sound, WellRetired
  <2> HIDE DEF p, tr
  <2> QED BY <1>1, <1>3, <2>1, <2>2 DEF OpenedInOrder
<1> HIDE DEF p, tr, c, part
<1>6. /\ Sound(t)
      /\ OpenSet(t) = OpenSet(tr) \union {d}
      /\ LiveSet(t) = {y \in LiveSet(tr) : ~ StrictlyBelow(y, p)} \union {d}
      /\ t[d].kind = part.kind
      /\ part.kind = "sequential" => t[d].remaining = part.budget
      /\ \A y \in Path \ {p, d} : SameCore(tr[y], t[y])
      /\ t[p].kind = tr[p].kind /\ t[p].parts = tr[p].parts
      /\ t[p].next = tr[p].next + 1
  BY <1>1, <1>4, IndexedTree DEF part
<1> HIDE DEF t, d
<1>7. 1 + 1 = 2
  OBVIOUS
<1> QED BY <1>1, <1>4, <1>5, <1>6, <1>7 DEF t, p, tr, c, IsSplitTree

LEMMA SplitFamily ==
  ASSUME NEW u, Family(u), NEW a \in Accountants, NEW q, NEW n \in 1 .. MaxFan,
         NEW b \in Budgets, ReadyToSplit(u, a, q, n, b),
         NEW v, SplitInto(u, v, a, q, n, b)
  PROVE  Family(v)
<1> DEFINE p == Append(a, q)
           child(i) == Append(p, i)
           c == child(1)
           tr == u.tree
           t == v.tree
           Kids == {child(i) : i \in 1 .. n}
<1>1. /\ n \in Nat /\ 1 \in 1 .. n /\ a \in Path /\ Len(a) \in Nat
      /\ u.acct[a].state = "ACTIVE" /\ Len(a) + 2 <= MaxDepth
      /\ p \in Path /\ Live(tr, p) /\ tr[p].next = 1 /\ Len(tr[p].parts) = n
      /\ \A i \in 1 .. n : tr[p].parts[i].kind = "sequential" /\ tr[p].parts[i].budget = b
  BY FanAssumption, PathType DEF ReadyToSplit, Accountants
<1>2. /\ p \notin Accountants /\ q \in 1 .. MaxFan
      /\ \A i \in 1 .. n : /\ child(i) \in Accountants /\ IsChild(child(i), a, q, i)
                           /\ child(i) # a
      /\ \A i, j \in 1 .. n : child(i) = child(j) => i = j
  BY <1>1, SplitPlaces
<1>3. /\ Sound(t) /\ c \in Path
      /\ OpenSet(t) = OpenSet(tr) \union {c}
      /\ LiveSet(t) = {y \in LiveSet(tr) : ~ StrictlyBelow(y, p)} \union {c}
      /\ t[c].kind = "sequential" /\ t[c].remaining = b
      /\ \A y \in Path \ {p, c} : SameCore(tr[y], t[y])
      /\ t[p].kind = "parallel" /\ t[p].parts = tr[p].parts
      /\ t[p].next = 2
      /\ \A i \in 1 .. n : ~ IsOpen(tr, child(i))
  <2>1. t = Indexed(u.tree, Append(a, q), FALSE)
    BY DEF SplitInto
  <2> HIDE DEF t
  <2>2. IsSplitTree(u.tree, a, q, n, b, t)
    BY <2>1, SplitTree, Zenon
  <2> QED BY <2>2 DEF IsSplitTree
<1>4. /\ IsWorld(v) /\ Waits(v, a) /\ v.acct[a].pq = q /\ v.acct[a].size = n
      /\ v.acct[a].budget = u.acct[a].budget
      /\ \A i \in 1 .. n :
           /\ v.acct[child(i)].state = IF i = 1 THEN "ACTIVE" ELSE "WAITING_FOR_SIBLING"
           /\ v.acct[child(i)].budget = b /\ v.acct[child(i)].size = 0
           /\ u.acct[child(i)].state = "none"
      /\ \A y \in Accountants : y # a /\ y \notin Kids => v.acct[y] = u.acct[y]
  BY DEF SplitInto, ReadyToSplit, Waits
<1>5. c \in Kids /\ c \in Accountants /\ a \notin Kids /\ c # a /\ c = child(1)
      /\ v.acct[c].state = "ACTIVE" /\ v.acct[c].budget = b
  BY <1>1, <1>2, <1>4
<1>6. \A y \in Accountants :
        /\ y # a /\ y \notin Kids =>
             /\ v.acct[y] = u.acct[y]
             /\ ParallelOf(v, y) = ParallelOf(u, y)
             /\ \A i : Child(v, y, i) = Child(u, y, i)
        /\ InUse(v, y) <=> InUse(u, y) \/ y = c
        /\ Waits(v, y) <=> Waits(u, y) \/ y = a
        /\ Waits(u, y) => y # a /\ y \notin Kids
  <2> TAKE y \in Accountants
  <2>1. CASE y = a
    BY <1>1, <1>4, <1>5, <2>1 DEF InUse, Waits
  <2>2. CASE y \in Kids
    <3>1. PICK i \in 1 .. n : y = child(i)
      BY <2>2
    <3>2. u.acct[y].state = "none" /\ y # a
      BY <1>2, <1>4, <3>1
    <3>3. v.acct[y].state = IF i = 1 THEN "ACTIVE" ELSE "WAITING_FOR_SIBLING"
      BY <1>4, <3>1
    <3>4. (i = 1) <=> (y = c)
      BY <1>1, <1>2, <3>1
    <3> HIDE DEF Kids, child, c
    <3> QED BY <2>2, <3>2, <3>3, <3>4 DEF InUse, Waits
  <2>3. CASE y # a /\ y \notin Kids
    BY <1>4, <1>5, <2>3 DEF InUse, Waits, ParallelOf, Child
  <2> QED BY <2>1, <2>2, <2>3
<1>7. /\ ParallelOf(v, a) = p /\ \A i : Child(v, a, i) = child(i)
  BY <1>4 DEF ParallelOf, Child
<1>8. \A y \in Kids : y \in Accountants /\ v.acct[y].size = 0
                      /\ v.acct[y].budget = b /\ ~ IsOpen(tr, y)
                      /\ u.acct[y].state = "none"
  <2> TAKE y \in Kids
  <2>1. PICK i \in 1 .. n : y = child(i)
    OBVIOUS
  <2> HIDE DEF child, Kids, tr
  <2> QED BY <1>2, <1>3, <1>4, <2>1
<1> HIDE DEF tr, t
(* The children of another accountant are not the new ones, and if it is a *)
(* that is one of them, a stays in use.                                    *)
<1>9. ASSUME NEW y \in Accountants, y # a, y \notin Kids, NEW k \in 1 .. u.acct[y].size
      PROVE  LET z == Child(u, y, k)
             IN  /\ z \in Accountants
                 /\ v.acct[z].budget = u.acct[z].budget
                 /\ z # a => v.acct[z].state = u.acct[z].state
                 /\ z = a => /\ v.acct[z].state = "WAITING_FOR_CHILDREN"
                             /\ u.acct[z].state = "ACTIVE"
  <2> DEFINE z == Child(u, y, k)
  <2>1. z \in Accountants /\ Parent(z) = y
    BY ChildPlace
  <2>2. z \notin Kids
    <3> SUFFICES ASSUME z \in Kids PROVE FALSE
      OBVIOUS
    <3>1. PICK i \in 1 .. n : z = child(i)
      OBVIOUS
    <3>2. Parent(z) = a
      BY <1>2, <3>1 DEF IsChild
    <3> QED BY <1>9, <2>1, <3>2
  <2> HIDE DEF z, Kids
  <2> QED BY <1>1, <1>4, <2>1, <2>2 DEF z, Waits
<1>10. ChildrenNamed(v)
  <2> SUFFICES ASSUME NEW y \in Accountants, NEW k \in 1 .. v.acct[y].size
               PROVE  Child(v, y, k) \in Accountants
    BY DEF ChildrenNamed
  <2>1. CASE y = a
    BY <1>2, <1>4, <1>7, <2>1
  <2>2. CASE y \in Kids
    BY <1>8, <2>2
  <2>3. CASE y # a /\ y \notin Kids
    BY <1>6, <1>9, <2>3
  <2> QED BY <2>1, <2>2, <2>3
<1>11. RootStarted(v)
  <2>1. CASE Root = a
    BY <1>4, <2>1 DEF RootStarted, Waits
  <2>2. CASE Root # a
    <3>1. Root \notin Kids
      BY <1>8 DEF Family, RootStarted
    <3> QED BY <1>6, <2>2, <3>1, RootIsAccountant DEF Family, RootStarted
  <2> QED BY <2>1, <2>2
<1>12. CameFromSplit(v)
  <2> SUFFICES ASSUME NEW y \in Accountants, NEW r \in 1 .. MaxFan,
                      NEW k \in 1 .. MaxFan, NEW z, z = Append(Append(y, r), k),
                      z \in Accountants, v.acct[z].state # "none"
               PROVE  IsOpen(t, Append(y, r))
    BY DEF CameFromSplit, t
  <2>1. r \in Nat /\ k \in Nat
    OBVIOUS
  <2>2. IsChild(z, y, r, k)
    BY <2>1, ChildNamed, Zenon
  <2>3. Append(y, r) \in Path
    BY <2>2 DEF IsChild
  <2>4. CASE z \in Kids
    <3>1. PICK i \in 1 .. n : z = child(i)
      BY <2>4
    <3>2. IsChild(z, a, q, i)
      BY <1>2, <3>1
    <3> HIDE DEF child, p, Kids
    <3>3. y = a /\ r = q
      BY <2>2, <3>2 DEF IsChild
    <3>4. IsOpen(tr, p)
      BY <1>1 DEF Live
    <3> QED BY <1>1, <1>3, <3>3, <3>4 DEF OpenSet, p
  <2>5. CASE z \notin Kids
    <3>1. u.acct[z].state # "none"
      BY <1>1, <1>6, <2>5
    <3>2. IsOpen(tr, Append(y, r))
      BY <3>1 DEF Family, CameFromSplit, tr
    <3> QED BY <1>3, <2>3, <3>2 DEF OpenSet
  <2> QED BY <2>4, <2>5
<1>13. Chain(v)
  <2> SUFFICES ASSUME NEW x \in Accountants, NEW y \in Accountants,
                      Present(v, x), StrictlyBelow(x, y)
               PROVE  /\ Waits(v, y)
                      /\ x[Len(y) + 1] = v.acct[y].pq
                      /\ x[Len(y) + 2] <= v.acct[y].size
    BY DEF Chain
  <2>1. CASE x \in Kids
    <3>1. PICK i \in 1 .. n : x = child(i)
      BY <2>1
    <3>2. IsChild(x, a, q, i)
      BY <1>2, <3>1
    <3>3. x \in Path /\ y \in Path /\ Below(x, y) /\ x # y
      BY DEF Accountants, StrictlyBelow
    <3>4. Below(a, y)
      <4>1. Below(p, y)
        BY <1>1, <3>1, <3>3, AboveAnswer
      <4>2. p # y
        BY <1>2
      <4> QED BY <1>1, <3>3, <4>1, <4>2, AboveAnswer
    <3>5. CASE y = a
      <4>1. x[Len(a) + 1] = q /\ x[Len(a) + 2] = i /\ i <= n
        BY <1>1, <3>2 DEF IsChild
      <4> QED BY <1>4, <3>5, <4>1
    <3>6. CASE y # a
      <4>1. StrictlyBelow(a, y)
        BY <3>4, <3>6 DEF StrictlyBelow
      <4>2. Present(u, a)
        BY <1>1 DEF Present
      <4>3. Waits(u, y) /\ a[Len(y) + 1] = u.acct[y].pq /\ a[Len(y) + 2] <= u.acct[y].size
        BY <4>1, <4>2 DEF Family, Chain
      <4>4. Len(y) + 2 <= Len(a) /\ Len(y) \in Nat
        BY <3>3, <4>1, BelowChild, PathType
      <4>5. x[Len(y) + 1] = a[Len(y) + 1] /\ x[Len(y) + 2] = a[Len(y) + 2]
        BY <1>1, <3>2, <4>4 DEF IsChild, StrictlyBelow, Below
      <4> QED BY <1>6, <4>3, <4>5
    <3> QED BY <3>5, <3>6
  <2>2. CASE x \notin Kids
    <3>1. Present(u, x)
      BY <1>1, <1>6, <2>2 DEF Present
    <3>2. Waits(u, y) /\ x[Len(y) + 1] = u.acct[y].pq /\ x[Len(y) + 2] <= u.acct[y].size
      BY <3>1 DEF Family, Chain
    <3> QED BY <1>6, <3>2
  <2> QED BY <2>1, <2>2
<1>14. ASSUME NEW y \in Path, ~ StrictlyBelow(y, a), Live(tr, y) PROVE Live(t, y)
  <2>1. ~ StrictlyBelow(y, p)
    <3> SUFFICES ASSUME StrictlyBelow(y, p) PROVE FALSE
      OBVIOUS
    <3>1. Below(y, p) /\ StrictlyBelow(p, a)
      BY <1>1, <1>2 DEF StrictlyBelow, IsChild
    <3> QED BY <1>1, <1>14, <3>1, BelowStrictlyBelow
  <2> QED BY <1>3, <1>14, <2>1 DEF LiveSet
<1>15. Usable(v)
  <2> SUFFICES ASSUME NEW y \in Accountants
               PROVE  /\ InUse(v, y) => Live(t, y) /\ t[y].kind = "sequential"
                      /\ Waits(v, y) => AnswersParts(v, y)
    BY DEF Usable, t
  <2>0. y \in Path /\ y # p
    BY <1>2 DEF Accountants
  <2>1. ASSUME InUse(v, y) PROVE Live(t, y) /\ t[y].kind = "sequential"
    <3>1. CASE y = c
      <4>1. y \in LiveSet(t)
        BY <1>3, <3>1
      <4> QED BY <1>3, <3>1, <4>1 DEF LiveSet
    <3>2. CASE y # c
      <4>1. InUse(u, y)
        BY <1>6, <2>1, <3>2
      <4>2. Live(tr, y) /\ tr[y].kind = "sequential"
        BY <4>1 DEF Family, Usable, tr
      <4>3. ~ StrictlyBelow(y, a)
        BY <1>1, <4>1, BelowActive DEF InUse, Present
      <4> QED BY <1>3, <1>14, <2>0, <3>2, <4>2, <4>3 DEF SameCore
    <3> QED BY <3>1, <3>2
  <2>2. ASSUME Waits(v, y), y = a PROVE AnswersParts(v, y)
    <3>1. Live(t, p)
      <4>1. p \in LiveSet(tr) /\ ~ StrictlyBelow(p, p)
        BY <1>1 DEF LiveSet, StrictlyBelow
      <4> QED BY <1>3, <4>1 DEF LiveSet
    <3>2. \A i \in 1 .. n : v.acct[child(i)].budget = b
      BY <1>4
    <3> HIDE DEF p, child
    <3> QED BY <1>1, <1>3, <1>4, <1>7, <2>2, <3>1, <3>2 DEF AnswersParts, t
  <2>3. ASSUME Waits(v, y), y # a PROVE AnswersParts(v, y)
    <3> DEFINE r == ParallelOf(u, y)
    <3>1. Waits(u, y) /\ y \notin Kids
      BY <1>6, <2>3
    <3>2. AnswersParts(u, y)
      BY <3>1 DEF Family, Usable
    <3>3. r \in Path /\ r \notin Accountants /\ ~ StrictlyBelow(r, a)
      BY <1>1, <3>1, BelowActive
    <3>4. r # p /\ r # c
      <4>1. r = Append(y, u.acct[y].pq)
        BY DEF ParallelOf
      <4> HIDE DEF r
      <4>2. Append(y, u.acct[y].pq) = Append(a, q) => y = a
        BY <1>1, <2>0, <3>3, <4>1, AnswerOfOne
      <4> QED BY <1>5, <2>3, <3>3, <4>1, <4>2
    <3>5. /\ Live(tr, r) /\ tr[r].kind = "parallel"
          /\ Len(tr[r].parts) = u.acct[y].size
          /\ \A k \in 1 .. u.acct[y].size :
               /\ tr[r].parts[k].kind = "sequential"
               /\ u.acct[Child(u, y, k)].state = "WAITING_FOR_SIBLING" =>
                    tr[r].parts[k].budget = u.acct[Child(u, y, k)].budget
      BY <3>2 DEF AnswersParts, tr
    <3>6. Live(t, r) /\ SameCore(tr[r], t[r])
      BY <1>3, <1>14, <3>3, <3>4, <3>5
    <3>7. \A k \in 1 .. u.acct[y].size :
            v.acct[Child(u, y, k)].state = "WAITING_FOR_SIBLING" =>
              /\ u.acct[Child(u, y, k)].state = "WAITING_FOR_SIBLING"
              /\ v.acct[Child(u, y, k)].budget = u.acct[Child(u, y, k)].budget
      BY <1>9, <2>3, <3>1
    <3>8. /\ v.acct[y].size = u.acct[y].size /\ ParallelOf(v, y) = r
          /\ \A k : Child(v, y, k) = Child(u, y, k)
      BY <1>6, <2>3, <3>1
    <3> HIDE DEF r, Kids, p, c
    <3> QED BY <3>3, <3>5, <3>6, <3>7, <3>8 DEF AnswersParts, SameCore, t
  <2> QED BY <2>1, <2>2, <2>3
<1>16. Order(v)
  <2> SUFFICES ASSUME NEW y \in Accountants
               PROVE  /\ Waits(v, y) =>
                           \E k \in 1 .. v.acct[y].size : InTurn(v, y, k)
                      /\ ~ Waits(v, y) =>
                           \A k \in 1 .. v.acct[y].size :
                             v.acct[Child(v, y, k)].state = "RETIRED"
    BY DEF Order
  <2>1. CASE y = a
    <3>1. \A j \in 1 .. n : ~ (j < 1) /\ (j > 1 => v.acct[child(j)].state = "WAITING_FOR_SIBLING")
      BY <1>4
    <3>2. InUse(v, child(1))
      BY <1>5 DEF InUse
    <3> HIDE DEF child, p
    <3>3. InTurn(v, a, 1)
      BY <1>3, <1>4, <1>7, <3>1, <3>2 DEF InTurn, t
    <3> QED BY <1>1, <1>4, <2>1, <3>3
  <2>2. CASE y \in Kids
    <3>1. ~ Waits(v, y)
      BY <1>5, <1>6, <1>8, <2>2
    <3> QED BY <1>8, <2>2, <3>1
  <2>3. CASE y # a /\ y \notin Kids
    <3>1. ASSUME NEW k \in 1 .. u.acct[y].size
          PROVE  /\ v.acct[Child(u, y, k)].state = "RETIRED" <=>
                      u.acct[Child(u, y, k)].state = "RETIRED"
                 /\ v.acct[Child(u, y, k)].state = "WAITING_FOR_SIBLING" <=>
                      u.acct[Child(u, y, k)].state = "WAITING_FOR_SIBLING"
                 /\ InUse(v, Child(u, y, k)) <=> InUse(u, Child(u, y, k))
      <4> DEFINE z == Child(u, y, k)
      <4>1. CASE z = a
        BY <1>9, <2>3, <4>1 DEF InUse
      <4>2. CASE z # a
        <5>1. v.acct[z].state = u.acct[z].state
          BY <1>9, <2>3, <4>2
        <5> QED BY <5>1 DEF InUse
      <4> QED BY <4>1, <4>2
    <3>2. ASSUME Waits(u, y), NEW k \in 1 .. u.acct[y].size, InTurn(u, y, k)
          PROVE  InTurn(v, y, k)
      <4> DEFINE r == ParallelOf(u, y)
      <4>1. t[r].next = tr[r].next
        <5>1. r \in Path /\ r \notin Accountants
          BY <1>1, <3>2, BelowActive
        <5>2. r # p /\ r # c
          <6>1. r = Append(y, u.acct[y].pq) /\ y \in Path
            BY DEF ParallelOf, Accountants
          <6> HIDE DEF r
          <6>2. Append(y, u.acct[y].pq) = Append(a, q) => y = a
            BY <1>1, <5>1, <6>1, AnswerOfOne
          <6> QED BY <1>5, <2>3, <5>1, <6>1, <6>2
        <5> HIDE DEF r, p, c
        <5> QED BY <1>3, <5>1, <5>2 DEF SameCore
      <4>2. tr[r].next = k + 1 /\ InUse(u, Child(u, y, k))
            /\ \A j \in 1 .. u.acct[y].size :
                 /\ j < k => u.acct[Child(u, y, j)].state = "RETIRED"
                 /\ j > k => u.acct[Child(u, y, j)].state = "WAITING_FOR_SIBLING"
        BY <3>2 DEF InTurn, tr
      <4>3. /\ v.acct[y].size = u.acct[y].size /\ ParallelOf(v, y) = r
            /\ \A j : Child(v, y, j) = Child(u, y, j)
        BY <1>6, <2>3
      <4> HIDE DEF r, Kids, p, c
      <4> QED BY <3>1, <3>2, <4>1, <4>2, <4>3 DEF InTurn, t
    <3>3. Waits(u, y) => \E k \in 1 .. u.acct[y].size : InTurn(u, y, k)
      BY DEF Family, Order
    <3>4. ~ Waits(u, y) => \A k \in 1 .. u.acct[y].size :
                             u.acct[Child(u, y, k)].state = "RETIRED"
      BY DEF Family, Order
    <3>5. /\ v.acct[y].size = u.acct[y].size
          /\ \A k : Child(v, y, k) = Child(u, y, k)
          /\ Waits(v, y) <=> Waits(u, y)
      BY <1>6, <2>3
    <3> QED BY <3>1, <3>2, <3>3, <3>4, <3>5
  <2> QED BY <2>1, <2>2, <2>3
<1>17. BudgetsWithin(v)
  <2> SUFFICES ASSUME NEW y \in Accountants, IsOpen(t, y)
               PROVE  Compare(v.acct[y].budget, t[y].remaining)
    BY DEF BudgetsWithin, t
  <2>1. CASE y = c
    BY <1>3, <1>5, <2>1, CompareReflexive
  <2>2. CASE y # c
    <3>1. y \in Path /\ y # p
      BY <1>2 DEF Accountants
    <3>2. IsOpen(tr, y) /\ SameCore(tr[y], t[y])
      BY <1>3, <2>2, <3>1 DEF OpenSet
    <3>3. y \notin Kids
      BY <1>8, <3>2
    <3>4. v.acct[y].budget = u.acct[y].budget
      BY <1>4, <3>3
    <3>5. Compare(u.acct[y].budget, tr[y].remaining)
      BY <3>2 DEF Family, BudgetsWithin, tr
    <3> QED BY <3>2, <3>4, <3>5 DEF SameCore
  <2> QED BY <2>1, <2>2
<1> QED BY <1>3, <1>4, <1>10, <1>11, <1>12, <1>13, <1>15, <1>16, <1>17
        DEF Family, t

(* A new accountant knows nothing but what it is told.                     *)
LEMMA NewAccountantType ==
  ASSUME NEW state \in States, NEW type \in Types, NEW d \in Dist, NEW b \in Budgets
  PROVE  LET r == NewAccountant(state, type, d, b)
         IN  /\ r \in Accountant /\ r.state = state /\ r.budget = b
             /\ r.type = type /\ r.dIn = d
             /\ r.size = 0 /\ r.pending = None
<1>1. NoAccountant \in Accountant /\ NoAccountant.size = 0 /\ NoAccountant.pending = None
  <2>1. (CHOOSE t \in Types : TRUE) \in Types
    BY TypesAssumption
  <2>2. 0 \in Dist /\ 0 \in 0 .. MaxFan
    BY DistAssumption, FanAssumption DEF Dist
  <2> QED BY <2>1, <2>2, ZeroType DEF NoAccountant, Accountant
<1> QED BY <1>1 DEF NewAccountant, Accountant, States

(* What split submits costs exactly the budget of one of the children.     *)
LEMMA SplitMeasurementMade ==
  ASSUME NEW s \in Splits, NEW d \in Dist, NEW b \in Budgets
  PROVE  LET m == SplitMeasurement(s, d, b)
         IN  /\ WellMade(m) /\ m.kind = "parallel" /\ Len(m.parts) = s.size
             /\ \A i \in 1 .. s.size :
                  m.parts[i].kind = "sequential" /\ m.parts[i].budget = b
<1> DEFINE part == [kind |-> "sequential", in |-> s.t.out, dIn |-> d, budget |-> b]
           parts == [i \in 1 .. s.size |-> part]
           m == SplitMeasurement(s, d, b)
<1>1. s.t \in Transformation /\ Monotone(s.t) /\ s.size \in 1 .. MaxFan
  BY SplitsAssumption
<1>2. s.t.in \in Types /\ s.t.out \in Types
  BY <1>1 DEF Transformation
<1>3. part \in SequentialMeasurement
  BY <1>2 DEF SequentialMeasurement
<1>4. part.kind = "sequential" /\ part.budget = b /\ part.in = s.t.out
  OBVIOUS
<1> HIDE DEF part
<1>5. /\ parts \in Seq(AnswerMeasurement \union SequentialMeasurement)
      /\ Len(parts) = s.size /\ DOMAIN parts = 1 .. s.size
      /\ \A i \in 1 .. s.size : parts[i] = part
  BY <1>1, <1>3, FanAssumption
<1>6. parts # <<>>
  BY <1>1, <1>5, FanAssumption
<1>7. /\ m.kind = "parallel" /\ m.in = s.t.in /\ m.t = s.t /\ m.parts = parts
      /\ m = [kind |-> "parallel", in |-> s.t.in, t |-> s.t, parts |-> parts]
  BY DEF SplitMeasurement, part
<1> HIDE DEF parts, m
<1>8. m \in ParallelMeasurement
  BY <1>1, <1>2, <1>5, <1>7 DEF ParallelMeasurement
<1>9. WellMade(m)
  BY <1>1, <1>4, <1>5, <1>6, <1>7, <1>8 DEF WellMade, Measurement, LossMonotone
<1> QED BY <1>4, <1>5, <1>7, <1>9 DEF m

LEMMA SplitCharge ==
  ASSUME NEW s \in Splits, NEW d \in Dist, NEW b \in Budgets, NEW nd
  PROVE  \A c \in Accepted(nd, SplitMeasurement(s, d, b), None) : c = b
<1> DEFINE m == SplitMeasurement(s, d, b)
           loss == [i \in DOMAIN m.parts |-> PartLoss(m.parts[i], m.t.stab[nd.dIn])]
           values == UNION {loss[i] : i \in DOMAIN m.parts}
<1>1. /\ m.kind = "parallel" /\ DOMAIN m.parts = 1 .. s.size
      /\ \A i \in 1 .. s.size :
           m.parts[i].kind = "sequential" /\ m.parts[i].budget = b
  BY DEF SplitMeasurement
<1> SUFFICES ASSUME NEW c \in Accepted(nd, m, None) PROVE c = b
  OBVIOUS
<1> HIDE DEF m
<1>2. c \in ParallelLoss(m, nd.dIn)
  BY <1>1 DEF Accepted, Charges, PrivacyFunction
<1>3. c \in [eps : {e.eps : e \in values}, delta : {e.delta : e \in values}]
  BY <1>2 DEF ParallelLoss
<1>4. \A e \in values : e = b
  <2> TAKE e \in values
  <2>1. PICK i \in DOMAIN m.parts : e \in loss[i]
    OBVIOUS
  <2>2. loss[i] = PartLoss(m.parts[i], m.t.stab[nd.dIn])
    OBVIOUS
  <2> HIDE DEF loss
  <2> QED BY <1>1, <2>1, <2>2 DEF PartLoss, SequentialLoss
<1> HIDE DEF values
<1>5. c = [eps |-> c.eps, delta |-> c.delta] /\ c.eps = b.eps /\ c.delta = b.delta
  BY <1>3, <1>4
<1>6. b = [eps |-> b.eps, delta |-> b.delta]
  BY DEF Budgets
<1> QED BY <1>5, <1>6

(* Between the two: the first child is activated, then a has to wait.      *)
IsSplitWorld(u, split, a, q, n, r) ==
  LET child(i) == Append(Append(a, q), i)
  IN  /\ IsWorld(split) /\ split.tree = u.tree /\ split.ok = u.ok
      /\ split.acct[a].pq = q /\ split.acct[a].size = n
      /\ SameNotes(u.acct[a], split.acct[a])
      /\ \A i \in 1 .. n : child(i) \in Accountants => split.acct[child(i)] = r
      /\ \A y \in Accountants :
           y # a /\ (\A i \in 1 .. n : y # child(i)) => split.acct[y] = u.acct[y]

LEMMA SplitWorldMade ==
  ASSUME NEW u, IsWorld(u), NEW a \in Accountants, NEW q \in 1 .. MaxFan,
         NEW n \in 1 .. MaxFan, NEW r \in Accountant,
         \A i \in 1 .. n : Append(Append(a, q), i) # a,
         NEW v,
         v = [u EXCEPT !.acct = [x \in Accountants |->
                IF \E i \in 1 .. n : x = Append(Append(a, q), i) THEN r
                ELSE IF x = a THEN [@[a] EXCEPT !.pq = q, !.size = n]
                ELSE @[x]]]
  PROVE  IsSplitWorld(u, v, a, q, n, r)
<1> DEFINE child(i) == Append(Append(a, q), i)
           isChild(x) == \E i \in 1 .. n : x = child(i)
           me == [u.acct[a] EXCEPT !.pq = q, !.size = n]
           f == [x \in Accountants |->
                   IF isChild(x) THEN r ELSE IF x = a THEN me ELSE u.acct[x]]
           z == [u EXCEPT !.acct = f]
<1>0. v = z
  OBVIOUS
<1>1. u.acct \in [Accountants -> Accountant]
  BY DEF IsWorld
<1>2. me \in Accountant /\ me.pq = q /\ me.size = n /\ SameNotes(u.acct[a], me)
  <2>1. u.acct[a] \in Accountant
    BY <1>1
  <2>2. q \in 0 .. MaxFan /\ n \in 0 .. MaxFan
    BY FanAssumption
  <2> QED BY <2>1, <2>2 DEF Accountant, SameNotes
<1> HIDE DEF me
<1>3. \A x \in Accountants :
        f[x] = IF isChild(x) THEN r ELSE IF x = a THEN me ELSE u.acct[x]
  OBVIOUS
<1>4. f \in [Accountants -> Accountant]
  BY <1>1, <1>2
<1> HIDE DEF f
<1>5. IsWorld(v) /\ v.tree = u.tree /\ v.ok = u.ok /\ v.acct = f
  BY <1>0, <1>4 DEF IsWorld
<1>6. ~ isChild(a)
  OBVIOUS
<1>7. f[a] = me
  BY <1>3, <1>6
<1>8. \A i \in 1 .. n : child(i) \in Accountants => f[child(i)] = r
  BY <1>3
<1>9. \A y \in Accountants :
        y # a /\ (\A i \in 1 .. n : y # child(i)) => f[y] = u.acct[y]
  BY <1>3
<1> QED BY <1>2, <1>5, <1>7, <1>8, <1>9 DEF IsSplitWorld

(* What the accountants of v note that were there in u, and those of a new *)
(* split of a, all noted as r is.                                          *)
SplitNotes(u, v, a, q, n, r) ==
  /\ SameNotes(u.acct[a], v.acct[a])
  /\ \A i \in 1 .. n : SameNotes(r, v.acct[Append(Append(a, q), i)])

LEMMA SplitFinished ==
  ASSUME NEW u, Family(u), u.ok, NEW a \in Accountants, NEW q,
         NEW n \in 1 .. MaxFan, NEW b \in Budgets, ReadyToSplit(u, a, q, n, b),
         NEW r, r.state = "WAITING_FOR_SIBLING", r.budget = b,
         r.size = 0, r.pending = None,
         NEW split, IsSplitWorld(u, split, a, q, n, r),
         NEW active, active = ActivateChild(split, a, 1),
         NEW v, v = [active EXCEPT !.acct[a].state = "WAITING_FOR_CHILDREN"]
  PROVE  /\ active.ok /\ SplitInto(u, v, a, q, n, b)
         /\ SplitNotes(u, v, a, q, n, r)
<1> DEFINE p == Append(a, q)
           child(i) == Append(p, i)
           c == child(1)
           started == [split EXCEPT !.acct[c].state = "ACTIVE"]
           t == Indexed(u.tree, p, FALSE)
           mm == [started EXCEPT !.tree = t]
<1>1. /\ n \in Nat /\ 1 \in 1 .. n /\ Len(a) + 2 <= MaxDepth
      /\ p \in Path /\ Live(u.tree, p) /\ u.tree[p].next = 1
  BY FanAssumption DEF ReadyToSplit
<1>2. /\ \A i \in 1 .. n : child(i) \in Accountants /\ child(i) # a
      /\ \A i, j \in 1 .. n : child(i) = child(j) => i = j
  BY <1>1, SplitPlaces
<1>3. c \in Accountants /\ c # a
  BY <1>1, <1>2
<1>4. /\ IsWorld(split) /\ split.tree = u.tree /\ split.ok = TRUE
      /\ split.acct[a].pq = q /\ split.acct[a].size = n
      /\ SameNotes(u.acct[a], split.acct[a])
      /\ \A i \in 1 .. n : split.acct[child(i)] = r
      /\ \A y \in Accountants :
           y # a /\ (\A i \in 1 .. n : y # child(i)) => split.acct[y] = u.acct[y]
  BY <1>2 DEF IsSplitWorld, Family, IsWorld
<1>5. Child(split, a, 1) = c /\ ParallelOf(split, a) = p
  BY <1>4 DEF Child, ParallelOf
<1>6. Sound(t) /\ t \in [Path -> Node]
  <2>1. IsSplitTree(u.tree, a, q, n, b, t)
    BY SplitTree
  <2> QED BY <2>1 DEF IsSplitTree, Sound, WellRetired, Shaped
<1> HIDE DEF child, c, t
<1>7. "ACTIVE" \in States /\ "WAITING_FOR_CHILDREN" \in States
  BY DEF States
<1>8. /\ IsWorld(started) /\ started.tree = split.tree /\ started.ok = split.ok
      /\ started.acct[c].state = "ACTIVE"
      /\ Restated(split, started, {c})
      /\ \A y \in Accountants : y # c => started.acct[y] = split.acct[y]
      /\ SameNotes(split.acct[c], started.acct[c])
  <2>1. IsWorld(split) /\ c \in Accountants
    BY <1>3, <1>4
  <2>2. started = [split EXCEPT !.acct[c].state = "ACTIVE"]
    BY <1>5
  <2> HIDE DEF started
  <2>3. InState(split, started, c, "ACTIVE")
    BY <1>7, <2>1, <2>2, StateSet, Zenon
  <2> QED BY <2>3 DEF InState
<1>9. active = ExecutePending([started EXCEPT !.tree = Indexed(@, p, FALSE)], c)
  <2>1. ~ (~ Live(split.tree, ParallelOf(split, a)) \/ split.tree[ParallelOf(split, a)].next # 1)
    BY <1>1, <1>4, <1>5
  <2> QED BY <1>5, <2>1 DEF ActivateChild
<1>10. [started EXCEPT !.tree = Indexed(@, p, FALSE)] = mm
  BY <1>4, <1>8 DEF IsWorld, t
<1> HIDE DEF started
<1>11. IsWorld(mm) /\ mm.tree = t /\ mm.acct = started.acct /\ mm.ok = TRUE
  BY <1>4, <1>6, <1>8 DEF IsWorld
<1> HIDE DEF mm
<1>12. mm.acct[c].pending = None
  <2>1. split.acct[c] = r
    BY <1>1, <1>4 DEF c
  <2> QED BY <1>8, <1>11, <2>1 DEF SameNotes
<1>13. active = mm
  BY <1>9, <1>10, <1>12 DEF ExecutePending
<1>14. /\ IsWorld(v) /\ v.tree = mm.tree /\ v.acct[a].state = "WAITING_FOR_CHILDREN"
       /\ Restated(mm, v, {a})
       /\ \A y \in Accountants : y # a => v.acct[y] = mm.acct[y]
       /\ SameNotes(mm.acct[a], v.acct[a])
  <2>1. v = [mm EXCEPT !.acct[a].state = "WAITING_FOR_CHILDREN"]
    BY <1>13
  <2>2. IsWorld(mm)
    BY <1>11
  <2>3. InState(mm, v, a, "WAITING_FOR_CHILDREN")
    BY <1>7, <2>1, <2>2, StateSet, Zenon
  <2> QED BY <2>3 DEF InState
<1>15. /\ v.acct[a].pq = q /\ v.acct[a].size = n
       /\ SameNotes(u.acct[a], v.acct[a])
       /\ v.acct[a].budget = u.acct[a].budget
  <2>1. mm.acct[a] = split.acct[a]
    BY <1>3, <1>8, <1>11
  <2> QED BY <1>4, <1>14, <2>1 DEF Restated, SameNotes
<1>16. ASSUME NEW i \in 1 .. n
       PROVE  /\ v.acct[child(i)].state =
                   IF i = 1 THEN "ACTIVE" ELSE "WAITING_FOR_SIBLING"
              /\ v.acct[child(i)].budget = b /\ v.acct[child(i)].size = 0
              /\ SameNotes(r, v.acct[child(i)])
  <2>1. child(i) \in Accountants /\ child(i) # a /\ (child(i) = c => i = 1)
    BY <1>1, <1>2 DEF c
  <2>2. /\ v.acct[child(i)] = started.acct[child(i)]
        /\ split.acct[child(i)] = r
    BY <1>4, <1>11, <1>14, <2>1
  <2>3. /\ started.acct[child(i)].budget = b /\ started.acct[child(i)].size = 0
    BY <1>8, <2>1, <2>2 DEF Restated
  <2>4. CASE i = 1
    <3>1. child(i) = c
      BY <2>4 DEF c
    <3> QED BY <1>8, <2>2, <2>3, <2>4, <3>1
  <2>5. CASE i # 1
    <3>1. started.acct[child(i)] = r
      BY <1>8, <2>1, <2>2, <2>5
    <3> QED BY <2>2, <2>3, <2>5, <3>1 DEF SameNotes
  <2> QED BY <2>4, <2>5
<1>17. \A y \in Accountants :
         y # a /\ (\A i \in 1 .. n : y # child(i)) => v.acct[y] = u.acct[y]
  <2> TAKE y \in Accountants
  <2> HAVE y # a /\ (\A i \in 1 .. n : y # child(i))
  <2>1. y # c
    BY <1>1 DEF c
  <2> QED BY <1>4, <1>8, <1>11, <1>14, <2>1
<1>18. v.tree = Indexed(u.tree, Append(a, q), FALSE)
  BY <1>11, <1>14 DEF t, p
<1> QED BY <1>11, <1>13, <1>14, <1>15, <1>16, <1>17, <1>18
          DEF SplitInto, SplitNotes, child, p

(* An answered split is ready for its accountants: they are all new.       *)
LEMMA AnsweredReady ==
  ASSUME NEW w, Family(w), NEW a \in Accountants, w.acct[a].state = "ACTIVE",
         Len(a) + 2 <= MaxDepth, w.tree[a].next <= MaxFan,
         NEW s \in Splits, NEW d \in Dist, NEW b \in Budgets,
         NEW u, PaidFor(w, u, a), Answered(w, u, a, SplitMeasurement(s, d, b))
  PROVE  ReadyToSplit(u, a, w.tree[a].next, s.size, b)
<1> DEFINE q == w.tree[a].next
           p == Append(a, q)
           m == SplitMeasurement(s, d, b)
<1>1. /\ m.kind = "parallel" /\ Len(m.parts) = s.size
      /\ \A i \in 1 .. s.size :
           m.parts[i].kind = "sequential" /\ m.parts[i].budget = b
  BY SplitMeasurementMade
<1> HIDE DEF m
<1>2. /\ p \in Path /\ Live(u.tree, p) /\ ~ IsOpen(w.tree, p)
      /\ u.tree[p].kind = "parallel" /\ u.tree[p].next = 1
      /\ u.tree[p].parts = m.parts
  BY <1>1 DEF Answered, m
<1>3. s.size \in 1 .. MaxFan
  BY SplitsAssumption
<1>4. /\ q \in 1 .. MaxFan
      /\ \A i \in 1 .. s.size : Append(p, i) \in Accountants /\ Append(p, i) # a
  BY <1>2, <1>3, SplitPlaces
<1>5. ASSUME NEW i \in 1 .. s.size PROVE u.acct[Append(p, i)].state = "none"
  <2>1. i \in 1 .. MaxFan
    BY <1>3, FanAssumption
  <2>2. CameFromSplit(w)
    BY DEF Family
  <2>3. w.acct[Append(p, i)].state = "none"
    BY <1>2, <1>4, <2>1, <2>2 DEF CameFromSplit
  <2> QED BY <1>4, <2>3 DEF PaidFor
<1>6. u.acct[a].state = "ACTIVE"
  BY DEF PaidFor, Carried
<1> QED BY <1>1, <1>2, <1>5, <1>6 DEF ReadyToSplit

(* Nobody was there where the new accountants are.                         *)
LEMMA SplitDocumented ==
  ASSUME NEW w, NEW a \in Accountants, w.acct[a].state = "ACTIVE",
         NEW u, PaidFor(w, u, a), NEW q, NEW n, NEW b,
         ReadyToSplit(u, a, q, n, b),
         NEW v, SplitInto(u, v, a, q, n, b)
  PROVE  Documented(w, v)
<1> DEFINE child(i) == Append(Append(a, q), i)
<1> SUFFICES ASSUME NEW y \in Accountants
             PROVE  /\ w.acct[y].state = "RETIRED" => v.acct[y] = w.acct[y]
                    /\ v.acct[y].state = "WAITING_FOR_SIBLING" =>
                         w.acct[y].state \in {"none", "WAITING_FOR_SIBLING"}
                    /\ v.acct[y].state = "WAITING_FOR_CHILDREN" =>
                         w.acct[y].state \in {"ACTIVE", "WAITING_FOR_CHILDREN"}
  BY DEF Documented
<1>1. /\ y # a => u.acct[y] = w.acct[y]
      /\ u.acct[y].state = w.acct[y].state
  BY DEF PaidFor, Carried
<1>2. v.acct[a].state = "WAITING_FOR_CHILDREN"
  BY DEF SplitInto
<1>3. \A i \in 1 .. n :
        /\ v.acct[child(i)].state \in {"ACTIVE", "WAITING_FOR_SIBLING"}
        /\ u.acct[child(i)].state = "none"
  BY DEF SplitInto, ReadyToSplit
<1>4. y # a /\ (\A i \in 1 .. n : y # child(i)) => v.acct[y] = u.acct[y]
  BY DEF SplitInto
<1> HIDE DEF child
<1>5. CASE y = a
  BY <1>2, <1>5
<1>6. CASE \E i \in 1 .. n : y = child(i)
  BY <1>1, <1>3, <1>6
<1>7. CASE y # a /\ \A i \in 1 .. n : y # child(i)
  BY <1>1, <1>4, <1>7
<1> QED BY <1>5, <1>6, <1>7

(* The query of a split of a is answered or not, and if so v has new       *)
(* accountants.                                                            *)
SplitAsked(w, v, a, s, b, d, raises, u) ==
  LET paid == [w EXCEPT !.acct[a].budget = Subtract(@, b)]
      m == SplitMeasurement(s, d, b)
      q == w.tree[a].next
      r == NewAccountant("WAITING_FOR_SIBLING", s.t.out, d, b)
  IN  /\ u = SubmitMeasurement(paid, a, m, None, raises) /\ PaidFor(w, u, a)
      /\ ~ u.ok => v = u
      /\ u.ok => /\ Answered(w, u, a, m) /\ ReadyToSplit(u, a, q, s.size, b)
                 /\ SplitInto(u, v, a, q, s.size, b) /\ v.ok
                 /\ SplitNotes(u, v, a, q, s.size, r)

SplitOutcome(w, v, a, s, b, hint, raises) ==
  LET me == w.acct[a]
  IN  \/ v = Raised(w)
      \/ /\ me.state = "ACTIVE" /\ s.t.in = me.type /\ CanSpend(me.budget, b)
         /\ \E d \in Stabilities(me.dIn, s.t, hint) :
              \E u : SplitAsked(w, v, a, s, b, d, raises, u)

LEMMA SplitCall ==
  ASSUME NEW w, Family(w), w.ok, NEW a \in Accountants,
         Len(a) + 2 <= MaxDepth, w.tree[a].next <= MaxFan,
         NEW s \in Splits, NEW b \in Budgets, NEW hint \in Dist \union {None},
         NEW raises \in BOOLEAN,
         NEW v, v = Split(w, a, s, b, hint, raises)
  PROVE  SplitOutcome(w, v, a, s, b, hint, raises)
<1> DEFINE me == w.acct[a]
           known == Stabilities(me.dIn, s.t, hint)
           d == CHOOSE e \in known : TRUE
           m == SplitMeasurement(s, d, b)
           paid == [w EXCEPT !.acct[a].budget = Subtract(@, b)]
           asked == SubmitMeasurement(paid, a, m, None, raises)
           n == w.tree[a].next
           child(i) == Append(Append(a, n), i)
           isChild(x) == \E i \in 1 .. s.size : x = child(i)
           r == NewAccountant("WAITING_FOR_SIBLING", s.t.out, d, b)
           split ==
             [asked EXCEPT
                !.acct = [x \in Accountants |->
                   IF isChild(x) THEN r
                   ELSE IF x = a THEN [@[a] EXCEPT !.pq = n, !.size = s.size]
                   ELSE @[x]]]
           active == ActivateChild(split, a, 1)
           ended == [active EXCEPT !.acct[a].state = "WAITING_FOR_CHILDREN"]
           refused == \/ me.state # "ACTIVE" \/ ~ HasQueryable(w, a)
                      \/ known = {} \/ s.t.in # me.type \/ ~ CanSpend(me.budget, b)
<1>1. v = IF refused THEN Raised(w)
          ELSE IF ~ asked.ok THEN asked
          ELSE IF ~ active.ok THEN active
          ELSE ended
  BY DEF Split
<1>2. CASE refused
  <2>1. v = Raised(w)
    BY <1>1, <1>2
  <2> QED BY <2>1 DEF SplitOutcome
<1>3. CASE ~ refused
  <2>1. /\ me.state = "ACTIVE" /\ known # {} /\ CanSpend(me.budget, b)
        /\ s.t.in = me.type
        /\ v = IF ~ asked.ok THEN asked
               ELSE IF ~ active.ok THEN active ELSE ended
    BY <1>1, <1>3
  <2>2. /\ s.t \in Transformation /\ s.t.out \in Types
        /\ s.size \in 1 .. MaxFan /\ me.dIn \in Dist
    BY SplitsAssumption, WorldType DEF Family, Transformation
  <2>3. d \in known /\ d \in Dist
    <3>1. d \in known
      BY <2>1
    <3> QED BY <2>2, <3>1, KnownDistance
  <2>0. SUFFICES \E u : SplitAsked(w, v, a, s, b, d, raises, u)
    BY <2>1, <2>3, Zenon DEF SplitOutcome
  <2> HIDE DEF known, d
  <2>4. WellMade(m) /\ \A c \in Accepted(w.tree[a], m, None) : c = b
    BY <2>3, SplitMeasurementMade, SplitCharge
  <2>5. /\ r \in Accountant /\ r.state = "WAITING_FOR_SIBLING" /\ r.budget = b
        /\ r.size = 0 /\ r.pending = None
    <3>1. "WAITING_FOR_SIBLING" \in States
      BY DEF States
    <3> QED BY <2>2, <2>3, <3>1, NewAccountantType
  <2>6. /\ m = SplitMeasurement(s, d, b)
        /\ r = NewAccountant("WAITING_FOR_SIBLING", s.t.out, d, b)
    OBVIOUS
  <2> HIDE DEF m, r
  <2>7. paid = [w EXCEPT !.acct[a].budget = Subtract(@, b)]
    OBVIOUS
  <2> HIDE DEF paid
  <2>8. asked = SubmitMeasurement(paid, a, m, None, raises)
    OBVIOUS
  <2> HIDE DEF asked
  <2>9. Len(a) < MaxDepth
    BY PathType, DepthAssumption DEF Accountants
  <2>10. PaidFor(w, asked, a) /\ (asked.ok => Answered(w, asked, a, m))
    <3>1. me.state = "ACTIVE" /\ CanSpend(me.budget, b) /\ None \in Budgets \union {None}
      BY <2>1
    <3> QED BY <2>4, <2>7, <2>8, <2>9, <3>1, PaidAndAsked
  <2>11. CASE ~ asked.ok
    <3>1. v = asked
      BY <2>1, <2>11
    <3>2. SplitAsked(w, v, a, s, b, d, raises, asked)
      BY <2>6, <2>7, <2>8, <2>10, <2>11, <3>1, Zenon DEF SplitAsked
    <3> QED BY <3>2
  <2>12. CASE asked.ok
    <3>1. ReadyToSplit(asked, a, n, s.size, b)
      BY <2>1, <2>3, <2>6, <2>10, <2>12, AnsweredReady
    <3>2. Family(asked) /\ IsWorld(asked)
      BY <2>10 DEF PaidFor, Family
    <3>3. n \in 1 .. MaxFan /\ \A i \in 1 .. s.size : child(i) # a
      BY <2>2, <3>1, SplitPlaces DEF ReadyToSplit
    <3>4. IsSplitWorld(asked, split, a, n, s.size, r)
      <4>1. split = [asked EXCEPT !.acct = [x \in Accountants |->
               IF \E i \in 1 .. s.size : x = Append(Append(a, n), i) THEN r
               ELSE IF x = a THEN [@[a] EXCEPT !.pq = n, !.size = s.size]
               ELSE @[x]]]
        OBVIOUS
      <4>2. \A i \in 1 .. s.size : Append(Append(a, n), i) # a
        BY <3>3
      <4> HIDE DEF split, n, child, isChild
      <4> QED BY <2>2, <2>5, <3>2, <3>3, <4>1, <4>2, SplitWorldMade, Zenon
    <3>5. active = ActivateChild(split, a, 1)
      OBVIOUS
    <3> HIDE DEF split, n
    <3> HIDE DEF active
    <3>6. ended = [active EXCEPT !.acct[a].state = "WAITING_FOR_CHILDREN"]
      OBVIOUS
    <3> HIDE DEF ended
    <3>7. /\ active.ok /\ SplitInto(asked, ended, a, n, s.size, b)
          /\ SplitNotes(asked, ended, a, n, s.size, r)
      BY <2>2, <2>5, <2>12, <3>1, <3>2, <3>4, <3>5, <3>6, SplitFinished
    <3>8. v = ended /\ ended.ok
      <4>1. ended.ok = active.ok
        BY <3>6
      <4> QED BY <2>1, <2>12, <3>7, <4>1
    <3>9. n = w.tree[a].next
      BY DEF n
    <3>10. SplitAsked(w, v, a, s, b, d, raises, asked)
      BY <2>6, <2>7, <2>8, <2>10, <2>12, <3>1, <3>7, <3>8, <3>9, Zenon DEF SplitAsked
    <3> QED BY <3>10
  <2> QED BY <2>11, <2>12
<1> QED BY <1>2, <1>3

LEMMA SplitCallFamily ==
  ASSUME NEW w, Family(w), w.ok, NEW a \in Accountants,
         Len(a) + 2 <= MaxDepth, w.tree[a].next <= MaxFan,
         NEW s \in Splits, NEW b \in Budgets, NEW hint \in Dist \union {None},
         NEW raises \in BOOLEAN,
         NEW v, v = Split(w, a, s, b, hint, raises)
  PROVE  Family(v) /\ Documented(w, v)
<1>1. SplitOutcome(w, v, a, s, b, hint, raises)
  BY SplitCall
<1>2. CASE v = Raised(w)
  BY <1>2, RaisedFamily DEF Documented
<1>3. CASE v # Raised(w)
  <2>1. w.acct[a].state = "ACTIVE" /\ s.size \in 1 .. MaxFan
    BY <1>1, <1>3, SplitsAssumption DEF SplitOutcome
  <2>2. PICK d \in Stabilities(w.acct[a].dIn, s.t, hint) :
          \E u : SplitAsked(w, v, a, s, b, d, raises, u)
    BY <1>1, <1>3 DEF SplitOutcome
  <2>3. PICK u : SplitAsked(w, v, a, s, b, d, raises, u)
    BY <2>2
  <2>4. PaidFor(w, u, a) /\ Family(u)
    BY <2>3, Zenon DEF SplitAsked, PaidFor
  <2>5. CASE ~ u.ok
    <3>1. v = u
      BY <2>3, <2>5, Zenon DEF SplitAsked
    <3> QED BY <2>1, <2>4, <3>1, PaidDocumented
  <2>6. CASE u.ok
    <3>1. /\ ReadyToSplit(u, a, w.tree[a].next, s.size, b)
          /\ SplitInto(u, v, a, w.tree[a].next, s.size, b)
      BY <2>3, <2>6, Zenon DEF SplitAsked
    <3> QED BY <2>1, <2>4, <3>1, SplitFamily, SplitDocumented
  <2> QED BY <2>5, <2>6
<1> QED BY <1>2, <1>3

-----------------------------------------------------------------------------
(* The family in every state *)

AccountantInv == Family(World)

LEMMA WorldFields ==
  World.tree = tree /\ World.acct = acct /\ World.ok = TRUE
BY DEF World

LEMMA LaunchFamily ==
  ASSUME Launch
  PROVE  AccountantInv
<1> DEFINE nd == tree[Root]
           r == NewAccountant("ACTIVE", nd.type, nd.dIn, nd.remaining)
<1>1. PICK m \in RootCompositions :
        tree = [x \in Path |-> IF x = Root
                               THEN Created(m, m.dIn, m.budget, FALSE)
                               ELSE NotOpened]
  BY DEF Launch, Init
<1>2. /\ WrapperInv /\ AccountingInv /\ PaidInv
      /\ OpenSet(tree) = {Root} /\ LiveSet(tree) = {Root}
  BY InitWrapperInv, InitAccounted, InitPaid DEF Launch
<1>3. Sound(tree)
  BY <1>2 DEF Sound, WrapperInv, AccountingInv, PaidInv
<1>4. tree \in [Path -> Node] /\ Root \in Path /\ Root \in Accountants
  BY <1>3, RootIsAccountant DEF Sound, WellRetired, Shaped, Accountants
<1>5. /\ Live(tree, Root) /\ nd.kind = "sequential"
      /\ nd.type \in Types /\ nd.dIn \in Dist /\ nd.remaining \in Budgets
  <2>1. nd \in Node /\ Live(tree, Root) /\ IsOpen(tree, Root)
    BY <1>2, <1>4 DEF LiveSet, OpenSet
  <2>2. nd = Created(m, m.dIn, m.budget, FALSE)
    BY <1>1, <1>4
  <2>3. m.kind = "sequential"
    BY RootAssumption DEF SequentialMeasurement
  <2>4. nd.kind = "sequential"
    <3>1. m \in SequentialMeasurement
      BY RootAssumption
    <3> QED BY <2>2, <3>1 DEF Created, SequentialMeasurement, NotOpened
  <2> QED BY <2>1, <2>4 DEF Node
<1>6. r \in Accountant /\ r.state = "ACTIVE" /\ r.budget = nd.remaining /\ r.size = 0
  <2>1. "ACTIVE" \in States
    BY DEF States
  <2> QED BY <1>5, <2>1, NewAccountantType
<1>7. /\ NoAccountant \in Accountant /\ NoAccountant.state = "none"
      /\ NoAccountant.size = 0
  <2>1. NoAccountant.size = 0 /\ NoAccountant.state = "none"
    BY DEF NoAccountant
  <2>2. (CHOOSE t \in Types : TRUE) \in Types
    BY TypesAssumption
  <2>3. 0 \in Dist /\ 0 \in 0 .. MaxFan
    BY DistAssumption, FanAssumption DEF Dist
  <2> QED BY <2>1, <2>2, <2>3, ZeroType DEF NoAccountant, Accountant
<1> HIDE DEF r
<1>8. acct = [a \in Accountants |-> IF a = Root THEN r ELSE NoAccountant]
  BY DEF Launch, r
<1>9. /\ acct \in [Accountants -> Accountant] /\ acct[Root] = r
      /\ \A a \in Accountants : a # Root => acct[a] = NoAccountant
      /\ \A a \in Accountants : acct[a].size = 0
  BY <1>4, <1>6, <1>7, <1>8
<1>10. IsWorld(World)
  BY <1>4, <1>9 DEF IsWorld, World
<1> DEFINE w == World
<1>11. w.tree = tree /\ w.acct = acct
  BY WorldFields
<1> HIDE DEF w, nd
<1>12. \A a \in Accountants :
         /\ ~ Waits(w, a)
         /\ (InUse(w, a) <=> a = Root) /\ (Present(w, a) <=> a = Root)
  BY <1>6, <1>7, <1>9, <1>11 DEF Waits, InUse, Present
<1>13. \A a \in Accountants : ~ \E i \in 1 .. w.acct[a].size : TRUE
  BY <1>9, <1>11
<1>14. ChildrenNamed(w) /\ Order(w)
  BY <1>12, <1>13 DEF ChildrenNamed, Order
<1>15. RootStarted(w)
  BY <1>6, <1>9, <1>11 DEF RootStarted
<1>16. CameFromSplit(w)
  <2> SUFFICES ASSUME NEW a \in Accountants, NEW q \in 1 .. MaxFan,
                      NEW i \in 1 .. MaxFan,
                      Append(Append(a, q), i) \in Accountants
               PROVE  w.acct[Append(Append(a, q), i)].state = "none"
    BY DEF CameFromSplit
  <2> DEFINE c == Append(Append(a, q), i)
  <2>1. q \in Nat /\ i \in Nat
    BY FanAssumption
  <2>2. IsChild(c, a, q, i)
    BY <2>1, ChildNamed, Zenon
  <2>3. c # Root
    BY <2>2 DEF IsChild
  <2> QED BY <1>7, <1>9, <1>11, <2>3
<1>17. Chain(w)
  <2> SUFFICES ASSUME NEW a \in Accountants, StrictlyBelow(Root, a)
               PROVE  FALSE
    BY <1>12 DEF Chain
  <2>1. Root \in Path /\ a \in Path
    BY <1>4 DEF Accountants
  <2>2. Below(a, Root)
    BY <2>1, RootAboveAll
  <2> QED BY <2>1, <2>2, BelowAntisymmetric DEF StrictlyBelow
<1>18. Usable(w)
  BY <1>5, <1>11, <1>12 DEF Usable, nd
<1>19. BudgetsWithin(w)
  <2> SUFFICES ASSUME NEW a \in Accountants, IsOpen(tree, a)
               PROVE  Compare(acct[a].budget, tree[a].remaining)
    BY <1>11 DEF BudgetsWithin
  <2>1. a = Root
    BY <1>2 DEF OpenSet, Accountants
  <2>2. Compare(nd.remaining, nd.remaining)
    BY <1>5, CompareReflexive
  <2> QED BY <1>6, <1>9, <2>1, <2>2 DEF nd
<1> QED BY <1>3, <1>10, <1>11, <1>14, <1>15, <1>16, <1>17, <1>18, <1>19
        DEF AccountantInv, Family, w

(* The next call finds the tree and the accountants as a method left them, *)
(* whether it raised or not.                                               *)
LEMMA CallFamily ==
  ASSUME AccountantInv, NEW v, Family(v), Documented(World, v), Becomes(v)
  PROVE  AccountantInv' /\ Documented(World, World')
<1> DEFINE z == [tree |-> tree', acct |-> acct', ok |-> TRUE]
<1>1. World' = z
  BY DEF World
<1>2. tree' = v.tree /\ acct' = v.acct
  BY DEF Becomes
<1>3. IsWorld(z) /\ z.tree = v.tree /\ z.acct = v.acct
  BY <1>2 DEF Family, IsWorld
<1> HIDE DEF z
<1>4. Restated(v, z, {})
  BY <1>3 DEF Restated
<1>5. Family(z)
  BY <1>3, <1>4, Annotated
<1>6. Documented(World, z)
  BY <1>3 DEF Documented
<1> QED BY <1>1, <1>5, <1>6 DEF AccountantInv

LEMMA StepFamily ==
  ASSUME AccountantInv, NextCall
  PROVE  AccountantInv' /\ Documented(World, World')
<1> DEFINE w == World
<1>1. PICK a \in Accountants :
        /\ Exists(a)
        /\ \/ \E t \in Transformations, hint \in DistHints :
                DoTransformInPlace(a, t, hint) \/ DoQueueTransformation(a, t, hint)
           \/ \E m \in Measurements, hint \in LossHints : DoMeasure(a, m, hint)
           \/ \E s \in Splits, b \in SplitBudgets, hint \in DistHints :
                DoSplit(a, s, b, hint)
           \/ DoForceActivate(a)
           \/ \E force \in BOOLEAN : DoRetire(a, force)
  BY DEF NextCall
<1>2. w.tree = tree /\ w.acct = acct /\ w.ok = TRUE /\ Family(w)
  BY WorldFields DEF AccountantInv
<1>3. a \in Existing(w)
  BY <1>1, <1>2 DEF Exists, Existing
<1>4. DistHints \subseteq Dist \union {None} /\ LossHints \subseteq Budgets \union {None}
  BY HintsAssumption
<1> SUFFICES \E v : Family(v) /\ Documented(w, v) /\ Becomes(v)
  BY CallFamily
<1> HIDE DEF w
<1>5. ASSUME NEW t \in Transformations, NEW hint \in DistHints,
             DoTransformInPlace(a, t, hint)
      PROVE  \E v : Family(v) /\ Documented(w, v) /\ Becomes(v)
  <2> DEFINE v == TransformInPlace(w, a, t, hint)
  <2>1. Becomes(v)
    BY <1>5 DEF DoTransformInPlace, w
  <2>2. NotedOnly(w, v, a)
    BY <1>2, <1>4, TransformFamily
  <2>3. CASE w.acct[a].state = "RETIRED"
    <3>1. v = Raised(w)
      BY <2>3 DEF TransformInPlace
    <3>2. v.acct = w.acct
      BY <1>2, <3>1, RaisedFamily
    <3>3. Documented(w, v)
      BY <3>2 DEF Documented
    <3> HIDE DEF v
    <3> QED BY <2>1, <2>2, <3>3 DEF NotedOnly
  <2>4. CASE w.acct[a].state # "RETIRED"
    <3> HIDE DEF v
    <3> QED BY <2>1, <2>2, <2>4, NotedDocumented DEF NotedOnly
  <2> QED BY <2>3, <2>4
<1>6. ASSUME NEW t \in Transformations, NEW hint \in DistHints,
             DoQueueTransformation(a, t, hint)
      PROVE  \E v : Family(v) /\ Documented(w, v) /\ Becomes(v)
  <2> DEFINE v == QueueTransformation(w, a, t, hint)
  <2>1. Becomes(v)
    BY <1>6 DEF DoQueueTransformation, w
  <2>2. NotedOnly(w, v, a)
    BY <1>2, <1>4, QueueFamily
  <2>3. CASE w.acct[a].state = "RETIRED"
    <3>1. v = Raised(w)
      BY <2>3 DEF QueueTransformation
    <3>2. v.acct = w.acct
      BY <1>2, <3>1, RaisedFamily
    <3>3. Documented(w, v)
      BY <3>2 DEF Documented
    <3> HIDE DEF v
    <3> QED BY <2>1, <2>2, <3>3 DEF NotedOnly
  <2>4. CASE w.acct[a].state # "RETIRED"
    <3> HIDE DEF v
    <3> QED BY <2>1, <2>2, <2>4, NotedDocumented DEF NotedOnly
  <2> QED BY <2>3, <2>4
<1>7. ASSUME NEW m \in Measurements, NEW hint \in LossHints, DoMeasure(a, m, hint)
      PROVE  \E v : Family(v) /\ Documented(w, v) /\ Becomes(v)
  <2>1. PICK raises \in BOOLEAN : Becomes(Measure(w, a, m, hint, raises))
    BY <1>7 DEF DoMeasure, w
  <2>2. Len(a) < MaxDepth /\ w.tree[a].next <= MaxFan
    BY <1>2, <1>7 DEF DoMeasure, HasRoom
  <2>3. WellMade(m) /\ hint \in Budgets \union {None}
    BY <1>4, MeasurementsAssumption
  <2> DEFINE v == Measure(w, a, m, hint, raises)
  <2>4. Family(v) /\ Documented(w, v)
    BY <1>2, <2>2, <2>3, MeasureFamily
  <2> QED BY <2>1, <2>4
<1>8. ASSUME NEW s \in Splits, NEW b \in SplitBudgets, NEW hint \in DistHints,
             DoSplit(a, s, b, hint)
      PROVE  \E v : Family(v) /\ Documented(w, v) /\ Becomes(v)
  <2>1. PICK raises \in BOOLEAN : Becomes(Split(w, a, s, b, hint, raises))
    BY <1>8 DEF DoSplit, w
  <2>2. Len(a) + 2 <= MaxDepth /\ w.tree[a].next <= MaxFan
    BY <1>2, <1>8 DEF DoSplit, HasRoom
  <2>3. b \in Budgets /\ hint \in Dist \union {None}
    BY <1>4, SplitBudgetsAssumption
  <2> DEFINE v == Split(w, a, s, b, hint, raises)
  <2>4. v = Split(w, a, s, b, hint, raises)
    OBVIOUS
  <2> HIDE DEF v
  <2>5. Family(v) /\ Documented(w, v)
    BY <1>2, <2>2, <2>3, <2>4, SplitCallFamily
  <2> QED BY <2>1, <2>4, <2>5
<1>9. ASSUME DoForceActivate(a)
      PROVE  \E v : Family(v) /\ Documented(w, v) /\ Becomes(v)
  <2> DEFINE v == ForceActivate(w, a)
  <2>1. Becomes(v)
    BY <1>9 DEF DoForceActivate, w
  <2>2. Family(v) /\ Moved(w, v)
    BY <1>2, <1>3, ForceActivateEffect
  <2> HIDE DEF v
  <2> QED BY <2>1, <2>2, MovedDocumented
<1>10. ASSUME NEW force \in BOOLEAN, DoRetire(a, force)
       PROVE  \E v : Family(v) /\ Documented(w, v) /\ Becomes(v)
  <2> DEFINE v == Retire(w, a, force)
  <2>1. Becomes(v)
    BY <1>10 DEF DoRetire, w
  <2>2. Family(v) /\ Moved(w, v)
    BY <1>2, <1>3, RetireFamily
  <2> HIDE DEF v
  <2> QED BY <2>1, <2>2, MovedDocumented
<1> QED BY <1>1, <1>5, <1>6, <1>7, <1>8, <1>9, <1>10

(* Every call keeps the family as it is described here.                    *)
THEOREM FamilySafety == AccountantSpec => []AccountantInv
<1>1. Launch => AccountantInv
  BY LaunchFamily
<1>2. AccountantInv /\ [NextCall]_accountantVars => AccountantInv'
  <2> SUFFICES ASSUME AccountantInv, [NextCall]_accountantVars
               PROVE  AccountantInv'
    OBVIOUS
  <2>1. CASE NextCall
    BY <2>1, StepFamily
  <2>2. CASE UNCHANGED accountantVars
    <3>1. World' = World
      BY <2>2 DEF World, accountantVars
    <3> QED BY <3>1 DEF AccountantInv
  <2> QED BY <2>1, <2>2
<1> QED BY <1>1, <1>2, PTL DEF AccountantSpec

-----------------------------------------------------------------------------
(* What callers see *)

(* Accountants keep fields of their types, whatever raises on the way.     *)
THEOREM AccountantType == AccountantSpec => []AccountantTypeOK
<1>1. AccountantInv => AccountantTypeOK
  BY WorldFields DEF AccountantInv, Family, IsWorld, AccountantTypeOK
<1> QED BY <1>1, FamilySafety, PTL

(* The assertions of the accountants about their queryables never fire.    *)
THEOREM ActiveUsable == AccountantSpec => []ActiveIsUsable
<1>1. ASSUME AccountantInv PROVE ActiveIsUsable
  <2>1. Usable(World) /\ World.tree = tree /\ World.acct = acct
    BY <1>1, WorldFields DEF AccountantInv, Family
  <2> QED BY <2>1 DEF Usable, InUse, Waits, AnswersParts, ActiveIsUsable
<1> QED BY <1>1, FamilySafety, PTL

(* The partitions of a split are visited one after the other.              *)
THEOREM PartitionsInOrder == AccountantSpec => []ChildrenInOrder
<1>1. ASSUME AccountantInv PROVE ChildrenInOrder
  <2>1. Order(World) /\ World.tree = tree /\ World.acct = acct
    BY <1>1, WorldFields DEF AccountantInv, Family
  <2> SUFFICES ASSUME NEW a \in Accountants
               PROVE  IF acct[a].state = "WAITING_FOR_CHILDREN"
                      THEN \E i \in 1 .. acct[a].size :
                             /\ acct[Child(World, a, i)].state \in
                                  {"ACTIVE", "WAITING_FOR_CHILDREN"}
                             /\ \A j \in 1 .. acct[a].size : j < i =>
                                  acct[Child(World, a, j)].state = "RETIRED"
                             /\ \A j \in 1 .. acct[a].size : j > i =>
                                  acct[Child(World, a, j)].state = "WAITING_FOR_SIBLING"
                             /\ tree[ParallelOf(World, a)].next = i + 1
                      ELSE \A i \in 1 .. acct[a].size :
                             acct[Child(World, a, i)].state = "RETIRED"
    BY DEF ChildrenInOrder
  <2>2. CASE acct[a].state = "WAITING_FOR_CHILDREN"
    <3>1. PICK i \in 1 .. acct[a].size : InTurn(World, a, i)
      BY <2>1, <2>2 DEF Order, Waits
    <3> QED BY <2>1, <2>2, <3>1 DEF InTurn, InUse
  <2>3. CASE acct[a].state # "WAITING_FOR_CHILDREN"
    BY <2>1, <2>3 DEF Order, Waits
  <2> QED BY <2>2, <2>3
<1> QED BY <1>1, FamilySafety, PTL

(* An accountant never shows more than its queryable will let it spend.    *)
THEOREM BudgetShown == AccountantSpec => []BudgetWithinQueryable
<1>1. ASSUME AccountantInv PROVE BudgetWithinQueryable
  <2>1. BudgetsWithin(World) /\ World.tree = tree /\ World.acct = acct
    BY <1>1, WorldFields DEF AccountantInv, Family
  <2> QED BY <2>1 DEF BudgetsWithin, BudgetWithinQueryable, HasQueryable
<1> QED BY <1>1, FamilySafety, PTL

(* No call takes a transition PrivacyAccountantState does not document.    *)
THEOREM TransitionsDocumented == AccountantSpec => DocumentedTransitions
<1> DEFINE Kept ==
      \A a \in Accountants :
        /\ acct[a].state = "RETIRED" => acct'[a] = acct[a]
        /\ acct'[a].state = "WAITING_FOR_SIBLING" =>
             acct[a].state \in {"none", "WAITING_FOR_SIBLING"}
        /\ acct'[a].state = "WAITING_FOR_CHILDREN" =>
             acct[a].state \in {"ACTIVE", "WAITING_FOR_CHILDREN"}
<1>1. AccountantInv /\ [NextCall]_accountantVars => [Kept]_accountantVars
  <2> SUFFICES ASSUME AccountantInv, NextCall PROVE Kept
    OBVIOUS
  <2>1. Documented(World, World')
    BY StepFamily
  <2>2. World.acct = acct /\ World'.acct = acct'
    BY DEF World
  <2> QED BY <2>1, <2>2 DEF Documented
<1>2. AccountantSpec => [][Kept]_accountantVars
  BY <1>1, FamilySafety, PTL DEF AccountantSpec
<1> QED BY <1>2 DEF DocumentedTransitions

(* Below whoever is in use one accountant is ACTIVE, and only one.         *)
LEMMA OneActiveBelow ==
  ASSUME NEW w, Family(w), NEW x \in Accountants, InUse(w, x)
  PROVE  \E y \in Accountants :
           {z \in Accountants : w.acct[z].state = "ACTIVE" /\ Below(z, x)} = {y}
<1> DEFINE Active(x_1) ==
             {z \in Accountants : w.acct[z].state = "ACTIVE" /\ Below(z, x_1)}
           N == {n \in Nat : \A b \in Accountants :
                   InUse(w, b) /\ MaxDepth < Len(b) + n =>
                     \E y \in Accountants : Active(b) = {y}}
<1>1. \A b \in Accountants : b \in Path /\ Len(b) \in Nat /\ Len(b) <= MaxDepth
  BY PathType, DepthAssumption DEF Accountants
<1>2. 0 \in N
  BY <1>1, DepthAssumption
<1>3. ASSUME NEW n \in Nat, n \in N
      PROVE  n + 1 \in N
  <2> SUFFICES ASSUME NEW b \in Accountants, InUse(w, b),
                      MaxDepth < Len(b) + (n + 1)
               PROVE  \E y \in Accountants : Active(b) = {y}
    OBVIOUS
  <2>1. Chain(w) /\ Order(w)
    BY DEF Family
  <2>2. CASE w.acct[b].state = "ACTIVE"
    <3>1. b \in Active(b)
      BY <1>1, <2>2, BelowReflexive
    <3>2. ASSUME NEW z \in Active(b) PROVE z = b
      <4>1. StrictlyBelow(z, b) => Waits(w, b)
        BY <2>1 DEF Chain, Present
      <4> QED BY <2>2, <4>1 DEF StrictlyBelow, Waits
    <3> HIDE DEF Active
    <3> QED BY <3>1, <3>2
  <2>3. CASE w.acct[b].state # "ACTIVE"
    <3>1. Waits(w, b)
      BY <2>3 DEF InUse, Waits
    <3>2. PICK i \in 1 .. w.acct[b].size : InTurn(w, b, i)
      BY <2>1, <3>1 DEF Order
    <3> DEFINE c == Child(w, b, i)
    <3>3. /\ c \in Accountants /\ Len(c) = Len(b) + 2 /\ StrictlyBelow(c, b)
          /\ InUse(w, c)
      BY <3>2, ChildPlace DEF InTurn
    <3>4. PICK y \in Accountants : Active(c) = {y}
      <4>1. MaxDepth < Len(c) + n
        BY <1>1, <3>3, DepthAssumption
      <4>2. \A d \in Accountants : InUse(w, d) /\ MaxDepth < Len(d) + n =>
              \E y \in Accountants : Active(d) = {y}
        BY <1>3
      <4> HIDE DEF Active, c
      <4> QED BY <3>3, <4>1, <4>2
    <3>5. Active(c) \subseteq Active(b)
      <4> SUFFICES ASSUME NEW z \in Accountants, Below(z, c) PROVE Below(z, b)
        OBVIOUS
      <4> QED BY <1>1, <3>3, BelowTransitive DEF StrictlyBelow
    <3>6. Active(b) \subseteq Active(c)
      <4> SUFFICES ASSUME NEW z \in Accountants, w.acct[z].state = "ACTIVE",
                          Below(z, b)
                   PROVE  Below(z, c)
        OBVIOUS
      <4> DEFINE j == z[Len(b) + 2]
                 q == z[Len(b) + 1]
      <4>1. StrictlyBelow(z, b) /\ Present(w, z)
        BY <3>1 DEF StrictlyBelow, Waits, Present
      <4>2. /\ q \in 1 .. MaxFan /\ j \in 1 .. MaxFan
            /\ Append(Append(b, q), j) \in Accountants
            /\ Below(z, Append(Append(b, q), j))
        BY <4>1, BelowChild
      <4>3. q = w.acct[b].pq /\ j <= w.acct[b].size
        BY <2>1, <4>1 DEF Chain
      <4> HIDE DEF q, j
      <4>4. w.acct[b].size \in Nat
        BY WorldType DEF Family
      <4>5. /\ j \in 1 .. w.acct[b].size /\ j \in Nat /\ i \in Nat
            /\ Child(w, b, j) \in Accountants /\ Below(z, Child(w, b, j))
        BY <4>2, <4>3, <4>4, FanAssumption DEF Child, ParallelOf
      <4>6. CASE j = i
        BY <4>5, <4>6
      <4>7. CASE j # i
        <5>1. w.acct[Child(w, b, j)].state \in {"RETIRED", "WAITING_FOR_SIBLING"}
          BY <3>2, <4>5, <4>7 DEF InTurn
        <5>2. StrictlyBelow(z, Child(w, b, j))
          BY <4>5, <5>1 DEF StrictlyBelow
        <5>3. Waits(w, Child(w, b, j))
          BY <2>1, <4>1, <4>5, <5>2 DEF Chain
        <5> QED BY <5>1, <5>3 DEF Waits
      <4> QED BY <4>6, <4>7
    <3> QED BY <3>4, <3>5, <3>6
  <2> QED BY <2>2, <2>3
<1>4. MaxDepth + 1 \in N
  <2> HIDE DEF N
  <2>1. Nat \subseteq N
    BY <1>2, <1>3, Induction
  <2> QED BY <2>1, DepthAssumption
<1> QED BY <1>1, <1>4, DepthAssumption

(* Until the root is retired one accountant can act, afterwards nobody.    *)
THEOREM OneCanAct == AccountantSpec => []OneActive
<1> DEFINE Active == {a \in Accountants : acct[a].state = "ACTIVE"}
<1>1. ASSUME AccountantInv PROVE OneActive
  <2> DEFINE w == World
  <2>1. Family(w) /\ w.acct = acct
    BY <1>1, WorldFields DEF AccountantInv
  <2> HIDE DEF w
  <2>2. Root \in Accountants /\ \A z \in Accountants : Below(z, Root)
    BY RootIsAccountant, RootAboveAll DEF Accountants
  <2>3. CASE acct[Root].state = "RETIRED"
    <3>1. ASSUME NEW z \in Accountants PROVE z \notin Active
      <4>1. CASE z = Root
        BY <2>3, <4>1
      <4>2. CASE z # Root
        <5>1. StrictlyBelow(z, Root)
          BY <2>2, <4>2 DEF StrictlyBelow
        <5>2. ~ Waits(w, Root)
          BY <2>1, <2>3 DEF Waits
        <5>3. ~ Present(w, z)
          BY <2>1, <2>2, <5>1, <5>2 DEF Family, Chain
        <5> QED BY <2>1, <5>3 DEF Present
      <4> QED BY <4>1, <4>2
    <3>2. Active = {}
      BY <3>1
    <3> HIDE DEF Active
    <3>3. Cardinality(Active) = 0
      BY <3>2, FS_EmptySet
    <3> QED BY <2>3, <3>3 DEF OneActive, Active
  <2>4. CASE acct[Root].state # "RETIRED"
    <3>1. InUse(w, Root)
      <4>1. RootStarted(w) /\ w.acct[Root] \in Accountant
        BY <2>1, <2>2, WorldType DEF Family
      <4> QED BY <2>1, <2>4, <4>1 DEF RootStarted, InUse, Accountant
    <3>2. PICK y \in Accountants :
            {z \in Accountants : w.acct[z].state = "ACTIVE" /\ Below(z, Root)} = {y}
      BY <2>1, <2>2, <3>1, OneActiveBelow
    <3>3. Active = {y}
      BY <2>1, <2>2, <3>2
    <3> HIDE DEF Active
    <3>4. Cardinality(Active) = 1
      BY <3>3, FS_Singleton
    <3> QED BY <2>4, <3>4 DEF OneActive, Active
  <2> QED BY <2>3, <2>4
<1> QED BY <1>1, FamilySafety, PTL

(* Callers who only go through accountants cannot outspend a composition:  *)
(* what a family of accountants lets out of every queryable is within its  *)
(* privacy budget.                                                         *)
THEOREM FamilyBudgetSafety == AccountantSpec => []LossWithinBudget
<1>1. ASSUME AccountantInv PROVE LossWithinBudget
  <2>1. Sound(tree)
    BY <1>1, WorldFields DEF AccountantInv, Family
  <2>2. WrapperInv /\ AccountingInv /\ PaidInv
    BY <2>1 DEF Sound, WrapperInv, AccountingInv, PaidInv
  <2> QED BY <2>2, AllCovered DEF LossCovered, LossWithinBudget
<1> QED BY <1>1, FamilySafety, PTL

-----------------------------------------------------------------------------
(* An accountant agrees with its queryable                                 *)

(* Queued transformations have a stability function, ...                   *)
StabilityFunctions == \A t \in Transformations : t.fn

(* ... and no explicit d_out is given.                                     *)
NoDistances == DistHints \subseteq {None}

(* What the accountant r shows is what comes out of data of this type, at  *)
(* this distance, once what is queued on r has been executed.              *)
Matches(r, type, d) ==
  IF r.pending = None
  THEN r.type = type /\ (NoDistances => r.dIn = d)
  ELSE LET chain == Chained(r.type, r.pending)
       IN  /\ chain.in = type /\ chain.out = r.type /\ chain.fn
           /\ NoDistances => chain.stab[d] = r.dIn

OpenMatches(w, a) ==
  IsOpen(w.tree, a) =>
    /\ Matches(w.acct[a], w.tree[a].type, w.tree[a].dIn)
    /\ NoDistances => w.acct[a].budget = w.tree[a].remaining

(* A child in waiting has no queryable yet, but there is a part for it.    *)
PartsMatch(w, a) ==
  \A i \in 1 .. w.acct[a].size :
    LET r == w.acct[Child(w, a, i)]
        part == w.tree[ParallelOf(w, a)].parts[i]
    IN  r.state = "WAITING_FOR_SIBLING" => Matches(r, part.in, part.dIn)

Tallied(w) ==
  \A a \in Accountants :
    OpenMatches(w, a) /\ (Waits(w, a) => PartsMatch(w, a))

(* Who has its turn has nothing queued any more.                           *)
Prompt(w) ==
  \A a \in Accountants : w.acct[a].state = "ACTIVE" => w.acct[a].pending = None

Agreed(w) == Tallied(w) /\ Prompt(w)

SameView(nd, new) ==
  /\ new.type = nd.type /\ new.dIn = nd.dIn /\ new.remaining = nd.remaining
  /\ new.parts = nd.parts

LEMMA MatchesSame ==
  ASSUME NEW r, NEW new, SameNotes(r, new), NEW type, NEW d, Matches(r, type, d)
  PROVE  Matches(new, type, d)
BY DEF SameNotes, Matches

LEMMA KeptOpen ==
  ASSUME NEW w, Tallied(w), NEW v, NEW a \in Accountants,
         IsOpen(w.tree, a), SameNotes(w.acct[a], v.acct[a]),
         SameView(w.tree[a], v.tree[a])
  PROVE  OpenMatches(v, a)
<1>1. /\ Matches(w.acct[a], w.tree[a].type, w.tree[a].dIn)
      /\ NoDistances => w.acct[a].budget = w.tree[a].remaining
  BY DEF Tallied, OpenMatches
<1>2. Matches(v.acct[a], w.tree[a].type, w.tree[a].dIn)
  BY <1>1, MatchesSame
<1> QED BY <1>1, <1>2 DEF OpenMatches, SameView, SameNotes

(* v has the parts and the waiting children of a from w.                   *)
KeepsParts(w, v, a) ==
  /\ Waits(w, a) /\ v.acct[a].pq = w.acct[a].pq /\ v.acct[a].size = w.acct[a].size
  /\ v.tree[ParallelOf(w, a)].parts = w.tree[ParallelOf(w, a)].parts
  /\ \A i \in 1 .. w.acct[a].size :
       v.acct[Child(w, a, i)].state = "WAITING_FOR_SIBLING" =>
         /\ w.acct[Child(w, a, i)].state = "WAITING_FOR_SIBLING"
         /\ SameNotes(w.acct[Child(w, a, i)], v.acct[Child(w, a, i)])

LEMMA KeptParts ==
  ASSUME NEW w, Tallied(w), NEW v, NEW a \in Accountants, KeepsParts(w, v, a)
  PROVE  PartsMatch(v, a)
<1>1. PartsMatch(w, a)
  BY DEF Tallied, KeepsParts
<1>2. ParallelOf(v, a) = ParallelOf(w, a) /\ \A i : Child(v, a, i) = Child(w, a, i)
  BY DEF KeepsParts, ParallelOf, Child
<1> SUFFICES ASSUME NEW i \in 1 .. w.acct[a].size,
                    v.acct[Child(w, a, i)].state = "WAITING_FOR_SIBLING"
             PROVE  LET part == w.tree[ParallelOf(w, a)].parts[i]
                    IN  Matches(v.acct[Child(w, a, i)], part.in, part.dIn)
  BY <1>2 DEF PartsMatch, KeepsParts
<1>3. /\ w.acct[Child(w, a, i)].state = "WAITING_FOR_SIBLING"
      /\ SameNotes(w.acct[Child(w, a, i)], v.acct[Child(w, a, i)])
  BY DEF KeepsParts
<1> QED BY <1>1, <1>3, MatchesSame DEF PartsMatch

-----------------------------------------------------------------------------
(* What the calls do to what the queryables hold *)

LEMMA RetiredViews ==
  ASSUME NEW tr \in [Path -> Node], NEW u, OnlyRetires(tr, u), NEW x \in Path
  PROVE  SameView(tr[x], u[x])
<1>1. tr[x] \in Node /\ u[x].retired \in SUBSET (1 .. MaxDepth)
  BY DEF OnlyRetires, Node
<1>2. u[x] = [tr[x] EXCEPT !.retired = u[x].retired]
  BY DEF OnlyRetires
<1> QED BY <1>1, <1>2 DEF Node, SameView

LEMMA TransformedViews ==
  ASSUME NEW tr \in [Path -> Node], NEW p \in Path,
         NEW t \in Transformation, NEW hint \in Dist \union {None}
  PROVE  LET v == Transformed(tr, p, t, hint)
             known == Stabilities(tr[p].dIn, t, hint)
         IN  /\ \A x \in Path \ {p} : v[x] = tr[x]
             /\ known = {} => SameView(tr[p], v[p])
             /\ known # {} =>
                  /\ v[p].type = t.out /\ v[p].dIn \in known
                  /\ v[p].remaining = tr[p].remaining
<1> DEFINE v == Transformed(tr, p, t, hint)
           known == Stabilities(tr[p].dIn, t, hint)
           d == CHOOSE e \in known : TRUE
           torn == [tr[p] EXCEPT !.sens = t.stab[@], !.torn = TRUE]
           moved == [tr[p] EXCEPT !.sens = t.stab[@], !.dIn = d, !.type = t.out]
<1>1. tr[p] \in Node
  OBVIOUS
<1>2. known # {} => d \in known
  OBVIOUS
<1> HIDE DEF d
<1>3. v = [tr EXCEPT ![p] = IF known = {} THEN torn ELSE moved]
  BY <1>1 DEF Transformed, d
<1>4. /\ SameView(tr[p], torn)
      /\ moved.type = t.out /\ moved.dIn = d /\ moved.remaining = tr[p].remaining
  BY <1>1 DEF Node, SameView
<1> HIDE DEF v, torn, moved, known
<1>5. v[p] = IF known = {} THEN torn ELSE moved
  BY <1>3
<1>6. \A x \in Path \ {p} : v[x] = tr[x]
  BY <1>3
<1> QED BY <1>2, <1>4, <1>5, <1>6 DEF v, known

LEMMA MeasuredViews ==
  ASSUME NEW tr, Sound(tr), NEW p \in Path, Live(tr, p),
         Append(p, tr[p].next) \in Path,
         NEW m, NEW cost, NEW raises \in BOOLEAN
  PROVE  LET v == Measured(tr, p, m, cost, raises)
             c == Append(p, tr[p].next)
         IN  /\ \A x \in Path \ {p, c} : SameView(tr[x], v[x])
             /\ v[p].type = tr[p].type /\ v[p].dIn = tr[p].dIn
             /\ v[p].remaining = Subtract(tr[p].remaining, cost)
<1> DEFINE u == RetireCurrent(tr, p)
           n == tr[p].next
           c == Append(p, n)
           spent == IF IsFinite(tr[p].remaining)
                    THEN AddedLosses(tr[p].spent, cost) ELSE tr[p].spent
           remaining == Subtract(tr[p].remaining, cost)
           nd == [tr[p] EXCEPT !.current = 0, !.remaining = remaining,
                               !.spent = spent]
           charged == [u EXCEPT ![p] = nd]
           new == Created(m, tr[p].sens, cost, tr[p].torn)
           answered == [nd EXCEPT !.next = n + 1, !.current = n]
           w == [u EXCEPT ![p] = answered, ![c] = new]
           v == Measured(tr, p, m, cost, raises)
<1>1. tr \in [Path -> Node] /\ tr[p] \in Node /\ WellRetired(tr) /\ p # c
  <2>1. tr \in [Path -> Node] /\ tr[p] \in Node /\ WellRetired(tr)
    BY DEF Sound, WellRetired, Shaped
  <2>2. p # c
    BY AppendPath, BelowAnswer, BelowReflexive DEF StrictlyBelow
  <2> QED BY <2>1, <2>2
<1>2. /\ u \in [Path -> Node] /\ u[p] = tr[p]
      /\ \A x \in Path : SameView(tr[x], u[x])
  <2>1. WellRetired(u) /\ OnlyRetires(tr, u) /\ u[p] = tr[p]
    BY <1>1, RetireCurrentEffect DEF StrictlyBelow
  <2> HIDE DEF u
  <2> QED BY <1>1, <2>1, RetiredViews DEF WellRetired, Shaped
<1>3. /\ nd.remaining = remaining /\ nd.type = tr[p].type /\ nd.dIn = tr[p].dIn
      /\ answered.remaining = remaining /\ answered.type = tr[p].type
      /\ answered.dIn = tr[p].dIn
  <2> HIDE DEF n, remaining, spent
  <2> QED BY <1>1 DEF Node
<1>4. v = IF raises THEN charged ELSE w
  BY <1>1, <1>2 DEF Measured
<1> HIDE DEF u, v, nd, answered, new, remaining
<1>5. \A x \in Path \ {p, c} : SameView(tr[x], v[x])
  BY <1>1, <1>2, <1>4
<1>6. v[p] = nd \/ v[p] = answered
  BY <1>1, <1>2, <1>4
<1> QED BY <1>3, <1>5, <1>6 DEF v, remaining

LEMMA IndexedViews ==
  ASSUME NEW tr, Sound(tr), NEW p \in Path, Live(tr, p),
         tr[p].next <= Len(tr[p].parts),
         Append(p, tr[p].next) \in Path,
         tr[p].parts[tr[p].next].kind = "sequential"
  PROVE  LET v == Indexed(tr, p, FALSE)
             c == Append(p, tr[p].next)
             part == tr[p].parts[tr[p].next]
         IN  /\ \A x \in Path \ {p, c} : SameView(tr[x], v[x])
             /\ v[p].parts = tr[p].parts
             /\ v[c].type = part.in /\ v[c].dIn = part.dIn
             /\ v[c].remaining = part.budget
<1> DEFINE u == RetireCurrent(tr, p)
           n == tr[p].next
           c == Append(p, n)
           part == tr[p].parts[n]
           new == Created(part, tr[p].sens, tr[p].charge, tr[p].torn)
           answered == [tr[p] EXCEPT !.next = n + 1, !.current = n]
           w == [u EXCEPT ![p] = answered, ![c] = new]
           v == Indexed(tr, p, FALSE)
<1>1. /\ tr \in [Path -> Node] /\ tr[p] \in Node /\ WellRetired(tr) /\ p # c
      /\ n \in Nat /\ Len(tr[p].parts) \in Nat
  <2>1. tr \in [Path -> Node] /\ tr[p] \in Node /\ WellRetired(tr)
    BY DEF Sound, WellRetired, Shaped
  <2>2. p # c
    BY AppendPath, BelowAnswer, BelowReflexive DEF StrictlyBelow
  <2>3. tr[p].parts \in Seq(AnswerMeasurement \union SequentialMeasurement) /\ n \in Nat
    BY <2>1 DEF Node
  <2> QED BY <2>1, <2>2, <2>3
<1>2. ~ (FALSE \/ n > Len(tr[p].parts))
  BY <1>1
<1>3. /\ u \in [Path -> Node] /\ u[p] = tr[p]
      /\ \A x \in Path : SameView(tr[x], u[x])
  <2>1. WellRetired(u) /\ OnlyRetires(tr, u) /\ u[p] = tr[p]
    BY <1>1, RetireCurrentEffect DEF StrictlyBelow
  <2> HIDE DEF u
  <2> QED BY <1>1, <2>1, RetiredViews DEF WellRetired, Shaped
<1>4. /\ new.type = part.in /\ new.dIn = part.dIn /\ new.remaining = part.budget
  <2>1. part.kind = "sequential"
    OBVIOUS
  <2> HIDE DEF part
  <2> QED BY <2>1 DEF Created, NotOpened
<1>5. answered.parts = tr[p].parts
  <2> HIDE DEF n
  <2> QED BY <1>1 DEF Node
<1>6. v = w
  BY <1>1, <1>2, <1>3 DEF Indexed
<1> HIDE DEF u, v, answered, new
<1>7. \A x \in Path \ {p, c} : SameView(tr[x], v[x])
  BY <1>1, <1>3, <1>6
<1>8. v[p] = answered /\ v[c] = new
  BY <1>1, <1>3, <1>6
<1> QED BY <1>4, <1>5, <1>7, <1>8 DEF v

-----------------------------------------------------------------------------
(* Worlds that differ in one accountant *)

NotedWith(w, v, a, type, d, q) ==
  /\ v.acct[a].type = type /\ v.acct[a].dIn = d /\ v.acct[a].pending = q
  /\ v.acct[a].budget = w.acct[a].budget
  /\ v.tree = w.tree /\ v.ok = w.ok /\ IsWorld(v)
  /\ \A b \in Accountants : b # a => v.acct[b] = w.acct[b]

LEMMA PendingNotes ==
  ASSUME NEW w, IsWorld(w), NEW a \in Accountants,
         NEW q \in {None} \union Seq(Queued),
         NEW v, v = [w EXCEPT !.acct[a].pending = q]
  PROVE  NotedWith(w, v, a, w.acct[a].type, w.acct[a].dIn, q)
<1> DEFINE r == [w.acct[a] EXCEPT !.pending = q]
           z == [w EXCEPT !.acct[a] = r]
<1>1. w.acct[a] \in Accountant
  BY WorldType
<1>2. /\ r \in Accountant /\ r.pending = q /\ r.budget = w.acct[a].budget
      /\ r.type = w.acct[a].type /\ r.dIn = w.acct[a].dIn
  BY <1>1 DEF Accountant
<1>3. v = z
  BY DEF IsWorld
<1> HIDE DEF r
<1>4. /\ z.acct[a] = r /\ z.tree = w.tree /\ z.ok = w.ok /\ IsWorld(z)
      /\ \A b \in Accountants : b # a => z.acct[b] = w.acct[b]
  BY <1>2, SetAccount
<1> HIDE DEF z
<1> QED BY <1>2, <1>3, <1>4 DEF NotedWith

LEMMA TypeNotes ==
  ASSUME NEW w, IsWorld(w), NEW a \in Accountants,
         NEW t \in Types,
         NEW v, v = [w EXCEPT !.acct[a].type = t]
  PROVE  NotedWith(w, v, a, t, w.acct[a].dIn, w.acct[a].pending)
<1> DEFINE r == [w.acct[a] EXCEPT !.type = t]
           z == [w EXCEPT !.acct[a] = r]
<1>1. w.acct[a] \in Accountant
  BY WorldType
<1>2. /\ r \in Accountant /\ r.type = t /\ r.budget = w.acct[a].budget
      /\ r.pending = w.acct[a].pending /\ r.dIn = w.acct[a].dIn
  BY <1>1 DEF Accountant
<1>3. v = z
  BY DEF IsWorld
<1> HIDE DEF r
<1>4. /\ z.acct[a] = r /\ z.tree = w.tree /\ z.ok = w.ok /\ IsWorld(z)
      /\ \A b \in Accountants : b # a => z.acct[b] = w.acct[b]
  BY <1>2, SetAccount
<1> HIDE DEF z
<1> QED BY <1>2, <1>3, <1>4 DEF NotedWith

LEMMA DistanceNotes ==
  ASSUME NEW w, IsWorld(w), NEW a \in Accountants,
         NEW d \in Dist,
         NEW v, v = [w EXCEPT !.acct[a].dIn = d]
  PROVE  NotedWith(w, v, a, w.acct[a].type, d, w.acct[a].pending)
<1> DEFINE r == [w.acct[a] EXCEPT !.dIn = d]
           z == [w EXCEPT !.acct[a] = r]
<1>1. w.acct[a] \in Accountant
  BY WorldType
<1>2. /\ r \in Accountant /\ r.dIn = d /\ r.budget = w.acct[a].budget
      /\ r.pending = w.acct[a].pending /\ r.type = w.acct[a].type
  BY <1>1 DEF Accountant
<1>3. v = z
  BY DEF IsWorld
<1> HIDE DEF r
<1>4. /\ z.acct[a] = r /\ z.tree = w.tree /\ z.ok = w.ok /\ IsWorld(z)
      /\ \A b \in Accountants : b # a => z.acct[b] = w.acct[b]
  BY <1>2, SetAccount
<1> HIDE DEF z
<1> QED BY <1>2, <1>3, <1>4 DEF NotedWith

LEMMA NotesOfSame ==
  ASSUME NEW r
  PROVE  SameNotes(r, r) /\ SameView(r, r)
BY DEF SameNotes, SameView

(* Where the queryable is that an accountant waits on.                     *)
LEMMA ParallelPlace ==
  ASSUME NEW w, Family(w), NEW a \in Accountants, Waits(w, a)
  PROVE  /\ ParallelOf(w, a) \in Path /\ ParallelOf(w, a) \notin Accountants
         /\ IsOpen(w.tree, ParallelOf(w, a))
<1>1. ParallelOf(w, a) \in Path /\ Live(w.tree, ParallelOf(w, a))
  BY DEF Family, Usable, AnswersParts
<1>2. PICK i \in 1 .. w.acct[a].size : InTurn(w, a, i)
  BY DEF Family, Order
<1>3. ParallelOf(w, a) \notin Accountants
  BY <1>2, ChildPlace
<1> QED BY <1>1, <1>3 DEF Live

(* What is queued on an accountant can be executed when it is in use.      *)
LEMMA ExecutedAgrees ==
  ASSUME NEW w, Family(w), w.ok, Tallied(w), NEW a \in Accountants, InUse(w, a)
  PROVE  LET v == ExecutePending(w, a)
         IN  v.ok /\ Tallied(v) /\ v.acct[a].pending = None
<1> DEFINE v == ExecutePending(w, a)
           chain == Chained(w.acct[a].type, w.acct[a].pending)
           done == SubmitTransformation(w, a, chain, None)
           d == w.tree[a].dIn
           u == Transformed(w.tree, a, chain, None)
<1>1. CASE w.acct[a].pending = None
  <2>1. v = w
    BY <1>1 DEF ExecutePending
  <2> QED BY <1>1, <2>1
<1>2. CASE w.acct[a].pending # None
  <2>1. /\ Live(w.tree, a) /\ IsOpen(w.tree, a) /\ a \in Path
        /\ w.tree \in [Path -> Node] /\ w.acct[a] \in Accountant
    BY WorldType DEF Family, Usable, Live, Accountants
  <2>2. d \in Dist /\ None \in Dist \union {None}
    BY <2>1 DEF Node
  <2>3. w.acct[a].type \in Types /\ w.acct[a].pending \in Seq(Queued)
    BY <1>2, <2>1 DEF Accountant
  <2>4. chain \in Transformation /\ Monotone(chain)
    BY <2>3, ChainedType
  <2>5. /\ chain.in = w.tree[a].type /\ chain.out = w.acct[a].type /\ chain.fn
        /\ NoDistances => chain.stab[d] = w.acct[a].dIn
        /\ NoDistances => w.acct[a].budget = w.tree[a].remaining
    BY <1>2, <2>1 DEF Tallied, OpenMatches, Matches
  <2>6. v = IF done.ok THEN [done EXCEPT !.acct[a].pending = None] ELSE done
    BY <1>2, <2>1 DEF ExecutePending, HasQueryable
  <2> HIDE DEF chain
  <2>7. Stabilities(d, chain, None) = {chain.stab[d]}
    BY <2>5 DEF Stabilities
  <2>8. done = [w EXCEPT !.tree = u, !.ok = TRUE]
    BY <2>1, <2>5, <2>7 DEF SubmitTransformation, Family, IsWorld
  <2>9. Family(done) /\ done.acct = w.acct
    BY <2>2, <2>4, SubmittedTransformation
  <2>10. /\ \A x \in Path \ {a} : u[x] = w.tree[x]
         /\ u[a].type = chain.out /\ u[a].dIn = chain.stab[d]
         /\ u[a].remaining = w.tree[a].remaining
    BY <2>1, <2>2, <2>4, <2>7, TransformedViews
  <2> HIDE DEF u, done, v
  <2>11. done.ok /\ done.tree = u /\ IsWorld(done)
    BY <2>8, <2>9 DEF Family, IsWorld
  <2>12. v = [done EXCEPT !.acct[a].pending = None]
    BY <2>6, <2>11
  <2>13. /\ v.acct[a].pending = None /\ v.acct[a].type = w.acct[a].type
         /\ v.acct[a].dIn = w.acct[a].dIn
    <3>1. None \in {None} \union Seq(Queued) /\ IsWorld(done)
      BY <2>11
    <3>2. NotedWith(done, v, a, done.acct[a].type, done.acct[a].dIn, None)
      BY <2>12, <3>1, PendingNotes, Zenon
    <3> QED BY <2>9, <3>2 DEF NotedWith
  <2>14. v.tree = u /\ v.ok
    BY <2>11, <2>12, SetPending
  <2>15. /\ Restated(w, v, {})
         /\ \A b \in Accountants : b # a => v.acct[b] = w.acct[b]
    BY ExecutedPending DEF v
  <2>16. ASSUME NEW b \in Accountants PROVE OpenMatches(v, b)
    <3>1. CASE b = a
      <4>1. Matches(v.acct[a], u[a].type, u[a].dIn)
        BY <2>5, <2>10, <2>13 DEF Matches
      <4>2. v.acct[a].budget = w.acct[a].budget
        BY <2>15 DEF Restated
      <4> QED BY <2>5, <2>10, <2>14, <3>1, <4>1, <4>2 DEF OpenMatches
    <3>2. CASE b # a
      <4>1. v.tree[b] = w.tree[b] /\ v.acct[b] = w.acct[b]
        BY <2>10, <2>14, <2>15, <3>2 DEF Accountants
      <4> QED BY <4>1 DEF Tallied, OpenMatches, IsOpen
    <3> QED BY <3>1, <3>2
  <2>17. ASSUME NEW b \in Accountants, Waits(v, b) PROVE PartsMatch(v, b)
    <3>1. Waits(w, b) /\ v.acct[b].pq = w.acct[b].pq /\ v.acct[b].size = w.acct[b].size
      BY <2>15, <2>17 DEF Restated, Waits
    <3>2. ParallelOf(w, b) \in Path \ {a}
      BY <3>1, ParallelPlace
    <3>3. v.tree[ParallelOf(w, b)] = w.tree[ParallelOf(w, b)]
      BY <2>10, <2>14, <3>2
    <3>4. ASSUME NEW i \in 1 .. w.acct[b].size,
                 v.acct[Child(w, b, i)].state = "WAITING_FOR_SIBLING"
          PROVE  /\ w.acct[Child(w, b, i)].state = "WAITING_FOR_SIBLING"
                 /\ v.acct[Child(w, b, i)] = w.acct[Child(w, b, i)]
      <4>1. Child(w, b, i) \in Accountants
        BY ChildPlace
      <4>2. w.acct[Child(w, b, i)].state = "WAITING_FOR_SIBLING"
        BY <2>15, <3>4, <4>1 DEF Restated
      <4> QED BY <2>15, <4>1, <4>2 DEF InUse
    <3>5. KeepsParts(w, v, b)
      BY <3>1, <3>3, <3>4, NotesOfSame DEF KeepsParts
    <3> QED BY <3>5, KeptParts
  <2> QED BY <2>13, <2>14, <2>16, <2>17 DEF Tallied, v
<1> QED BY <1>1, <1>2

-----------------------------------------------------------------------------
(* The turn is handed on *)

(* v has the notes of w, and nobody waits in v who does not in w.          *)
Keeps(w, v) ==
  \A b \in Accountants :
    /\ SameNotes(w.acct[b], v.acct[b])
    /\ v.acct[b].pq = w.acct[b].pq /\ v.acct[b].size = w.acct[b].size
    /\ v.acct[b].state = "WAITING_FOR_SIBLING" =>
         w.acct[b].state = "WAITING_FOR_SIBLING"
    /\ Waits(v, b) => Waits(w, b)

LEMMA KeptOfParts ==
  ASSUME NEW w, Family(w), Tallied(w), NEW v, Keeps(w, v), NEW b \in Accountants,
         Waits(v, b), v.tree[ParallelOf(w, b)].parts = w.tree[ParallelOf(w, b)].parts
  PROVE  PartsMatch(v, b)
<1>1. \A i \in 1 .. w.acct[b].size : Child(w, b, i) \in Accountants
  BY ChildPlace
<1>2. KeepsParts(w, v, b)
  BY <1>1 DEF KeepsParts, Keeps
<1> QED BY <1>2, KeptParts

LEMMA KeptTally ==
  ASSUME NEW w, Family(w), Tallied(w), NEW v, Keeps(w, v), v.tree = w.tree
  PROVE  Tallied(v)
<1>1. ASSUME NEW b \in Accountants PROVE OpenMatches(v, b)
  <2>1. SameNotes(w.acct[b], v.acct[b]) /\ SameView(w.tree[b], v.tree[b])
    BY NotesOfSame DEF Keeps
  <2>2. CASE IsOpen(w.tree, b)
    BY <2>1, <2>2, KeptOpen
  <2>3. CASE ~ IsOpen(w.tree, b)
    BY <2>3 DEF OpenMatches
  <2> QED BY <2>2, <2>3
<1>2. ASSUME NEW b \in Accountants, Waits(v, b) PROVE PartsMatch(v, b)
  BY <1>2, KeptOfParts
<1> QED BY <1>1, <1>2 DEF Tallied

(* Who is next has what its part has.                                      *)
LEMMA HandedTally ==
  ASSUME NEW w, Family(w), Tallied(w), NEW x \in Accountants,
         w.acct[x].state = "ACTIVE", x # Root, NEW m, NEW y, HandsOn(w, m, x, y)
  PROVE  Tallied(m)
<1> DEFINE a == Parent(x)
           i == IndexInParent(x)
           p == ParallelOf(w, a)
           nd == w.tree[p]
<1>1. /\ a \in Accountants /\ Waits(w, a) /\ i \in 1 .. w.acct[a].size
      /\ x = Child(w, a, i) /\ i \in Nat
  BY ChildOfWaiting DEF Present
<1> HIDE DEF a, i
<1>2. /\ Family(m) /\ y \in Accountants
      /\ \A b \in Accountants : SameNotes(w.acct[b], m.acct[b])
      /\ \/ i = w.acct[a].size /\ y = a /\ m.tree = w.tree
         \/ /\ i # w.acct[a].size /\ y = Child(w, a, i + 1)
            /\ i + 1 \in 1 .. w.acct[a].size
            /\ w.acct[y].state = "WAITING_FOR_SIBLING" /\ InTurn(w, a, i)
            /\ m.tree = Indexed(w.tree, p, FALSE)
  BY DEF HandsOn, a, i
<1>3. Keeps(w, m)
  <2>1. Moved(w, m)
    BY DEF HandsOn
  <2> QED BY <1>2, <2>1 DEF Moved, Keeps
<1>4. CASE m.tree = w.tree
  BY <1>3, <1>4, KeptTally
<1>5. CASE /\ y = Child(w, a, i + 1) /\ i + 1 \in 1 .. w.acct[a].size
           /\ w.acct[y].state = "WAITING_FOR_SIBLING" /\ InTurn(w, a, i)
           /\ m.tree = Indexed(w.tree, p, FALSE)
  <2> DEFINE u == Indexed(w.tree, p, FALSE)
  <2>1. /\ p \in Path /\ p \notin Accountants /\ Live(w.tree, p)
        /\ nd.kind = "parallel" /\ nd.next = i + 1
        /\ Len(nd.parts) = w.acct[a].size
        /\ nd.parts[i + 1].kind = "sequential"
        /\ nd.parts[i + 1].budget = w.acct[y].budget
    BY <1>1, <1>5, ParallelPlace DEF Family, Usable, AnswersParts, InTurn
  <2>2. y = Append(p, i + 1) /\ y \in Path
    <3>1. Child(w, a, i + 1) \in Accountants /\ Child(w, a, i + 1) = Append(p, i + 1)
      BY <1>1, <1>5, ChildPlace
    <3> QED BY <1>5, <3>1 DEF Accountants
  <2>3. Sound(w.tree) /\ i + 1 <= Len(nd.parts)
    <3>1. w.acct[a].size \in Nat /\ Sound(w.tree)
      BY <1>1, WorldType DEF Family
    <3>2. i + 1 <= w.acct[a].size
      BY <1>1, <1>5, <3>1
    <3> QED BY <2>1, <3>1, <3>2
  <2>4. /\ \A z \in Path \ {p, y} : SameView(w.tree[z], u[z])
        /\ u[p].parts = nd.parts
        /\ u[y].type = nd.parts[i + 1].in /\ u[y].dIn = nd.parts[i + 1].dIn
        /\ u[y].remaining = nd.parts[i + 1].budget
    <3> HIDE DEF p, u
    <3>1. /\ Sound(w.tree) /\ p \in Path /\ Live(w.tree, p)
          /\ w.tree[p].next <= Len(w.tree[p].parts)
          /\ Append(p, w.tree[p].next) = y /\ Append(p, w.tree[p].next) \in Path
          /\ w.tree[p].parts[w.tree[p].next] = nd.parts[i + 1]
          /\ w.tree[p].parts[w.tree[p].next].kind = "sequential"
      BY <2>1, <2>2, <2>3
    <3>2. LET c == Append(p, w.tree[p].next)
              part == w.tree[p].parts[w.tree[p].next]
          IN  /\ \A z \in Path \ {p, c} : SameView(w.tree[z], u[z])
              /\ u[p].parts = w.tree[p].parts
              /\ u[c].type = part.in /\ u[c].dIn = part.dIn
              /\ u[c].remaining = part.budget
      BY <3>1, IndexedViews DEF u
    <3> QED BY <3>1, <3>2
  <2>5. OpenSet(u) = OpenSet(w.tree) \union {y}
    <3> HIDE DEF p, u
    <3>1. /\ Sound(w.tree) /\ p \in Path /\ Live(w.tree, p)
          /\ w.tree[p].kind = "parallel"
          /\ w.tree[p].next <= Len(w.tree[p].parts)
          /\ Append(p, w.tree[p].next) = y /\ Append(p, w.tree[p].next) \in Path
      BY <2>1, <2>2, <2>3
    <3>2. OpenSet(u) = OpenSet(w.tree) \union {Append(p, w.tree[p].next)}
      BY <3>1, IndexedTree DEF u
    <3> QED BY <3>1, <3>2
  <2> HIDE DEF u
  <2>6. m.tree = u
    BY <1>5 DEF u
  <2>7. ASSUME NEW b \in Accountants PROVE OpenMatches(m, b)
    <3>1. CASE b = y
      <4>1. Matches(w.acct[y], nd.parts[i + 1].in, nd.parts[i + 1].dIn)
        <5>1. PartsMatch(w, a)
          BY <1>1 DEF Tallied
        <5> QED BY <1>5, <5>1 DEF PartsMatch
      <4>2. Matches(m.acct[y], u[y].type, u[y].dIn)
        BY <1>2, <2>4, <4>1, MatchesSame
      <4>3. m.acct[y].budget = u[y].remaining
        BY <1>2, <2>1, <2>4 DEF SameNotes
      <4> QED BY <2>6, <3>1, <4>2, <4>3 DEF OpenMatches
    <3>2. CASE b # y
      <4>1. b \in Path \ {p, y}
        BY <2>1, <3>2 DEF Accountants
      <4>2. SameView(w.tree[b], m.tree[b])
        BY <2>4, <2>6, <4>1
      <4>3. CASE IsOpen(w.tree, b)
        BY <1>2, <4>2, <4>3, KeptOpen
      <4>4. CASE ~ IsOpen(w.tree, b)
        <5>1. ~ IsOpen(m.tree, b)
          BY <2>5, <2>6, <4>1, <4>4 DEF OpenSet
        <5> QED BY <5>1 DEF OpenMatches
      <4> QED BY <4>3, <4>4
    <3> QED BY <3>1, <3>2
  <2>8. ASSUME NEW b \in Accountants, Waits(m, b) PROVE PartsMatch(m, b)
    <3>1. Waits(w, b)
      BY <1>3, <2>8 DEF Keeps
    <3>2. ParallelOf(w, b) \in Path /\ ParallelOf(w, b) # y
      BY <1>2, <3>1, ParallelPlace
    <3>3. m.tree[ParallelOf(w, b)].parts = w.tree[ParallelOf(w, b)].parts
      BY <2>4, <2>6, <3>2 DEF SameView
    <3> QED BY <1>3, <2>8, <3>3, KeptOfParts
  <2> QED BY <2>7, <2>8 DEF Tallied
<1> QED BY <1>2, <1>4, <1>5

(* What is queued on who has its turn is executed.                         *)
LEMMA ExecutedPrompt ==
  ASSUME NEW w, Family(w), w.ok, Tallied(w), NEW a \in Accountants, InUse(w, a),
         \A b \in Accountants :
           b # a /\ w.acct[b].state = "ACTIVE" => w.acct[b].pending = None
  PROVE  LET v == ExecutePending(w, a) IN v.ok /\ Agreed(v)
<1> DEFINE v == ExecutePending(w, a)
<1>1. v.ok /\ Tallied(v) /\ v.acct[a].pending = None
  BY ExecutedAgrees
<1>2. \A b \in Accountants : b # a => v.acct[b] = w.acct[b]
  BY ExecutedPending
<1> HIDE DEF v
<1>3. Prompt(v)
  BY <1>1, <1>2 DEF Prompt
<1> QED BY <1>1, <1>3 DEF Agreed, v

(* An ACTIVE accountant can retire, and all agree with their queryables    *)
(* afterwards.                                                             *)
LEMMA RetirementAgrees ==
  ASSUME NEW w, Family(w), w.ok, Agreed(w), NEW x \in Accountants,
         w.acct[x].state = "ACTIVE"
  PROVE  LET v == Retirement(w, x) IN v.ok /\ Agreed(v)
<1> DEFINE v == Retirement(w, x)
<1>1. CASE x = Root
  <2>1. v = [w EXCEPT !.acct[Root].state = "RETIRED"]
    BY <1>1 DEF Retirement
  <2>2. "RETIRED" \in States /\ IsWorld(w) /\ Root \in Accountants
    BY RootIsAccountant DEF States, Family
  <2>3. InState(w, v, Root, "RETIRED")
    BY <2>1, <2>2, StateSet, Zenon
  <2> HIDE DEF v
  <2>4. Keeps(w, v)
    BY <2>3, NotesOfSame DEF InState, Restated, Keeps, Waits
  <2>5. Tallied(v)
    BY <2>3, <2>4, KeptTally DEF Agreed, InState
  <2>6. Prompt(v)
    BY <2>3 DEF Agreed, Prompt, InState
  <2>7. v.ok
    BY <2>3 DEF InState
  <2> QED BY <2>5, <2>6, <2>7 DEF Agreed, v
<1>2. CASE x # Root
  <2>1. PICK m, y : HandsOn(w, m, x, y) /\ v = ExecutePending(m, y)
    BY <1>2, HandedOn
  <2>2. /\ Family(m) /\ m.ok /\ y \in Accountants /\ InUse(m, y)
        /\ m.acct[x].state = "RETIRED"
        /\ \A b \in Accountants : b \notin {x, y} => m.acct[b] = w.acct[b]
    BY <2>1 DEF HandsOn, InUse
  <2>3. Tallied(m)
    BY <1>2, <2>1, HandedTally DEF Agreed
  <2>4. \A b \in Accountants :
          b # y /\ m.acct[b].state = "ACTIVE" => m.acct[b].pending = None
    BY <2>2 DEF Agreed, Prompt
  <2> QED BY <2>1, <2>2, <2>3, <2>4, ExecutedPrompt
<1> QED BY <1>1, <1>2

-----------------------------------------------------------------------------
(* force_activate and retire *)

(* The first child of a split is never the one to wait for a sibling.      *)
LEMMA FirstNeverWaits ==
  ASSUME NEW w, Family(w), NEW a \in Accountants,
         w.acct[a].state = "WAITING_FOR_SIBLING"
  PROVE  IndexInParent(a) # 1
<1> DEFINE p == Parent(a)
           i == IndexInParent(a)
<1>1. a # Root
  BY DEF Family, RootStarted
<1>2. /\ i \in 1 .. w.acct[p].size /\ a = Child(w, p, i) /\ i \in Nat
      /\ \E k \in 1 .. w.acct[p].size : InTurn(w, p, k)
  BY <1>1, ChildOfWaiting DEF Present
<1>3. PICK k \in 1 .. w.acct[p].size : InTurn(w, p, k)
  BY <1>2
<1> HIDE DEF p, i
<1>4. k # i /\ ~ i < k
  BY <1>2, <1>3 DEF InTurn, InUse
<1>5. i # 1
  BY <1>2, <1>3, <1>4
<1> QED BY <1>5 DEF i

AgreesFrom(w, v, a) == RetiredFrom(w, v, a) /\ v.ok /\ Agreed(v)

LEMMA ActivatedAgrees ==
  ASSUME NEW w, Family(w), w.ok, Agreed(w), NEW a \in Existing(w),
         w.acct[a].state # "RETIRED", NEW g,
         Follows(w, a) => AgreesFrom(w, g[Before(w, a)], Before(w, a))
  PROVE  LET v == Activated(w, a, g) IN v.ok /\ Agreed(v)
<1> DEFINE v == Activated(w, a, g)
           u == g[Before(w, a)]
<1>0. a \in Accountants
  BY DEF Existing
<1>1. w.acct[a].state \in States \ {"none", "RETIRED"}
  BY WorldType DEF Family, Existing, Accountant, States
<1>2. CASE w.acct[a].state = "ACTIVE"
  <2>1. v = w
    BY <1>2 DEF Activated
  <2> QED BY <2>1
<1>3. CASE Follows(w, a)
  <2>1. v = ExecutePending(u, a)
    BY <1>3 DEF Activated, Follows, Before, Waits
  <2>2. u.ok /\ Agreed(u) /\ Family(u) /\ u.acct[a].state = "ACTIVE"
    BY <1>3, TurnComes DEF AgreesFrom, RetiredFrom
  <2> HIDE DEF u, v
  <2>3. v.ok /\ Agreed(v)
    BY <1>0, <2>1, <2>2, ExecutedPrompt DEF Agreed, Prompt, InUse
  <2> QED BY <2>3 DEF v
<1>4. Follows(w, a) \/ w.acct[a].state = "ACTIVE"
  BY <1>0, <1>1, FirstNeverWaits DEF Follows, Waits, States
<1> QED BY <1>2, <1>3, <1>4

LEMMA RetirementAgreesFrom ==
  ASSUME NEW w, Family(w), NEW a \in Existing(w), w.acct[a].state # "RETIRED",
         NEW u, Family(u), Moved(w, u), u.ok, Agreed(u),
         u.acct[a].state = "ACTIVE"
  PROVE  AgreesFrom(w, Retirement(u, a), a)
<1>1. RetiredFrom(w, Retirement(u, a), a)
  BY RetirementOf
<1>2. Retirement(u, a).ok /\ Agreed(Retirement(u, a))
  BY RetirementAgrees DEF Existing
<1> QED BY <1>1, <1>2 DEF AgreesFrom

LEMMA ForcedAgrees ==
  ASSUME NEW w, Family(w), w.ok, Agreed(w)
  PROVE  \A a \in Existing(w) : AgreesFrom(w, ForcedRetirements(w)[a], a)
<1> DEFINE E == Existing(w)
           g == ForcedRetirements(w)
           N == {n \in Nat : \A a \in E : Rank(a) < n => AgreesFrom(w, g[a], a)}
<1>1. \A a \in E : /\ a \in Accountants /\ Rank(a) \in Nat
                   /\ g[a] = ForcedStep(w, g, a)
  BY RankType, ForcedDefined DEF Existing
<1> HIDE DEF g
<1>2. 0 \in N
  BY <1>1
<1>3. ASSUME NEW n \in Nat, n \in N
      PROVE  n + 1 \in N
  <2> SUFFICES ASSUME NEW a \in E, Rank(a) < n + 1
               PROVE  AgreesFrom(w, g[a], a)
    OBVIOUS
  <2>1. CASE w.acct[a].state = "RETIRED"
    <3>1. g[a] = w
      BY <1>1, <2>1 DEF ForcedStep
    <3> QED BY <2>1, <3>1 DEF AgreesFrom, RetiredFrom, Moved
  <2>2. CASE w.acct[a].state # "RETIRED"
    <3>1. ASSUME Follows(w, a)
          PROVE  AgreesFrom(w, g[Before(w, a)], Before(w, a))
      <4>1. Before(w, a) \in E /\ Rank(Before(w, a)) < Rank(a)
        BY <1>1, <3>1, BeforeIsLess
      <4>2. Rank(Before(w, a)) < n
        BY <1>1, <4>1
      <4> QED BY <1>3, <4>1, <4>2
    <3> DEFINE u == Activated(w, a, g)
    <3>2. u.ok /\ Agreed(u)
      BY <2>2, <3>1, ActivatedAgrees
    <3>3. /\ Family(u) /\ Moved(w, u)
          /\ u.ok => u.acct[a].state = "ACTIVE"
      BY <3>1, ActivatedEffect DEF AgreesFrom
    <3>4. g[a] = Retirement(u, a)
      BY <1>1, <2>2 DEF ForcedStep
    <3> HIDE DEF u
    <3> QED BY <2>2, <3>2, <3>3, <3>4, RetirementAgreesFrom
  <2> QED BY <2>1, <2>2
<1>4. ASSUME NEW a \in E
      PROVE  AgreesFrom(w, g[a], a)
  <2>1. Rank(a) + 1 \in Nat /\ Rank(a) < Rank(a) + 1
    BY <1>1
  <2>2. Rank(a) + 1 \in N
    <3> HIDE DEF N
    <3> QED BY <1>2, <1>3, <2>1, Induction
  <2> QED BY <2>1, <2>2
<1> QED BY <1>4 DEF g

LEMMA RaisedAgrees ==
  ASSUME NEW w, Family(w), Agreed(w)
  PROVE  Agreed(Raised(w))
<1>1. Raised(w).acct = w.acct /\ Raised(w).tree = w.tree
  BY RaisedFamily
<1>2. Keeps(w, Raised(w))
  BY <1>1, NotesOfSame DEF Keeps, Waits
<1> QED BY <1>1, <1>2, KeptTally DEF Agreed, Prompt

LEMMA ForceActivateAgrees ==
  ASSUME NEW w, Family(w), w.ok, Agreed(w), NEW a \in Existing(w)
  PROVE  LET v == ForceActivate(w, a)
         IN  Agreed(v) /\ (w.acct[a].state # "RETIRED" => v.ok)
<1>1. CASE w.acct[a].state = "RETIRED"
  <2>1. ForceActivate(w, a) = Raised(w)
    BY <1>1 DEF ForceActivate, Activated
  <2> QED BY <1>1, <2>1, RaisedAgrees
<1>2. CASE w.acct[a].state # "RETIRED"
  <2>1. Follows(w, a) =>
          AgreesFrom(w, ForcedRetirements(w)[Before(w, a)], Before(w, a))
    BY BeforeIsLess, ForcedAgrees DEF Existing
  <2> QED BY <1>2, <2>1, ActivatedAgrees DEF ForceActivate
<1> QED BY <1>1, <1>2

LEMMA RetireAgrees ==
  ASSUME NEW w, Family(w), w.ok, Agreed(w), NEW a \in Existing(w),
         NEW force \in BOOLEAN
  PROVE  LET v == Retire(w, a, force) IN Agreed(v) /\ (force => v.ok)
<1> DEFINE v == Retire(w, a, force)
<1>1. CASE w.acct[a].state = "RETIRED"
  <2>1. v = w
    BY <1>1 DEF Retire
  <2> QED BY <2>1
<1>2. CASE Waits(w, a) /\ ~ force
  <2>1. v = Raised(w)
    BY <1>2 DEF Retire, Waits
  <2> QED BY <1>2, <2>1, RaisedAgrees
<1>3. CASE w.acct[a].state # "RETIRED" /\ ~ (Waits(w, a) /\ ~ force)
  <2> DEFINE u == ForceActivate(w, a)
  <2>1. v = Retirement(u, a)
    BY <1>3 DEF Retire, Waits
  <2>2. /\ Family(u) /\ Moved(w, u)
        /\ u.ok => u.acct[a].state = "ACTIVE"
    BY ForceActivateEffect
  <2>3. u.ok /\ Agreed(u)
    BY <1>3, ForceActivateAgrees
  <2> HIDE DEF u
  <2> QED BY <1>3, <2>1, <2>2, <2>3, RetirementAgreesFrom DEF AgreesFrom
<1> QED BY <1>1, <1>2, <1>3

-----------------------------------------------------------------------------
(* transform_in_place and queue_transformation *)

(* One accountant, and its queryable, have something new to show.          *)
LEMMA OneTold ==
  ASSUME NEW w, Family(w), Tallied(w), NEW a \in Accountants,
         NEW v, NotedOnly(w, v, a),
         \A x \in Path \ {a} : SameView(w.tree[x], v.tree[x]),
         OpenSet(v.tree) = OpenSet(w.tree), OpenMatches(v, a),
         w.acct[a].state = "WAITING_FOR_SIBLING" =>
           \A b \in Accountants : \A i \in 1 .. w.acct[b].size :
             LET part == w.tree[ParallelOf(w, b)].parts[i]
             IN  Waits(w, b) /\ a = Child(w, b, i) =>
                   Matches(v.acct[a], part.in, part.dIn)
  PROVE  Tallied(v)
<1>1. Restated(w, v, {}) /\ \A b \in Accountants : b # a => v.acct[b] = w.acct[b]
  BY DEF NotedOnly
<1>2. ASSUME NEW b \in Accountants PROVE OpenMatches(v, b)
  <2>1. CASE b = a
    BY <2>1
  <2>2. CASE b # a
    <3>1. b \in Path \ {a}
      BY <2>2 DEF Accountants
    <3>2. SameNotes(w.acct[b], v.acct[b]) /\ SameView(w.tree[b], v.tree[b])
      BY <1>1, <2>2, <3>1, NotesOfSame
    <3>3. CASE IsOpen(w.tree, b)
      BY <3>2, <3>3, KeptOpen
    <3>4. CASE ~ IsOpen(w.tree, b)
      <4>1. ~ IsOpen(v.tree, b)
        BY <3>1, <3>4 DEF OpenSet
      <4> QED BY <4>1 DEF OpenMatches
    <3> QED BY <3>3, <3>4
  <2> QED BY <2>1, <2>2
<1>3. ASSUME NEW b \in Accountants, Waits(v, b) PROVE PartsMatch(v, b)
  <2> DEFINE p == ParallelOf(w, b)
  <2>1. Waits(w, b) /\ v.acct[b].pq = w.acct[b].pq /\ v.acct[b].size = w.acct[b].size
    BY <1>1, <1>3 DEF Restated, Waits
  <2>2. ParallelOf(v, b) = p /\ \A i : Child(v, b, i) = Child(w, b, i)
    BY <2>1 DEF ParallelOf, Child
  <2>3. p \in Path \ {a}
    BY <2>1, ParallelPlace
  <2>4. v.tree[p].parts = w.tree[p].parts
    BY <2>3 DEF SameView
  <2>5. PartsMatch(w, b)
    BY <2>1 DEF Tallied
  <2> SUFFICES ASSUME NEW i \in 1 .. w.acct[b].size,
                      v.acct[Child(w, b, i)].state = "WAITING_FOR_SIBLING"
               PROVE  LET part == w.tree[p].parts[i]
                      IN  Matches(v.acct[Child(w, b, i)], part.in, part.dIn)
    BY <2>1, <2>2, <2>4 DEF PartsMatch
  <2> HIDE DEF p
  <2>6. Child(w, b, i) \in Accountants
    BY ChildPlace
  <2>7. w.acct[Child(w, b, i)].state = "WAITING_FOR_SIBLING"
    BY <1>1, <2>6 DEF Restated
  <2>8. CASE Child(w, b, i) = a
    BY <2>1, <2>7, <2>8 DEF p
  <2>9. CASE Child(w, b, i) # a
    <3>1. v.acct[Child(w, b, i)] = w.acct[Child(w, b, i)]
      BY <1>1, <2>6, <2>9
    <3> QED BY <2>5, <2>7, <3>1 DEF PartsMatch, p
  <2> QED BY <2>8, <2>9
<1> QED BY <1>2, <1>3 DEF Tallied

LEMMA TransformAgrees ==
  ASSUME StabilityFunctions, NEW w, Family(w), w.ok, Agreed(w),
         NEW a \in Accountants, NEW t \in Transformations, NEW hint \in DistHints,
         NEW v, v = TransformInPlace(w, a, t, hint)
  PROVE  Agreed(v)
<1> DEFINE me == w.acct[a]
           refused == \/ me.state # "ACTIVE" \/ ~ HasQueryable(w, a)
                      \/ t.in # me.type
                      \/ hint # None /\ ~ t.stab[me.dIn] <= hint
           u == Transformed(w.tree, a, t, hint)
           held == Stabilities(w.tree[a].dIn, t, hint)
           asked == SubmitTransformation(w, a, t, hint)
           known == Stabilities(me.dIn, t, hint)
           typed == [asked EXCEPT !.acct[a].type = t.out]
           d == CHOOSE e \in known : TRUE
           moved == [typed EXCEPT !.acct[a].dIn = d]
<1>1. /\ t \in Transformation /\ Monotone(t) /\ t.out \in Types /\ t.fn
      /\ hint \in Dist \union {None}
  <2>1. t \in Transformation /\ Monotone(t)
    BY TransformationsAssumption
  <2> QED BY <2>1, HintsAssumption DEF Transformation, StabilityFunctions
<1>2. v = IF refused THEN Raised(w)
          ELSE IF ~ asked.ok THEN asked
          ELSE IF known = {} THEN Raised(typed) ELSE moved
  BY DEF TransformInPlace
<1>3. CASE refused
  <2>1. v = Raised(w)
    BY <1>2, <1>3
  <2> QED BY <2>1, RaisedAgrees
<1>4. CASE ~ refused
  <2>1. /\ me.state = "ACTIVE" /\ InUse(w, a) /\ IsOpen(w.tree, a)
        /\ t.in = me.type /\ me.pending = None
    BY <1>4 DEF HasQueryable, Agreed, Prompt, InUse
  <2>2. me.type = w.tree[a].type /\ (NoDistances => me.dIn = w.tree[a].dIn)
    BY <2>1 DEF Agreed, Tallied, OpenMatches, Matches
  <2>3. /\ Live(w.tree, a) /\ w.tree[a].kind = "sequential" /\ a \in Path
        /\ w.tree \in [Path -> Node] /\ Sound(w.tree)
        /\ IsWorld(w) /\ me \in Accountant /\ me.dIn \in Dist
    BY <2>1, WorldType DEF Family, Usable, Accountants
  <2>4. w.tree[a].dIn \in Dist
    BY <2>3 DEF Node
  <2>5. asked = [w EXCEPT !.tree = u, !.ok = held # {}]
    BY <2>1, <2>2, <2>3 DEF SubmitTransformation, IsWorld
  <2>6. Family(asked) /\ asked.acct = w.acct
    BY <1>1, <2>1, SubmittedTransformation
  <2>7. /\ \A x \in Path \ {a} : u[x] = w.tree[x]
        /\ held = {} => SameView(w.tree[a], u[a])
        /\ held # {} => /\ u[a].type = t.out /\ u[a].dIn \in held
                        /\ u[a].remaining = w.tree[a].remaining
    BY <1>1, <2>3, TransformedViews
  <2>8. OpenSet(u) = OpenSet(w.tree)
    BY <1>1, <2>3, TransformedTree
  <2>9. NoDistances => known = {t.stab[me.dIn]} /\ held = known
    BY <1>1, <2>2 DEF NoDistances, Stabilities
  <2>10. \A e \in known : e \in Dist
    BY <1>1, <2>3, KnownDistance
  <2>11. NotedOnly(w, v, a)
    BY <1>1, TransformFamily
  <2> HIDE DEF u, held, known, asked, d
  <2>12. /\ asked.ok = (held # {}) /\ asked.tree = u /\ IsWorld(asked)
    BY <2>5, <2>6 DEF Family, IsWorld
  <2>13. v = IF ~ asked.ok THEN asked
             ELSE IF known = {} THEN Raised(typed) ELSE moved
    BY <1>2, <1>4
  <2> HIDE DEF refused
  <2>14. NotedWith(asked, typed, a, t.out, me.dIn, None)
    <3>1. typed = [asked EXCEPT !.acct[a].type = t.out]
      OBVIOUS
    <3> HIDE DEF typed
    <3>2. NotedWith(asked, typed, a, t.out, asked.acct[a].dIn, asked.acct[a].pending)
      BY <1>1, <2>12, <3>1, TypeNotes, Zenon
    <3> QED BY <2>1, <2>6, <3>2
  <2> HIDE DEF typed
  <2>15. ASSUME known # {}
         PROVE  d \in known /\ NotedWith(typed, moved, a, t.out, d, None)
    <3>1. d \in known /\ d \in Dist
      BY <2>10, <2>15 DEF d
    <3>2. moved = [typed EXCEPT !.acct[a].dIn = d]
      OBVIOUS
    <3>3. IsWorld(typed)
      BY <2>14 DEF NotedWith
    <3> HIDE DEF moved
    <3>4. NotedWith(typed, moved, a, typed.acct[a].type, d, typed.acct[a].pending)
      BY <3>1, <3>2, <3>3, DistanceNotes, Zenon
    <3> QED BY <2>14, <3>1, <3>4 DEF NotedWith
  <2> HIDE DEF moved
  <2>16. v.tree = u
    <3>1. CASE asked.ok /\ known # {}
      BY <2>12, <2>13, <2>14, <2>15, <3>1 DEF NotedWith
    <3>2. CASE ~ asked.ok
      BY <2>12, <2>13, <3>2
    <3>3. CASE asked.ok /\ known = {}
      BY <2>12, <2>13, <2>14, <3>3 DEF NotedWith, Raised, IsWorld
    <3> QED BY <3>1, <3>2, <3>3
  <2>17. OpenMatches(v, a) /\ v.acct[a].pending = None
    <3>1. CASE ~ asked.ok
      <4>1. v.acct[a] = me /\ SameView(w.tree[a], v.tree[a])
        BY <2>6, <2>7, <2>12, <2>13, <2>16, <3>1
      <4> QED BY <2>1, <4>1, KeptOpen, NotesOfSame DEF Agreed
    <3>2. CASE asked.ok
      <4>1. /\ v.acct[a].type = t.out /\ v.acct[a].pending = None
            /\ v.acct[a].budget = me.budget
            /\ NoDistances => v.acct[a].dIn = t.stab[me.dIn]
        <5>1. CASE known = {}
          <6>1. v.acct = typed.acct
            BY <2>13, <2>14, <3>2, <5>1 DEF Raised, NotedWith, IsWorld
          <6> QED BY <2>6, <2>9, <2>14, <5>1, <6>1 DEF NotedWith
        <5>2. CASE known # {}
          <6>1. v = moved
            BY <2>13, <3>2, <5>2
          <6> QED BY <2>6, <2>9, <2>14, <2>15, <5>2, <6>1 DEF NotedWith
        <5> QED BY <5>1, <5>2
      <4>2. /\ u[a].type = t.out /\ u[a].dIn \in held
            /\ u[a].remaining = w.tree[a].remaining
        BY <2>7, <2>12, <3>2
      <4>3. NoDistances => u[a].dIn = t.stab[me.dIn]
        BY <2>9, <4>2
      <4>4. NoDistances => me.budget = w.tree[a].remaining
        BY <2>1 DEF Agreed, Tallied, OpenMatches
      <4> QED BY <2>16, <4>1, <4>2, <4>3, <4>4 DEF OpenMatches, Matches
    <3> QED BY <3>1, <3>2
  <2>18. Tallied(v)
    <3>1. \A x \in Path \ {a} : SameView(w.tree[x], v.tree[x])
      BY <2>7, <2>16, NotesOfSame
    <3>2. OpenSet(v.tree) = OpenSet(w.tree) /\ w.acct[a].state # "WAITING_FOR_SIBLING"
      BY <2>1, <2>8, <2>16
    <3> QED BY <2>11, <2>17, <3>1, <3>2, OneTold DEF Agreed
  <2>19. Prompt(v)
    BY <2>11, <2>17 DEF NotedOnly, Prompt, Agreed
  <2> QED BY <2>18, <2>19 DEF Agreed
<1> QED BY <1>3, <1>4

(* What stands for the queued transformations of r, nothing queued being   *)
(* the identity.                                                           *)
QueuedOn(r) == IF r.pending = None THEN <<>> ELSE r.pending

LEMMA MatchingChain ==
  ASSUME NEW r \in Accountant, NEW type \in Types, NEW d \in Dist,
         Matches(r, type, d)
  PROVE  LET chain == Chained(r.type, QueuedOn(r))
         IN  /\ chain.in = type /\ chain.out = r.type /\ chain.fn
             /\ NoDistances => chain.stab[d] = r.dIn
<1>1. r.type \in Types
  BY DEF Accountant
<1>2. CASE r.pending = None
  <2>1. QueuedOn(r) = <<>> /\ r.type = type /\ (NoDistances => r.dIn = d)
    BY <1>2 DEF QueuedOn, Matches
  <2>2. Chained(r.type, <<>>) = Identity(r.type)
    BY <1>1, ChainedNone
  <2>3. /\ Identity(r.type).in = r.type /\ Identity(r.type).out = r.type
        /\ Identity(r.type).fn /\ Identity(r.type).stab[d] = d
    BY DEF Identity
  <2> QED BY <2>1, <2>2, <2>3
<1>3. CASE r.pending # None
  BY <1>3 DEF QueuedOn, Matches
<1> QED BY <1>2, <1>3

(* new shows no less than r of what is queued: what agrees with r agrees   *)
(* with new.                                                               *)
Retold(r, new) ==
  \A type \in Types, d \in Dist : Matches(r, type, d) => Matches(new, type, d)

LEMMA StartedRetold ==
  ASSUME NEW r \in Accountant, NEW new, new.type = r.type, new.dIn = r.dIn,
         new.pending = QueuedOn(r)
  PROVE  Retold(r, new)
<1> SUFFICES ASSUME NEW type \in Types, NEW d \in Dist, Matches(r, type, d)
             PROVE  Matches(new, type, d)
  BY DEF Retold
<1>1. LET chain == Chained(r.type, QueuedOn(r))
      IN  /\ chain.in = type /\ chain.out = r.type /\ chain.fn
          /\ NoDistances => chain.stab[d] = r.dIn
  BY MatchingChain
<1>2. QueuedOn(r) \in Seq(Queued)
  BY DEF QueuedOn, Accountant
<1> QED BY <1>1, <1>2, NoneAssumption DEF Matches

(* One more is queued on r.                                                *)
LEMMA AppendedRetold ==
  ASSUME NEW r \in Accountant, NEW q \in Queued, q.t.fn,
         QueuedOn(r) = <<>> => q.t.in = r.type,
         NEW new, new.type = q.t.out, new.pending = Append(QueuedOn(r), q),
         NoDistances => new.dIn = q.t.stab[r.dIn]
  PROVE  Retold(r, new)
<1> SUFFICES ASSUME NEW type \in Types, NEW d \in Dist, Matches(r, type, d)
             PROVE  Matches(new, type, d)
  BY DEF Retold
<1> DEFINE before == QueuedOn(r)
           chain == Chained(r.type, before)
           longer == Chained(new.type, Append(before, q))
<1>1. /\ chain.in = type /\ chain.out = r.type /\ chain.fn
      /\ NoDistances => chain.stab[d] = r.dIn
  BY MatchingChain
<1>2. before \in Seq(Queued) /\ r.type \in Types
  BY DEF QueuedOn, Accountant
<1>3. q.t.out \in Types
  BY TransformationsAssumption DEF Queued, Transformation
<1> HIDE DEF before
<1>4. longer = Then(chain, q.t)
  BY <1>2, <1>3, ChainedOneMore DEF before
<1>5. Append(before, q) # None
  BY <1>2, NoneAssumption
<1> HIDE DEF chain, longer
<1>6. /\ longer.in = chain.in /\ longer.out = q.t.out
      /\ longer.fn = (chain.fn /\ q.t.fn)
      /\ longer.stab[d] = q.t.stab[chain.stab[d]]
  BY <1>4 DEF Then
<1>7. /\ longer.in = type /\ longer.out = new.type /\ longer.fn
      /\ NoDistances => longer.stab[d] = new.dIn
  BY <1>1, <1>6
<1> QED BY <1>5, <1>7 DEF Matches, longer, before

LEMMA RetoldTally ==
  ASSUME NEW w, Family(w), Tallied(w), NEW a \in Accountants,
         NEW v, NotedOnly(w, v, a), v.tree = w.tree,
         Retold(w.acct[a], v.acct[a])
  PROVE  Tallied(v)
<1>1. \A x \in Path : w.tree[x] \in Node
  BY WorldType DEF Family
<1>2. OpenMatches(v, a)
  <2> SUFFICES ASSUME IsOpen(w.tree, a)
               PROVE  /\ Matches(v.acct[a], w.tree[a].type, w.tree[a].dIn)
                      /\ NoDistances => v.acct[a].budget = w.tree[a].remaining
    BY DEF OpenMatches
  <2>1. w.tree[a].type \in Types /\ w.tree[a].dIn \in Dist
    BY <1>1 DEF Node, Accountants
  <2>2. /\ Matches(w.acct[a], w.tree[a].type, w.tree[a].dIn)
        /\ NoDistances => w.acct[a].budget = w.tree[a].remaining
    BY DEF Tallied, OpenMatches
  <2>3. v.acct[a].budget = w.acct[a].budget
    BY DEF NotedOnly, Restated
  <2> QED BY <2>1, <2>2, <2>3 DEF Retold
<1>3. ASSUME NEW b \in Accountants, NEW i \in 1 .. w.acct[b].size,
             Waits(w, b), a = Child(w, b, i),
             w.acct[a].state = "WAITING_FOR_SIBLING"
      PROVE  LET part == w.tree[ParallelOf(w, b)].parts[i]
             IN  Matches(v.acct[a], part.in, part.dIn)
  <2> DEFINE nd == w.tree[ParallelOf(w, b)]
             part == nd.parts[i]
  <2>1. Len(nd.parts) = w.acct[b].size /\ part.kind = "sequential" /\ nd \in Node
    BY <1>1, <1>3 DEF Family, Usable, AnswersParts
  <2>2. part \in SequentialMeasurement
    <3> HIDE DEF nd
    <3>1. nd.parts \in Seq(AnswerMeasurement \union SequentialMeasurement)
      BY <2>1 DEF Node
    <3>2. part \in AnswerMeasurement \union SequentialMeasurement
      BY <2>1, <3>1
    <3> HIDE DEF part
    <3> QED BY <2>1, <3>2 DEF AnswerMeasurement
  <2> HIDE DEF nd
  <2>3. part.in \in Types /\ part.dIn \in Dist
    <3> HIDE DEF part
    <3> QED BY <2>2 DEF SequentialMeasurement
  <2>4. PartsMatch(w, b)
    BY <1>3 DEF Tallied
  <2>5. Matches(w.acct[a], part.in, part.dIn)
    BY <1>3, <2>4 DEF PartsMatch, nd
  <2> QED BY <2>3, <2>5 DEF Retold, nd
<1>4. \A x : SameView(w.tree[x], v.tree[x])
  BY NotesOfSame
<1> QED BY <1>2, <1>3, <1>4, OneTold

LEMMA QueueAgrees ==
  ASSUME StabilityFunctions, NEW w, Family(w), w.ok, Agreed(w),
         NEW a \in Accountants, NEW t \in Transformations, NEW hint \in DistHints,
         NEW v, v = QueueTransformation(w, a, t, hint)
  PROVE  Agreed(v)
<1> DEFINE me == w.acct[a]
           before == QueuedOn(me)
           out == IF before = <<>> THEN me.type ELSE before[Len(before)].t.out
           q == [t |-> t, hint |-> hint]
           after == Append(before, q)
           started == [w EXCEPT !.acct[a].pending = before]
           queued == [w EXCEPT !.acct[a].pending = after]
           refused == hint # None /\ ChainRelation(after, me.dIn, hint) # {FALSE}
           ds == IF hint \in {None, 0}
                 THEN IF t.fn THEN {t.stab[me.dIn]} ELSE {}
                 ELSE {hint}
           d == CHOOSE e \in ds : TRUE
           far == [queued EXCEPT !.acct[a].dIn = d]
           done == [far EXCEPT !.acct[a].type = t.out]
<1>1. /\ t \in Transformation /\ t.out \in Types /\ t.fn
      /\ hint \in Dist \union {None}
  <2>1. t \in Transformation
    BY TransformationsAssumption
  <2> QED BY <2>1, HintsAssumption DEF Transformation, StabilityFunctions
<1>2. /\ IsWorld(w) /\ me \in Accountant /\ me.dIn \in Dist /\ me.type \in Types
  BY WorldType DEF Family
<1>3. /\ before \in Seq(Queued) /\ after \in Seq(Queued) /\ q \in Queued
      /\ q.t = t
  <2>1. before \in Seq(Queued)
    BY <1>2 DEF Accountant, QueuedOn
  <2>2. q \in Queued
    BY <1>1 DEF Queued
  <2> HIDE DEF before, q
  <2>3. after \in Seq(Queued)
    BY <2>1, <2>2
  <2>4. q.t = t
    BY DEF q
  <2> QED BY <2>1, <2>2, <2>3, <2>4
<1>4. /\ t.stab[me.dIn] \in Dist /\ ds # {} /\ d \in ds
      /\ \A e \in ds : e \in Dist
      /\ NoDistances => d = t.stab[me.dIn]
  <2>1. t.stab[me.dIn] \in Dist
    BY <1>1, <1>2, KnownDistance
  <2>2. ds # {} /\ \A e \in ds : e \in Dist
    BY <1>1, <2>1
  <2>3. NoDistances => ds = {t.stab[me.dIn]}
    BY <1>1 DEF NoDistances
  <2>4. d \in ds
    BY <2>2
  <2> HIDE DEF ds, d
  <2> QED BY <2>1, <2>2, <2>3, <2>4
<1>5. [queued EXCEPT !.acct[a].dIn = CHOOSE e \in ds : TRUE,
                     !.acct[a].type = t.out] = done
  OBVIOUS
<1>6. NotedOnly(w, v, a)
  BY <1>1, QueueFamily
<1>7. CASE me.state = "RETIRED"
  <2>1. v = Raised(w)
    BY <1>7 DEF QueueTransformation
  <2> QED BY <2>1, RaisedAgrees
<1>8. CASE me.state = "ACTIVE"
  <2>1. v = TransformInPlace(w, a, t, hint)
    BY <1>8 DEF QueueTransformation
  <2> QED BY <2>1, TransformAgrees
<1>9. CASE me.state \notin {"RETIRED", "ACTIVE"}
  <2>1. v = IF t.in # out \/ refused THEN Raised(started)
            ELSE IF ds = {} THEN Raised(queued) ELSE done
    BY <1>5, <1>9 DEF QueueTransformation, QueuedOn
  <2>2. /\ started = [w EXCEPT !.acct[a].pending = before]
        /\ queued = [w EXCEPT !.acct[a].pending = after]
        /\ far = [queued EXCEPT !.acct[a].dIn = d]
        /\ done = [far EXCEPT !.acct[a].type = t.out]
    OBVIOUS
  <2>3. t.in = out /\ before = <<>> => t.in = me.type
    OBVIOUS
  <2> HIDE DEF refused, out, ds, d, before, after, started, queued, far, done
  <2>4. /\ NotedWith(w, started, a, me.type, me.dIn, before)
        /\ NotedWith(w, queued, a, me.type, me.dIn, after)
    BY <1>2, <1>3, <2>2, PendingNotes, Zenon
  <2>5. NotedWith(queued, far, a, queued.acct[a].type, d, queued.acct[a].pending)
    <3>1. IsWorld(queued) /\ d \in Dist
      BY <1>4, <2>4 DEF NotedWith
    <3> QED BY <2>2, <3>1, DistanceNotes, Zenon
  <2>6. NotedWith(far, done, a, t.out, far.acct[a].dIn, far.acct[a].pending)
    <3>1. IsWorld(far)
      BY <2>5 DEF NotedWith
    <3> QED BY <1>1, <2>2, <3>1, TypeNotes, Zenon
  <2>7. v.tree = w.tree /\ Retold(me, v.acct[a])
    <3>1. CASE t.in # out \/ refused
      <4>1. v.tree = started.tree /\ v.acct = started.acct
        BY <2>1, <2>4, <3>1 DEF Raised, NotedWith, IsWorld
      <4> QED BY <1>2, <2>4, <4>1, StartedRetold DEF NotedWith, before
    <3>2. CASE ~ (t.in # out \/ refused)
      <4>1. v = done
        BY <1>4, <2>1, <3>2
      <4>2. /\ v.acct[a].type = t.out /\ v.acct[a].dIn = d
            /\ v.acct[a].pending = after /\ v.tree = w.tree
        BY <2>4, <2>5, <2>6, <4>1 DEF NotedWith
      <4> HIDE DEF q
      <4>3. before = <<>> => q.t.in = me.type
        BY <1>3, <2>3, <3>2
      <4>4. Retold(me, v.acct[a])
        BY <1>1, <1>2, <1>3, <1>4, <4>2, <4>3, AppendedRetold DEF before, after
      <4> QED BY <4>2, <4>4
    <3> QED BY <3>1, <3>2
  <2>8. Tallied(v)
    BY <1>6, <2>7, RetoldTally DEF Agreed
  <2>9. v.acct[a].state # "ACTIVE"
    BY <1>6, <1>9 DEF NotedOnly, Restated
  <2>10. Prompt(v)
    BY <1>6, <2>9 DEF NotedOnly, Agreed, Prompt
  <2> QED BY <2>8, <2>10 DEF Agreed
<1> QED BY <1>7, <1>8, <1>9

-----------------------------------------------------------------------------
(* measure and split *)

WithBudget(w, v, a, b) ==
  /\ IsWorld(v) /\ v.tree = w.tree /\ v.ok = w.ok
  /\ v.acct[a].budget = b /\ v.acct[a].type = w.acct[a].type
  /\ v.acct[a].dIn = w.acct[a].dIn /\ v.acct[a].pending = w.acct[a].pending
  /\ \A y \in Accountants : y # a => v.acct[y] = w.acct[y]

LEMMA BudgetNotes ==
  ASSUME NEW w, IsWorld(w), NEW a \in Accountants, NEW b \in Budgets,
         NEW v, v = [w EXCEPT !.acct[a].budget = b]
  PROVE  WithBudget(w, v, a, b)
<1> DEFINE r == [w.acct[a] EXCEPT !.budget = b]
           z == [w EXCEPT !.acct[a] = r]
<1>1. w.acct[a] \in Accountant
  BY WorldType
<1>2. /\ r \in Accountant /\ r.budget = b /\ r.type = w.acct[a].type
      /\ r.dIn = w.acct[a].dIn /\ r.pending = w.acct[a].pending
  BY <1>1 DEF Accountant
<1>3. v = z
  BY DEF IsWorld
<1> HIDE DEF r
<1>4. /\ z.acct[a] = r /\ z.tree = w.tree /\ z.ok = w.ok /\ IsWorld(z)
      /\ \A y \in Accountants : y # a => z.acct[y] = w.acct[y]
  BY <1>2, SetAccount
<1> HIDE DEF z
<1> QED BY <1>2, <1>3, <1>4 DEF WithBudget

(* Who pays, and whose queryable takes the same, still agrees with it.     *)
LEMMA PaidAgrees ==
  ASSUME NEW w, Family(w), Agreed(w),
         NEW a \in Accountants, w.acct[a].state = "ACTIVE",
         Len(a) < MaxDepth, w.tree[a].next <= MaxFan,
         NEW m, WellMade(m), NEW hint \in Budgets \union {None},
         NEW b \in Budgets, CanSpend(w.acct[a].budget, b),
         \A c \in Accepted(w.tree[a], m, hint) : c = b,
         NoDistances => Accepted(w.tree[a], m, hint) # {},
         NEW raises \in BOOLEAN,
         NEW paid, paid = [w EXCEPT !.acct[a].budget = Subtract(@, b)],
         NEW v, v = SubmitMeasurement(paid, a, m, hint, raises)
  PROVE  Agreed(v)
<1> DEFINE tr == w.tree
           left == Subtract(w.acct[a].budget, b)
           n == tr[a].next
           c == Append(a, n)
           costs == Accepted(tr[a], m, hint)
<1>1. /\ IsWorld(w) /\ tr \in [Path -> Node] /\ Sound(tr)
      /\ left \in Budgets /\ a \in Path
  BY WorldType, SubtractType DEF Family, Accountants
<1>2. Live(tr, a) /\ tr[a].kind = "sequential" /\ IsOpen(tr, a)
  BY DEF Family, Usable, InUse, Live
<1>3. c \in Path /\ c \notin Accountants
  <2>1. tr[a] \in Node
    BY <1>1
  <2>2. n \in 1 .. MaxFan
    BY <2>1, FanAssumption DEF Node
  <2> QED BY <1>1, <2>2, AnswerInPath, ChildIsAccountant
<1>4. /\ w.acct[a].pending = None /\ w.acct[a].type = tr[a].type
      /\ NoDistances => /\ w.acct[a].dIn = tr[a].dIn
                        /\ w.acct[a].budget = tr[a].remaining
  <2>1. w.acct[a].pending = None
    BY DEF Agreed, Prompt
  <2> QED BY <1>2, <2>1 DEF Agreed, Tallied, OpenMatches, Matches
<1>5. /\ IsWorld(paid) /\ paid.tree = tr /\ paid.ok = w.ok
      /\ paid.acct[a].budget = left /\ paid.acct[a].type = w.acct[a].type
      /\ paid.acct[a].dIn = w.acct[a].dIn /\ paid.acct[a].pending = None
      /\ \A y \in Accountants : y # a => paid.acct[y] = w.acct[y]
  <2>1. paid = [w EXCEPT !.acct[a].budget = left]
    OBVIOUS
  <2> HIDE DEF left
  <2>2. WithBudget(w, paid, a, left)
    BY <1>1, <2>1, BudgetNotes, Zenon
  <2> QED BY <1>4, <2>2 DEF WithBudget
<1>6. PaidFor(w, v, a)
  BY PaidAndAsked
<1>7. \A y \in Accountants :
        /\ v.acct[y].state = w.acct[y].state
        /\ v.acct[y].pq = w.acct[y].pq /\ v.acct[y].size = w.acct[y].size
  BY <1>6 DEF PaidFor, Carried
<1> HIDE DEF left, costs, tr
<1>8. /\ v.acct = paid.acct
      /\ \A x \in Path \ {a, c} : SameView(tr[x], v.tree[x])
      /\ v.tree[a].type = tr[a].type /\ v.tree[a].dIn = tr[a].dIn
      /\ NoDistances => v.tree[a].remaining = left
      /\ \A x \in Path : IsOpen(v.tree, x) => IsOpen(tr, x) \/ x = c
      /\ ~ IsOpen(tr, c) \/ v.tree = tr
  <2>1. CASE costs = {}
    <3>1. v = Raised(paid)
      BY <1>5, <2>1 DEF SubmitMeasurement, costs, tr
    <3>2. v.acct = paid.acct /\ v.tree = tr
      BY <1>5, <3>1 DEF IsWorld, Raised
    <3>3. ~ NoDistances
      BY <2>1 DEF costs, tr
    <3> QED BY <3>2, <3>3, NotesOfSame
  <2>2. CASE costs # {}
    <3> DEFINE cost == CHOOSE e \in costs : TRUE
               u == Measured(tr, a, m, cost, raises)
    <3>1. cost \in costs /\ cost = b
      BY <2>2 DEF costs, tr
    <3> HIDE DEF cost
    <3>2. v = [paid EXCEPT !.tree = u, !.ok = ~ raises]
      BY <1>2, <1>5, <2>2 DEF SubmitMeasurement, costs, tr, cost
    <3> HIDE DEF u
    <3>3. /\ Sound(tr) /\ a \in Path /\ Live(tr, a) /\ tr[a].kind = "sequential"
          /\ Append(a, tr[a].next) \in Path /\ WellMade(m)
          /\ hint \in Budgets \union {None} /\ cost \in Accepted(tr[a], m, hint)
          /\ raises \in BOOLEAN
      BY <1>1, <1>2, <1>3, <3>1 DEF costs, tr
    <3>4. IsMeasured(tr, a, m, cost, raises, u)
      BY <3>3, MeasuredTree, Zenon DEF u
    <3>5. /\ ~ IsOpen(tr, c)
          /\ \A x \in Path : IsOpen(u, x) => IsOpen(tr, x) \/ x = c
      BY <3>4 DEF IsMeasured, OpenSet
    <3>6. /\ \A x \in Path \ {a, c} : SameView(tr[x], u[x])
          /\ u[a].type = tr[a].type /\ u[a].dIn = tr[a].dIn
          /\ u[a].remaining = Subtract(tr[a].remaining, cost)
      BY <3>3, MeasuredViews DEF u
    <3>7. v.acct = paid.acct /\ v.tree = u
      BY <1>5, <3>2 DEF IsWorld
    <3>8. NoDistances => u[a].remaining = left
      BY <1>4, <3>1, <3>6 DEF left, tr
    <3> QED BY <3>5, <3>6, <3>7, <3>8
  <2> QED BY <2>1, <2>2
<1>9. ASSUME NEW y \in Accountants PROVE OpenMatches(v, y)
  <2>1. CASE y = a
    <3>1. Matches(v.acct[a], v.tree[a].type, v.tree[a].dIn)
      BY <1>4, <1>5, <1>8 DEF Matches, tr
    <3> QED BY <1>5, <1>8, <2>1, <3>1 DEF OpenMatches
  <2>2. CASE y # a
    <3>1. y \in Path \ {a, c}
      BY <1>3, <2>2 DEF Accountants
    <3>2. SameNotes(w.acct[y], v.acct[y]) /\ SameView(w.tree[y], v.tree[y])
      BY <1>5, <1>8, <2>2, <3>1, NotesOfSame DEF tr
    <3>3. CASE IsOpen(w.tree, y)
      BY <3>2, <3>3, KeptOpen DEF Agreed
    <3>4. CASE ~ IsOpen(w.tree, y)
      <4>1. ~ IsOpen(v.tree, y)
        BY <1>8, <3>1, <3>4 DEF tr
      <4> QED BY <4>1 DEF OpenMatches
    <3> QED BY <3>3, <3>4
  <2> QED BY <2>1, <2>2
<1>10. ASSUME NEW y \in Accountants, Waits(v, y) PROVE PartsMatch(v, y)
  <2>1. Waits(w, y)
    BY <1>7, <1>10 DEF Waits
  <2>2. /\ ParallelOf(w, y) \in Path \ {a}
        /\ ParallelOf(w, y) # c \/ v.tree = tr
    BY <1>8, <2>1, ParallelPlace DEF tr
  <2>3. v.tree[ParallelOf(w, y)].parts = w.tree[ParallelOf(w, y)].parts
    BY <1>8, <2>2 DEF SameView, tr
  <2>4. ASSUME NEW i \in 1 .. w.acct[y].size,
               v.acct[Child(w, y, i)].state = "WAITING_FOR_SIBLING"
        PROVE  /\ w.acct[Child(w, y, i)].state = "WAITING_FOR_SIBLING"
               /\ SameNotes(w.acct[Child(w, y, i)], v.acct[Child(w, y, i)])
    <3>1. Child(w, y, i) \in Accountants
      BY ChildPlace
    <3>2. w.acct[Child(w, y, i)].state = "WAITING_FOR_SIBLING"
      BY <1>7, <2>4, <3>1
    <3>3. v.acct[Child(w, y, i)] = w.acct[Child(w, y, i)]
      BY <1>5, <1>8, <3>1, <3>2
    <3> QED BY <3>2, <3>3, NotesOfSame
  <2>5. KeepsParts(w, v, y)
    BY <1>7, <2>1, <2>3, <2>4 DEF KeepsParts
  <2> QED BY <2>5, KeptParts DEF Agreed
<1>11. Prompt(v)
  <2> SUFFICES ASSUME NEW y \in Accountants, v.acct[y].state = "ACTIVE"
               PROVE  v.acct[y].pending = None
    BY DEF Prompt
  <2>1. CASE y = a
    BY <1>5, <1>8, <2>1
  <2>2. CASE y # a
    <3>1. v.acct[y] = w.acct[y]
      BY <1>5, <1>8, <2>2
    <3> QED BY <3>1 DEF Prompt, Agreed
  <2> QED BY <2>1, <2>2
<1> QED BY <1>9, <1>10, <1>11 DEF Agreed, Tallied

(* The queryable accepts at its own cost what the accountant accepted.     *)
LEMMA Reaccepted ==
  ASSUME NEW m, WellMade(m), m.kind = "answer", NEW nd, NEW new,
         nd.dIn \in Dist,
         new.type = nd.type, new.dIn = nd.dIn, new.remaining = nd.remaining,
         NEW hint \in Budgets \union {None}, NEW cost \in Accepted(nd, m, hint)
  PROVE  cost \in Accepted(new, m, cost)
<1>1. cost \in Budgets /\ cost # None
  BY AcceptedType, HintsAssumption DEF WellMade
<1>2. /\ cost \in Charges(nd, m, hint) /\ m.in = nd.type
      /\ CanSpend(nd.remaining, cost)
  BY DEF Accepted
<1>3. PrivacyRelation(m, nd.dIn, cost)
  <2>1. CASE hint = None
    <3>1. cost = m.loss[nd.dIn]
      BY <1>2, <2>1 DEF Charges, PrivacyFunction, PartLoss, AnswerLoss
    <3> QED BY <1>1, <3>1, CompareReflexive DEF PrivacyRelation
  <2>2. CASE hint # None
    BY <1>2, <2>2 DEF Charges
  <2> QED BY <2>1, <2>2
<1>4. cost \in Charges(new, m, cost)
  BY <1>1, <1>3 DEF Charges
<1> QED BY <1>2, <1>4 DEF Accepted

LEMMA MeasureAgrees ==
  ASSUME NEW w, Family(w), Agreed(w), NEW a \in Accountants,
         Len(a) < MaxDepth, w.tree[a].next <= MaxFan,
         NEW m, WellMade(m), m.kind = "answer", NEW hint \in Budgets \union {None},
         NEW raises \in BOOLEAN, NEW v, v = Measure(w, a, m, hint, raises)
  PROVE  Agreed(v)
<1> DEFINE me == w.acct[a]
           nd == [type |-> me.type, dIn |-> me.dIn, remaining |-> me.budget]
           costs == Accepted(nd, m, hint)
           cost == CHOOSE c \in costs : TRUE
           paid == [w EXCEPT !.acct[a].budget = Subtract(@, cost)]
           refused == me.state # "ACTIVE" \/ ~ HasQueryable(w, a) \/ costs = {}
<1>1. v = IF refused THEN Raised(w)
          ELSE SubmitMeasurement(paid, a, m, cost, raises)
  BY DEF Measure
<1>2. CASE refused
  <2>1. v = Raised(w)
    BY <1>1, <1>2
  <2> QED BY <2>1, RaisedAgrees
<1>3. CASE ~ refused
  <2>1. cost \in costs /\ me.state = "ACTIVE" /\ IsOpen(w.tree, a)
    BY <1>3 DEF HasQueryable
  <2>2. /\ nd.dIn \in Dist /\ nd.type = me.type /\ nd.dIn = me.dIn
        /\ nd.remaining = me.budget
    BY WorldType DEF Family
  <2> HIDE DEF cost, nd
  <2>3. cost \in Budgets /\ CanSpend(me.budget, cost)
    BY <2>1, <2>2, AcceptedType DEF WellMade
  <2>4. \A c \in Accepted(w.tree[a], m, cost) : c = cost
    BY <2>3, HintsAssumption DEF Accepted, Charges
  <2>5. ASSUME NoDistances PROVE Accepted(w.tree[a], m, cost) # {}
    <3>1. me.pending = None
      BY <2>1 DEF Agreed, Prompt
    <3>2. /\ w.tree[a].type = nd.type /\ w.tree[a].dIn = nd.dIn
          /\ w.tree[a].remaining = nd.remaining
      BY <2>1, <2>2, <2>5, <3>1 DEF Agreed, Tallied, OpenMatches, Matches
    <3>3. cost \in Accepted(w.tree[a], m, cost)
      BY <2>1, <2>2, <3>2, Reaccepted
    <3> QED BY <3>3
  <2>6. paid = [w EXCEPT !.acct[a].budget = Subtract(@, cost)]
    OBVIOUS
  <2>7. v = SubmitMeasurement(paid, a, m, cost, raises)
    BY <1>1, <1>3
  <2> HIDE DEF paid, costs
  <2>8. cost \in Budgets \union {None}
    BY <2>3
  <2> QED BY <2>1, <2>3, <2>4, <2>5, <2>6, <2>7, <2>8, PaidAgrees
<1> QED BY <1>2, <1>3

(* The queryable accepts the split of its accountant, at that budget.      *)
LEMMA SplitAccepted ==
  ASSUME NEW s \in Splits, s.t.fn, NEW b \in Budgets, NEW nd, nd.dIn \in Dist,
         s.t.in = nd.type, CanSpend(nd.remaining, b), NEW d, d = s.t.stab[nd.dIn]
  PROVE  Accepted(nd, SplitMeasurement(s, d, b), None) # {}
<1> DEFINE m == SplitMeasurement(s, d, b)
           loss == [i \in DOMAIN m.parts |-> PartLoss(m.parts[i], m.t.stab[nd.dIn])]
           values == UNION {loss[i] : i \in DOMAIN m.parts}
<1>1. /\ m.kind = "parallel" /\ DOMAIN m.parts = 1 .. s.size
      /\ m.t = s.t /\ m.in = s.t.in
      /\ \A i \in 1 .. s.size :
           /\ m.parts[i].kind = "sequential" /\ m.parts[i].budget = b
           /\ m.parts[i].dIn = d
  BY DEF SplitMeasurement
<1>2. s.size \in 1 .. MaxFan /\ d \in Dist
  <2>1. s.t \in Transformation /\ s.size \in 1 .. MaxFan
    BY SplitsAssumption
  <2>2. s.t.stab \in [Dist -> Dist]
    BY <2>1 DEF Transformation
  <2> QED BY <2>1, <2>2
<1> HIDE DEF m
<1>3. \A i \in DOMAIN m.parts : loss[i] = {b}
  <2> TAKE i \in DOMAIN m.parts
  <2>1. loss[i] = PartLoss(m.parts[i], d)
    BY <1>1
  <2>2. d <= d
    BY <1>2, DistAssumption DEF Dist
  <2> HIDE DEF loss
  <2> QED BY <1>1, <2>1, <2>2 DEF PartLoss, SequentialLoss
<1>4. values = {b}
  <2>1. 1 \in DOMAIN m.parts
    BY <1>1, <1>2, FanAssumption
  <2> HIDE DEF loss
  <2> QED BY <1>3, <2>1
<1>5. b \in [eps : {e.eps : e \in values}, delta : {e.delta : e \in values}]
  <2>1. b = [eps |-> b.eps, delta |-> b.delta]
    BY DEF Budgets
  <2> HIDE DEF values
  <2> QED BY <1>4, <2>1
<1>6. AmountAtMost(b.eps, b.eps) /\ b.delta <= b.delta
  BY DeltaAssumption DEF Budgets, Amount, AmountAtMost
<1>7. \A i \in DOMAIN m.parts : loss[i] # {}
  BY <1>3
<1>8. \A e \in values : AmountAtMost(e.eps, b.eps) /\ e.delta <= b.delta
  <2> HIDE DEF values
  <2> QED BY <1>4, <1>6
<1>9. b \in ParallelLoss(m, nd.dIn)
  BY <1>1, <1>5, <1>7, <1>8 DEF ParallelLoss
<1>10. b \in Accepted(nd, m, None)
  BY <1>1, <1>9 DEF Accepted, Charges, PrivacyFunction
<1> QED BY <1>10 DEF m

(* Accountants that are told what their parts are told agree with these.   *)
LEMMA SplitIntoAgrees ==
  ASSUME NEW u, Family(u), Agreed(u), NEW a \in Accountants, NEW q,
         NEW n \in 1 .. MaxFan, NEW b \in Budgets, ReadyToSplit(u, a, q, n, b),
         NEW v, SplitInto(u, v, a, q, n, b),
         NEW r, r.pending = None, SplitNotes(u, v, a, q, n, r),
         \A i \in 1 .. n : LET part == u.tree[Append(a, q)].parts[i]
                           IN  part.in = r.type /\ part.dIn = r.dIn
  PROVE  Agreed(v)
<1> DEFINE p == Append(a, q)
           child(i) == Append(p, i)
           c == child(1)
           tr == u.tree
           t == v.tree
           Kids == {child(i) : i \in 1 .. n}
<1>1. /\ n \in Nat /\ 1 \in 1 .. n
      /\ u.acct[a].state = "ACTIVE" /\ Len(a) + 2 <= MaxDepth
      /\ p \in Path /\ Live(tr, p) /\ tr[p].next = 1 /\ Len(tr[p].parts) = n
      /\ \A i \in 1 .. n : /\ tr[p].parts[i].kind = "sequential"
                           /\ tr[p].parts[i].budget = b
                           /\ tr[p].parts[i].in = r.type
                           /\ tr[p].parts[i].dIn = r.dIn
  BY FanAssumption DEF ReadyToSplit
<1>2. /\ p \notin Accountants
      /\ \A i \in 1 .. n : /\ child(i) \in Accountants /\ IsChild(child(i), a, q, i)
                           /\ child(i) # a
      /\ \A i, j \in 1 .. n : child(i) = child(j) => i = j
  BY <1>1, SplitPlaces
<1>3. t = Indexed(tr, p, FALSE)
  BY DEF SplitInto
<1>4. Sound(tr) /\ c \in Path
  BY <1>1, <1>2 DEF Family, Accountants
<1>5. /\ \A i \in 1 .. n : v.acct[child(i)].state =
                             IF i = 1 THEN "ACTIVE" ELSE "WAITING_FOR_SIBLING"
      /\ \A i \in 1 .. n : SameNotes(r, v.acct[child(i)])
      /\ \A i \in 1 .. n : v.acct[child(i)].budget = b
      /\ SameNotes(u.acct[a], v.acct[a])
      /\ Waits(v, a) /\ v.acct[a].pq = q /\ v.acct[a].size = n
      /\ \A y \in Accountants : y # a /\ y \notin Kids => v.acct[y] = u.acct[y]
  BY DEF SplitInto, SplitNotes, Waits
<1> HIDE DEF t
<1>6. /\ OpenSet(t) = OpenSet(tr) \union {c}
      /\ \A i \in 1 .. n : ~ IsOpen(tr, child(i))
  <2>1. IsSplitTree(u.tree, a, q, n, b, t)
    BY <1>3, SplitTree, Zenon
  <2> QED BY <2>1 DEF IsSplitTree
<1> HIDE DEF tr, p, child
<1>7. /\ \A x \in Path \ {p, c} : SameView(tr[x], t[x])
      /\ t[p].parts = tr[p].parts
      /\ t[c].type = r.type /\ t[c].dIn = r.dIn /\ t[c].remaining = b
  <2>1. /\ Sound(tr) /\ p \in Path /\ Live(tr, p)
        /\ tr[p].next <= Len(tr[p].parts)
        /\ Append(p, tr[p].next) = c /\ Append(p, tr[p].next) \in Path
        /\ tr[p].parts[tr[p].next].kind = "sequential"
    <3>1. tr[p].next <= Len(tr[p].parts)
      BY <1>1
    <3>2. Append(p, tr[p].next) = c
      BY <1>1 DEF child
    <3> QED BY <1>1, <1>4, <3>1, <3>2
  <2>2. LET d == Append(p, tr[p].next)
            part == tr[p].parts[tr[p].next]
        IN  /\ \A x \in Path \ {p, d} : SameView(tr[x], t[x])
            /\ t[p].parts = tr[p].parts
            /\ t[d].type = part.in /\ t[d].dIn = part.dIn
            /\ t[d].remaining = part.budget
    BY <1>3, <2>1, IndexedViews
  <2> QED BY <1>1, <2>1, <2>2
<1>8. \A x \in Kids : \E i \in 1 .. n : x = child(i)
  OBVIOUS
<1>9. \A i \in 1 .. n : child(i) \in Kids
  OBVIOUS
<1> HIDE DEF Kids
<1>10. ASSUME NEW y \in Accountants PROVE OpenMatches(v, y)
  <2>1. y # p /\ y \in Path
    BY <1>2 DEF Accountants
  <2>2. CASE y = c
    <3>1. SameNotes(r, v.acct[c]) /\ v.acct[c].budget = b
      BY <1>1, <1>5
    <3>2. Matches(r, t[c].type, t[c].dIn)
      BY <1>7 DEF Matches
    <3>3. Matches(v.acct[c], t[c].type, t[c].dIn)
      BY <3>1, <3>2, MatchesSame
    <3> QED BY <1>7, <2>2, <3>1, <3>3 DEF OpenMatches, t
  <2>3. CASE y # c /\ ~ IsOpen(tr, y)
    <3>1. ~ IsOpen(t, y)
      BY <1>6, <2>1, <2>3 DEF OpenSet
    <3> QED BY <3>1 DEF OpenMatches, t
  <2>4. CASE y # c /\ IsOpen(tr, y)
    <3>1. SameView(u.tree[y], v.tree[y])
      BY <1>7, <2>1, <2>4 DEF t, tr
    <3>2. y \notin Kids
      BY <1>6, <1>8, <2>4
    <3>3. SameNotes(u.acct[y], v.acct[y])
      BY <1>5, <3>2, NotesOfSame
    <3> QED BY <2>4, <3>1, <3>3, KeptOpen DEF Agreed, tr
  <2> QED BY <2>2, <2>3, <2>4
<1>11. ASSUME NEW y \in Accountants, Waits(v, y) PROVE PartsMatch(v, y)
  <2>1. CASE y = a
    <3>1. ParallelOf(v, a) = p /\ \A i : Child(v, a, i) = child(i)
      BY <1>5 DEF ParallelOf, Child, p, child
    <3> SUFFICES ASSUME NEW i \in 1 .. n
                 PROVE  Matches(v.acct[child(i)], t[p].parts[i].in, t[p].parts[i].dIn)
      BY <1>5, <2>1, <3>1 DEF PartsMatch, t
    <3>2. Matches(r, t[p].parts[i].in, t[p].parts[i].dIn)
      BY <1>1, <1>7 DEF Matches
    <3> QED BY <1>5, <3>2, MatchesSame
  <2>2. CASE y # a
    <3>1. y \notin Kids
      <4> SUFFICES ASSUME y \in Kids PROVE FALSE
        OBVIOUS
      <4>1. PICK i \in 1 .. n : y = child(i)
        BY <1>8
      <4> QED BY <1>5, <1>11, <4>1 DEF Waits
    <3>2. v.acct[y] = u.acct[y]
      BY <1>5, <2>2, <3>1
    <3>3. Waits(u, y)
      BY <1>11, <3>2 DEF Waits
    <3>4. ParallelOf(u, y) \in Path /\ ParallelOf(u, y) # c
      <4>1. c \in Accountants
        BY <1>1, <1>2
      <4> QED BY <3>3, <4>1, ParallelPlace
    <3>5. v.tree[ParallelOf(u, y)].parts = u.tree[ParallelOf(u, y)].parts
      <4>1. CASE ParallelOf(u, y) = p
        BY <1>7, <4>1 DEF t, tr
      <4>2. CASE ParallelOf(u, y) # p
        BY <1>7, <3>4, <4>2 DEF SameView, t, tr
      <4> QED BY <4>1, <4>2
    <3>6. ASSUME NEW i \in 1 .. u.acct[y].size,
                 v.acct[Child(u, y, i)].state = "WAITING_FOR_SIBLING"
          PROVE  /\ u.acct[Child(u, y, i)].state = "WAITING_FOR_SIBLING"
                 /\ SameNotes(u.acct[Child(u, y, i)], v.acct[Child(u, y, i)])
      <4>1. Child(u, y, i) \in Accountants /\ Parent(Child(u, y, i)) = y
        BY ChildPlace
      <4>2. Child(u, y, i) # a
        BY <1>5, <3>6 DEF Waits
      <4>3. Child(u, y, i) \notin Kids
        <5> SUFFICES ASSUME Child(u, y, i) \in Kids PROVE FALSE
          OBVIOUS
        <5>1. PICK k \in 1 .. n : Child(u, y, i) = child(k)
          BY <1>8
        <5>2. Parent(child(k)) = a
          BY <1>2 DEF IsChild
        <5> QED BY <2>2, <4>1, <5>1, <5>2
      <4>4. v.acct[Child(u, y, i)] = u.acct[Child(u, y, i)]
        BY <1>5, <4>1, <4>2, <4>3
      <4> QED BY <3>6, <4>4, NotesOfSame
    <3>7. KeepsParts(u, v, y)
      BY <3>2, <3>3, <3>5, <3>6 DEF KeepsParts
    <3> QED BY <3>7, KeptParts DEF Agreed
  <2> QED BY <2>1, <2>2
<1>12. Prompt(v)
  <2> SUFFICES ASSUME NEW y \in Accountants, v.acct[y].state = "ACTIVE"
               PROVE  v.acct[y].pending = None
    BY DEF Prompt
  <2>1. y # a
    BY <1>5 DEF Waits
  <2>2. CASE y \in Kids
    <3>1. PICK i \in 1 .. n : y = child(i)
      BY <1>8, <2>2
    <3> QED BY <1>5, <3>1 DEF SameNotes
  <2>3. CASE y \notin Kids
    <3>1. v.acct[y] = u.acct[y]
      BY <1>5, <2>1, <2>3
    <3> QED BY <3>1 DEF Prompt, Agreed
  <2> QED BY <2>2, <2>3
<1> QED BY <1>10, <1>11, <1>12 DEF Agreed, Tallied

LEMMA SplitAgrees ==
  ASSUME NEW w, Family(w), w.ok, Agreed(w), NEW a \in Accountants,
         Len(a) + 2 <= MaxDepth, w.tree[a].next <= MaxFan,
         NEW s \in Splits, NEW b \in Budgets, NEW hint \in Dist \union {None},
         NoDistances => hint = None,
         NEW raises \in BOOLEAN,
         NEW v, v = Split(w, a, s, b, hint, raises)
  PROVE  Agreed(v)
<1> DEFINE me == w.acct[a]
           q == w.tree[a].next
<1>1. SplitOutcome(w, v, a, s, b, hint, raises)
  BY SplitCall
<1>2. CASE v = Raised(w)
  BY <1>2, RaisedAgrees
<1>3. CASE v # Raised(w)
  <2>1. me.state = "ACTIVE" /\ s.t.in = me.type /\ CanSpend(me.budget, b)
    BY <1>1, <1>3 DEF SplitOutcome
  <2>2. PICK d \in Stabilities(me.dIn, s.t, hint) :
          \E u : SplitAsked(w, v, a, s, b, d, raises, u)
    BY <1>1, <1>3 DEF SplitOutcome
  <2>3. PICK u : SplitAsked(w, v, a, s, b, d, raises, u)
    BY <2>2
  <2> DEFINE m == SplitMeasurement(s, d, b)
             r == NewAccountant("WAITING_FOR_SIBLING", s.t.out, d, b)
             paid == [w EXCEPT !.acct[a].budget = Subtract(@, b)]
  <2>4. /\ u = SubmitMeasurement(paid, a, m, None, raises) /\ PaidFor(w, u, a)
        /\ ~ u.ok => v = u
        /\ u.ok => /\ Answered(w, u, a, m) /\ ReadyToSplit(u, a, q, s.size, b)
                   /\ SplitInto(u, v, a, q, s.size, b)
                   /\ SplitNotes(u, v, a, q, s.size, r)
    BY <2>3, Zenon DEF SplitAsked
  <2>5. /\ s.t \in Transformation /\ s.t.out \in Types /\ s.size \in 1 .. MaxFan
        /\ me.dIn \in Dist
    BY SplitsAssumption, WorldType DEF Family, Transformation
  <2>6. d \in Dist
    BY <2>5, KnownDistance
  <2>7. WellMade(m) /\ \A c \in Accepted(w.tree[a], m, None) : c = b
    BY <2>6, SplitMeasurementMade, SplitCharge
  <2>8. ASSUME NoDistances PROVE Accepted(w.tree[a], m, None) # {}
    <3>1. IsOpen(w.tree, a)
      BY <2>1 DEF Family, Usable, InUse, Live
    <3>2. me.pending = None
      BY <2>1 DEF Agreed, Prompt
    <3>3. /\ w.tree[a].type = me.type /\ w.tree[a].dIn = me.dIn
          /\ w.tree[a].remaining = me.budget
      BY <2>8, <3>1, <3>2 DEF Agreed, Tallied, OpenMatches, Matches
    <3>4. s.t.fn /\ d = s.t.stab[me.dIn]
      BY <2>2, <2>8 DEF Stabilities
    <3> QED BY <2>1, <2>5, <3>3, <3>4, SplitAccepted
  <2>9. /\ m.kind = "parallel"
        /\ \A i \in 1 .. s.size : m.parts[i].in = s.t.out /\ m.parts[i].dIn = d
    BY DEF SplitMeasurement
  <2>10. r.type = s.t.out /\ r.dIn = d /\ r.pending = None
    <3>1. "WAITING_FOR_SIBLING" \in States
      BY DEF States
    <3> QED BY <2>5, <2>6, <3>1, NewAccountantType
  <2> HIDE DEF m, r
  <2>11. paid = [w EXCEPT !.acct[a].budget = Subtract(@, b)]
    OBVIOUS
  <2> HIDE DEF paid
  <2>12. Agreed(u)
    <3>1. Len(a) < MaxDepth /\ None \in Budgets \union {None}
      BY PathType, DepthAssumption DEF Accountants
    <3>2. w.acct[a].state = "ACTIVE" /\ CanSpend(w.acct[a].budget, b)
      BY <2>1
    <3>3. u = SubmitMeasurement(paid, a, m, None, raises)
      BY <2>4
    <3> QED BY <2>7, <2>8, <2>11, <3>1, <3>2, <3>3, PaidAgrees
  <2>13. CASE ~ u.ok
    BY <2>4, <2>12, <2>13
  <2>14. CASE u.ok
    <3>1. u.tree[Append(a, q)].parts = m.parts
      BY <2>4, <2>9, <2>14 DEF Answered
    <3>2. Family(u)
      BY <2>4 DEF PaidFor
    <3>3. \A i \in 1 .. s.size : LET part == u.tree[Append(a, q)].parts[i]
                                 IN  part.in = r.type /\ part.dIn = r.dIn
      BY <2>9, <2>10, <3>1
    <3> HIDE DEF q
    <3> QED BY <2>4, <2>5, <2>10, <2>12, <2>14, <3>2, <3>3, SplitIntoAgrees
  <2> QED BY <2>13, <2>14
<1> QED BY <1>2, <1>3

-----------------------------------------------------------------------------
(* They agree in every state                                               *)

LEMMA LaunchAgrees ==
  ASSUME Launch
  PROVE  Agreed(World)
<1> DEFINE w == World
           nd == tree[Root]
           r == NewAccountant("ACTIVE", nd.type, nd.dIn, nd.remaining)
<1>1. Family(w)
  BY LaunchFamily DEF AccountantInv
<1>2. w.tree = tree /\ w.acct = acct
  BY WorldFields
<1>3. OpenSet(tree) = {Root} /\ Root \in Accountants
  BY InitWrapperInv, RootIsAccountant DEF Launch
<1>4. nd.type \in Types /\ nd.dIn \in Dist /\ nd.remaining \in Budgets
  <2>1. tree \in [Path -> Node] /\ Root \in Path
    BY <1>1, <1>2, <1>3, WorldType DEF Family, Accountants
  <2> QED BY <2>1 DEF Node
<1>5. /\ r.state = "ACTIVE" /\ r.budget = nd.remaining /\ r.type = nd.type
      /\ r.dIn = nd.dIn /\ r.pending = None
  <2>1. "ACTIVE" \in States
    BY DEF States
  <2> HIDE DEF nd
  <2> QED BY <1>4, <2>1, NewAccountantType
<1>6. NoAccountant.state = "none"
  BY DEF NoAccountant
<1> HIDE DEF r, w
<1>7. \A a \in Accountants : acct[a] = IF a = Root THEN r ELSE NoAccountant
  BY DEF Launch, r
<1>8. acct[Root] = r /\ \A a \in Accountants : a # Root => acct[a].state = "none"
  BY <1>3, <1>6, <1>7
<1>9. ASSUME NEW a \in Accountants PROVE OpenMatches(w, a)
  <2>1. CASE a = Root
    <3>1. Matches(r, nd.type, nd.dIn)
      BY <1>5 DEF Matches
    <3> QED BY <1>2, <1>5, <1>8, <2>1, <3>1 DEF OpenMatches
  <2>2. CASE a # Root
    <3>1. ~ IsOpen(tree, a)
      BY <1>3, <2>2 DEF OpenSet, Accountants
    <3> QED BY <1>2, <3>1 DEF OpenMatches
  <2> QED BY <2>1, <2>2
<1>10. \A a \in Accountants : ~ Waits(w, a)
  BY <1>2, <1>5, <1>8 DEF Waits
<1>11. Prompt(w)
  BY <1>2, <1>5, <1>8 DEF Prompt
<1> QED BY <1>9, <1>10, <1>11 DEF Agreed, Tallied, w

LEMMA CallAgrees ==
  ASSUME NEW v, Family(v), Agreed(v), Becomes(v)
  PROVE  Agreed(World)'
<1> DEFINE z == [tree |-> tree', acct |-> acct', ok |-> TRUE]
<1>1. World' = z
  BY DEF World
<1>2. z.tree = v.tree /\ z.acct = v.acct
  BY DEF Becomes
<1> HIDE DEF z
<1>3. Keeps(v, z)
  BY <1>2, NotesOfSame DEF Keeps, Waits
<1>4. Agreed(z)
  BY <1>2, <1>3, KeptTally DEF Agreed, Prompt
<1> QED BY <1>1, <1>4

LEMMA StepAgrees ==
  ASSUME StabilityFunctions, AccountantInv, Agreed(World), NextCall
  PROVE  Agreed(World)'
<1> DEFINE w == World
<1>1. PICK a \in Accountants :
        /\ Exists(a)
        /\ \/ \E t \in Transformations, hint \in DistHints :
                DoTransformInPlace(a, t, hint) \/ DoQueueTransformation(a, t, hint)
           \/ \E m \in Measurements, hint \in LossHints : DoMeasure(a, m, hint)
           \/ \E s \in Splits, b \in SplitBudgets, hint \in DistHints :
                DoSplit(a, s, b, hint)
           \/ DoForceActivate(a)
           \/ \E force \in BOOLEAN : DoRetire(a, force)
  BY DEF NextCall
<1>2. w.tree = tree /\ w.acct = acct /\ w.ok = TRUE /\ Family(w) /\ Agreed(w)
  BY WorldFields DEF AccountantInv
<1>3. a \in Existing(w)
  BY <1>1, <1>2 DEF Exists, Existing
<1>4. DistHints \subseteq Dist \union {None} /\ LossHints \subseteq Budgets \union {None}
  BY HintsAssumption
<1> SUFFICES \E v : Family(v) /\ Agreed(v) /\ Becomes(v)
  BY CallAgrees
<1> HIDE DEF w
<1>5. ASSUME NEW t \in Transformations, NEW hint \in DistHints,
             DoTransformInPlace(a, t, hint)
      PROVE  \E v : Family(v) /\ Agreed(v) /\ Becomes(v)
  <2> DEFINE v == TransformInPlace(w, a, t, hint)
  <2>1. Becomes(v)
    BY <1>5 DEF DoTransformInPlace, w
  <2>2. NotedOnly(w, v, a)
    BY <1>2, <1>4, TransformFamily
  <2>3. v = TransformInPlace(w, a, t, hint)
    OBVIOUS
  <2> HIDE DEF v
  <2>4. Agreed(v)
    BY <1>2, <2>3, TransformAgrees
  <2> QED BY <2>1, <2>2, <2>4 DEF NotedOnly
<1>6. ASSUME NEW t \in Transformations, NEW hint \in DistHints,
             DoQueueTransformation(a, t, hint)
      PROVE  \E v : Family(v) /\ Agreed(v) /\ Becomes(v)
  <2> DEFINE v == QueueTransformation(w, a, t, hint)
  <2>1. Becomes(v)
    BY <1>6 DEF DoQueueTransformation, w
  <2>2. NotedOnly(w, v, a)
    BY <1>2, <1>4, QueueFamily
  <2>3. v = QueueTransformation(w, a, t, hint)
    OBVIOUS
  <2> HIDE DEF v
  <2>4. Agreed(v)
    BY <1>2, <2>3, QueueAgrees
  <2> QED BY <2>1, <2>2, <2>4 DEF NotedOnly
<1>7. ASSUME NEW m \in Measurements, NEW hint \in LossHints, DoMeasure(a, m, hint)
      PROVE  \E v : Family(v) /\ Agreed(v) /\ Becomes(v)
  <2>1. PICK raises \in BOOLEAN : Becomes(Measure(w, a, m, hint, raises))
    BY <1>7 DEF DoMeasure, w
  <2>2. Len(a) < MaxDepth /\ w.tree[a].next <= MaxFan /\ m.kind = "answer"
    BY <1>2, <1>7 DEF DoMeasure, HasRoom
  <2>3. WellMade(m) /\ hint \in Budgets \union {None}
    BY <1>4, MeasurementsAssumption
  <2> DEFINE v == Measure(w, a, m, hint, raises)
  <2>4. Family(v)
    BY <1>2, <2>2, <2>3, MeasureFamily
  <2>5. v = Measure(w, a, m, hint, raises)
    OBVIOUS
  <2> HIDE DEF v
  <2>6. Agreed(v)
    BY <1>2, <2>2, <2>3, <2>5, MeasureAgrees
  <2> QED BY <2>1, <2>4, <2>5, <2>6
<1>8. ASSUME NEW s \in Splits, NEW b \in SplitBudgets, NEW hint \in DistHints,
             DoSplit(a, s, b, hint)
      PROVE  \E v : Family(v) /\ Agreed(v) /\ Becomes(v)
  <2>1. PICK raises \in BOOLEAN : Becomes(Split(w, a, s, b, hint, raises))
    BY <1>8 DEF DoSplit, w
  <2>2. Len(a) + 2 <= MaxDepth /\ w.tree[a].next <= MaxFan
    BY <1>2, <1>8 DEF DoSplit, HasRoom
  <2>3. b \in Budgets /\ hint \in Dist \union {None} /\ (NoDistances => hint = None)
    BY <1>4, SplitBudgetsAssumption DEF NoDistances
  <2> DEFINE v == Split(w, a, s, b, hint, raises)
  <2>4. v = Split(w, a, s, b, hint, raises)
    OBVIOUS
  <2> HIDE DEF v
  <2>5. Family(v)
    BY <1>2, <2>2, <2>3, <2>4, SplitCallFamily
  <2>6. Agreed(v)
    BY <1>2, <2>2, <2>3, <2>4, SplitAgrees
  <2> QED BY <2>1, <2>4, <2>5, <2>6
<1>9. ASSUME DoForceActivate(a)
      PROVE  \E v : Family(v) /\ Agreed(v) /\ Becomes(v)
  <2> DEFINE v == ForceActivate(w, a)
  <2>1. Becomes(v)
    BY <1>9 DEF DoForceActivate, w
  <2>2. Family(v) /\ Agreed(v)
    BY <1>2, <1>3, ForceActivateEffect, ForceActivateAgrees
  <2> HIDE DEF v
  <2> QED BY <2>1, <2>2
<1>10. ASSUME NEW force \in BOOLEAN, DoRetire(a, force)
       PROVE  \E v : Family(v) /\ Agreed(v) /\ Becomes(v)
  <2> DEFINE v == Retire(w, a, force)
  <2>1. Becomes(v)
    BY <1>10 DEF DoRetire, w
  <2>2. Family(v) /\ Agreed(v)
    BY <1>2, <1>3, RetireFamily, RetireAgrees
  <2> HIDE DEF v
  <2> QED BY <2>1, <2>2
<1> QED BY <1>1, <1>5, <1>6, <1>7, <1>8, <1>9, <1>10

(* What is noted on an accountant, queued transformations and all, is what *)
(* its queryable, or the part that waits for it, is or will be.            *)
THEOREM Agreement ==
  ASSUME StabilityFunctions
  PROVE  AccountantSpec => [](AccountantInv /\ Agreed(World))
<1>1. Launch => AccountantInv /\ Agreed(World)
  BY LaunchFamily, LaunchAgrees
<1>2. AccountantInv /\ Agreed(World) /\ [NextCall]_accountantVars
        => (AccountantInv /\ Agreed(World))'
  <2> SUFFICES ASSUME AccountantInv, Agreed(World), [NextCall]_accountantVars
               PROVE  (AccountantInv /\ Agreed(World))'
    OBVIOUS
  <2>1. CASE NextCall
    <3>1. Agreed(World)'
      BY <2>1, StepAgrees
    <3>2. AccountantInv'
      BY <2>1, StepFamily
    <3> QED BY <3>1, <3>2
  <2>2. CASE UNCHANGED accountantVars
    <3>1. World' = World
      BY <2>2 DEF World, accountantVars
    <3>2. AccountantInv'
      BY <3>1 DEF AccountantInv
    <3> QED BY <3>1, <3>2
  <2> QED BY <2>1, <2>2
<1> QED BY <1>1, <1>2, PTL DEF AccountantSpec

(* retire(force=True) never raises, "If force is True, retire can always   *)
(* be called", when what is queued has stability functions: whoever has to *)
(* be retired before can be, and what is queued on whoever comes next can  *)
(* be executed.                                                            *)
THEOREM RetireWhenForced ==
  ASSUME StabilityFunctions
  PROVE  AccountantSpec => []RetireAlwaysPossible
<1>1. AccountantInv /\ Agreed(World) => RetireAlwaysPossible
  <2> SUFFICES ASSUME AccountantInv, Agreed(World), NEW a \in Accountants, Exists(a)
               PROVE  Retire(World, a, TRUE).ok
    BY DEF RetireAlwaysPossible
  <2>1. a \in Existing(World) /\ World.ok /\ Family(World)
    BY WorldFields DEF Exists, Existing, AccountantInv
  <2> QED BY <2>1, RetireAgrees
<1>2. AccountantSpec => [](AccountantInv /\ Agreed(World))
  BY Agreement
<1> QED BY <1>1, <1>2, PTL

(* An accountant and its queryable agree on the budget, and on d_in,       *)
(* domain and metric once nothing is queued, when every transformation has *)
(* a stability function and no d_out is given: nothing that raises on the  *)
(* way, and no turn that is handed on, lets the two drift apart.           *)
THEOREM QueryablesAgree ==
  ASSUME StabilityFunctions, NoDistances
  PROVE  AccountantSpec => []AgreesWithQueryable
<1>1. AccountantInv /\ Agreed(World) => AgreesWithQueryable
  <2> SUFFICES ASSUME Agreed(World), NEW a \in Accountants, HasQueryable(World, a)
               PROVE  /\ acct[a].budget = tree[a].remaining
                      /\ acct[a].pending = None =>
                           acct[a].dIn = tree[a].dIn /\ acct[a].type = tree[a].type
    BY DEF AgreesWithQueryable
  <2>1. OpenMatches(World, a) /\ IsOpen(World.tree, a)
    BY DEF Agreed, Tallied, HasQueryable
  <2> QED BY <2>1, WorldFields DEF OpenMatches, Matches
<1>2. AccountantSpec => [](AccountantInv /\ Agreed(World))
  BY Agreement
<1> QED BY <1>1, <1>2, PTL

=============================================================================
