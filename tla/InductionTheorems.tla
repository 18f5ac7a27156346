-------------------------- MODULE InductionTheorems --------------------------
(***************************************************************************)
(* Induction without a predicate as a parameter: a set of naturals that    *)
(* has 0, and with each number the next, has them all.  From it follow     *)
(* facts about what is computed recursively: folds over finite sets, and   *)
(* functions that are computed step by step, among them sums, sorting,     *)
(* common divisors, roots and powers, and about exact numbers, which are   *)
(* kept in lowest terms.                                                   *)
(***************************************************************************)
EXTENDS Rationals, Functions, FiniteSetTheorems, WellFoundedInduction, TLAPS

-----------------------------------------------------------------------------
(* Induction and folds *)

LEMMA Induction ==
  ASSUME NEW S, 0 \in S, \A n \in Nat : n \in S => n + 1 \in S
  PROVE  Nat \subseteq S
<1> DEFINE T == Nat \ S
<1> SUFFICES ASSUME T # {} PROVE FALSE
  OBVIOUS
<1>1. PICK m \in T : \A k \in T : <<k, m>> \notin OpToRel(<, Nat)
  <2> HIDE DEF T
  <2>1. T \subseteq Nat
    BY DEF T
  <2> QED BY <2>1, NatLessThanWellFounded, WFMin
<1>2. m # 0 /\ m \in Nat
  OBVIOUS
<1>3. m - 1 \in Nat /\ m - 1 < m /\ (m - 1) + 1 = m
  BY <1>2
<1>4. m - 1 \notin T
  <2>1. <<m - 1, m>> \in OpToRel(<, Nat)
    BY <1>2, <1>3 DEF OpToRel
  <2> QED BY <1>1, <2>1
<1> QED BY <1>3, <1>4

(* The element a fold takes first.                                         *)
FoldedFirst(s) == CHOOSE x \in s : TRUE

(* A property of finite sets that a set has when it has it without the     *)
(* element a fold takes first.                                             *)
LEMMA FoldInduction ==
  ASSUME NEW D, IsFiniteSet(D), NEW P, {} \in P,
         \A s \in SUBSET D :
           s # {} /\ s \ {FoldedFirst(s)} \in P => s \in P
  PROVE  SUBSET D \subseteq P
<1> DEFINE N == {n \in Nat : \A s \in SUBSET D : Cardinality(s) = n => s \in P}
<1>1. \A s \in SUBSET D : IsFiniteSet(s) /\ Cardinality(s) \in Nat
  BY FS_Subset, FS_CardinalityType
<1>2. 0 \in N
  BY <1>1, FS_EmptySet
<1>3. ASSUME NEW n \in Nat, n \in N
      PROVE  n + 1 \in N
  <2> SUFFICES ASSUME NEW s \in SUBSET D, Cardinality(s) = n + 1
               PROVE  s \in P
    OBVIOUS
  <2>1. s # {}
    <3>1. n + 1 # 0
      OBVIOUS
    <3>2. Cardinality({}) = 0
      BY FS_EmptySet, Zenon
    <3> QED BY <3>1, <3>2
  <2>2. FoldedFirst(s) \in s
    BY <2>1 DEF FoldedFirst
  <2>3. Cardinality(s \ {FoldedFirst(s)}) = n
    <3>1. Cardinality(s \ {FoldedFirst(s)}) = Cardinality(s) - 1
      BY <1>1, <2>2, FS_RemoveElement
    <3> QED BY <3>1
  <2>4. s \ {FoldedFirst(s)} \in P
    BY <1>3, <2>3
  <2> QED BY <2>1, <2>4
<1>4. Nat \subseteq N
  <2> HIDE DEF N
  <2> QED BY <1>2, <1>3, Induction
<1> QED BY <1>1, <1>4

(* A fold over D whose step takes an element and the value of the rest is  *)
(* a function on the subsets of D.                                         *)
FoldStep(op, base, it, s) ==
  IF s = {} THEN base ELSE op[<<FoldedFirst(s), it[s \ {FoldedFirst(s)}]>>]

IsFold(it, D, B, op, base) ==
  /\ it \in [SUBSET D -> B]
  /\ \A s \in SUBSET D : it[s] = FoldStep(op, base, it, s)

LEMMA FoldExists ==
  ASSUME NEW D, IsFiniteSet(D), NEW B, NEW base \in B,
         NEW op \in [D \X B -> B]
  PROVE  \E it : IsFold(it, D, B, op, base)
<1> DEFINE Step(it, s) == FoldStep(op, base, it, s)
           N == {n \in Nat : \E it \in [SUBSET D -> B] :
                   \A s \in SUBSET D : Cardinality(s) <= n => it[s] = Step(it, s)}
<1>1. \A s \in SUBSET D : /\ IsFiniteSet(s) /\ Cardinality(s) \in Nat
                          /\ Cardinality(s) <= Cardinality(D)
  BY FS_Subset, FS_CardinalityType
<1>2. \A s \in SUBSET D : s # {} =>
        /\ FoldedFirst(s) \in s
        /\ s \ {FoldedFirst(s)} \in SUBSET D
        /\ Cardinality(s \ {FoldedFirst(s)}) = Cardinality(s) - 1
  <2> SUFFICES ASSUME NEW s \in SUBSET D, s # {}
               PROVE  /\ FoldedFirst(s) \in s
                      /\ s \ {FoldedFirst(s)} \in SUBSET D
                      /\ Cardinality(s \ {FoldedFirst(s)}) = Cardinality(s) - 1
    OBVIOUS
  <2>1. FoldedFirst(s) \in s
    BY DEF FoldedFirst
  <2> QED BY <1>1, <2>1, FS_RemoveElement
<1>3. \A it \in [SUBSET D -> B], s \in SUBSET D : Step(it, s) \in B
  <2> SUFFICES ASSUME NEW it \in [SUBSET D -> B], NEW s \in SUBSET D, s # {}
               PROVE  op[<<FoldedFirst(s), it[s \ {FoldedFirst(s)}]>>] \in B
    BY DEF FoldStep
  <2> QED BY <1>2
<1>4. 0 \in N
  <2> DEFINE it == [s \in SUBSET D |-> base]
  <2>1. \A s \in SUBSET D : Cardinality(s) <= 0 => s = {}
    BY <1>1, FS_EmptySet
  <2>2. it \in [SUBSET D -> B] /\ \A s \in SUBSET D : it[s] = base
    OBVIOUS
  <2>3. \A s \in SUBSET D : Cardinality(s) <= 0 => it[s] = Step(it, s)
    <3> HIDE DEF it
    <3> QED BY <2>1, <2>2 DEF FoldStep
  <2> HIDE DEF it, Step
  <2> QED BY <2>2, <2>3
<1>5. ASSUME NEW n \in Nat, n \in N
      PROVE  n + 1 \in N
  <2>1. PICK it \in [SUBSET D -> B] :
          \A s \in SUBSET D : Cardinality(s) <= n => it[s] = Step(it, s)
    BY <1>5
  <2> DEFINE next == [s \in SUBSET D |-> Step(it, s)]
  <2>2. next \in [SUBSET D -> B]
    <3> HIDE DEF Step
    <3> QED BY <1>3
  <2>3. ASSUME NEW s \in SUBSET D, Cardinality(s) <= n + 1
        PROVE  next[s] = Step(next, s)
    <3>1. next[s] = Step(it, s)
      OBVIOUS
    <3>2. CASE s = {}
      BY <3>1, <3>2 DEF FoldStep
    <3>3. CASE s # {}
      <4>1. /\ s \ {FoldedFirst(s)} \in SUBSET D
            /\ Cardinality(s \ {FoldedFirst(s)}) <= n
        BY <1>1, <1>2, <2>3, <3>3
      <4>2. next[s \ {FoldedFirst(s)}] = it[s \ {FoldedFirst(s)}]
        <5> HIDE DEF Step
        <5> QED BY <2>1, <4>1
      <4> HIDE DEF next
      <4> QED BY <3>1, <3>3, <4>2 DEF FoldStep
    <3> QED BY <3>2, <3>3
  <2> HIDE DEF next, Step
  <2> QED BY <2>2, <2>3
<1>6. Cardinality(D) \in N
  <2> HIDE DEF N
  <2>1. Nat \subseteq N
    BY <1>4, <1>5, Induction
  <2> QED BY <2>1, FS_CardinalityType
<1>7. PICK it \in [SUBSET D -> B] :
        \A s \in SUBSET D : Cardinality(s) <= Cardinality(D) => it[s] = Step(it, s)
  BY <1>6
<1> QED BY <1>1, <1>7 DEF IsFold

-----------------------------------------------------------------------------
(* Functions computed step by step *)

IsStepped(g, L, B, base, op) ==
  /\ g \in [0 .. L -> B]
  /\ \A k \in 0 .. L : g[k] = IF k = 0 THEN base ELSE op[<<k, g[k - 1]>>]

LEMMA SteppedExists ==
  ASSUME NEW L \in Nat, NEW B, NEW base \in B, NEW op \in [(1 .. L) \X B -> B]
  PROVE  \E g : IsStepped(g, L, B, base, op)
<1> DEFINE At(g, k) == IF k = 0 THEN base ELSE op[<<k, g[k - 1]>>]
           Upto(g, n) == \A k \in 0 .. L : k < n => g[k] = At(g, k)
           N == {n \in Nat : \E g \in [0 .. L -> B] : Upto(g, n)}
<1>1. 0 \in N
  <2> DEFINE g == [k \in 0 .. L |-> base]
  <2>1. g \in [0 .. L -> B] /\ Upto(g, 0)
    OBVIOUS
  <2> HIDE DEF g, Upto
  <2> QED BY <2>1
<1>2. ASSUME NEW n \in Nat, n \in N
      PROVE  n + 1 \in N
  <2>1. PICK g \in [0 .. L -> B] : Upto(g, n)
    BY <1>2
  <2> DEFINE h == [k \in 0 .. L |-> At(g, k)]
  <2>2. \A k \in 0 .. L : At(g, k) \in B
    <3> SUFFICES ASSUME NEW k \in 0 .. L, k # 0 PROVE op[<<k, g[k - 1]>>] \in B
      OBVIOUS
    <3>1. k \in 1 .. L /\ k - 1 \in 0 .. L
      OBVIOUS
    <3>2. g[k - 1] \in B
      BY <3>1
    <3>3. <<k, g[k - 1]>> \in (1 .. L) \X B
      BY <3>1, <3>2
    <3> QED BY <3>3
  <2>3. h \in [0 .. L -> B]
    BY <2>2
  <2>4. \A k \in 0 .. L : h[k] = At(g, k)
    OBVIOUS
  <2> HIDE DEF h
  <2>5. ASSUME NEW k \in 0 .. L, k < n + 1
        PROVE  h[k] = At(h, k)
    <3>1. CASE k = 0
      BY <2>4, <3>1
    <3>2. CASE k # 0
      <4>1. k - 1 \in 0 .. L /\ k - 1 < n
        BY <2>5, <3>2
      <4>2. h[k - 1] = g[k - 1]
        BY <2>1, <2>4, <4>1
      <4> QED BY <2>4, <4>2
    <3> QED BY <3>1, <3>2
  <2>6. Upto(h, n + 1)
    BY <2>5
  <2> HIDE DEF Upto
  <2> QED BY <2>3, <2>6
<1>3. L + 1 \in N
  <2> HIDE DEF N
  <2>1. Nat \subseteq N
    BY <1>1, <1>2, Induction
  <2> QED BY <2>1
<1>4. PICK g \in [0 .. L -> B] : Upto(g, L + 1)
  BY <1>3
<1>5. IsStepped(g, L, B, base, op)
  BY <1>4 DEF IsStepped
<1> QED BY <1>5

-----------------------------------------------------------------------------
(* Bounded sets of integers *)

LEMMA LeastExists ==
  ASSUME NEW S \in SUBSET Int, S # {}, NEW b \in Int, \A x \in S : b <= x
  PROVE  \E m \in S : \A x \in S : m <= x
<1> DEFINE T == {x - b : x \in S}
<1>1. T \subseteq Nat /\ T # {}
  <2>1. \A x \in S : x - b \in Nat
    OBVIOUS
  <2>2. PICK x : x \in S
    OBVIOUS
  <2> QED BY <2>1, <2>2
<1>2. PICK t \in T : \A k \in T : <<k, t>> \notin OpToRel(<, Nat)
  <2> HIDE DEF T
  <2> QED BY <1>1, NatLessThanWellFounded, WFMin
<1>3. PICK m \in S : t = m - b
  OBVIOUS
<1>4. ASSUME NEW x \in S PROVE m <= x
  <2>1. x - b \in T /\ x - b \in Nat /\ t \in Nat
    BY <1>1
  <2>2. ~ (x - b < t)
    BY <1>2, <2>1 DEF OpToRel
  <2> QED BY <1>3, <2>1, <2>2
<1> QED BY <1>4

LEMMA LargestExists ==
  ASSUME NEW S \in SUBSET Int, S # {}, NEW b \in Int, \A x \in S : x <= b
  PROVE  \E m \in S : \A x \in S : x <= m
<1> DEFINE T == {-x : x \in S}
<1>1. T \in SUBSET Int /\ T # {} /\ -b \in Int /\ \A t \in T : -b <= t
  <2>1. \A x \in S : -x \in Int /\ -b <= -x
    OBVIOUS
  <2>2. PICK x : x \in S
    OBVIOUS
  <2> QED BY <2>1, <2>2
<1>2. PICK t \in T : \A y \in T : t <= y
  <2> HIDE DEF T
  <2> QED BY <1>1, LeastExists
<1>3. PICK m \in S : t = -m
  OBVIOUS
<1>4. \A x \in S : -x \in T
  OBVIOUS
<1> HIDE DEF T
<1>5. \A x \in S : x <= m
  BY <1>2, <1>3, <1>4
<1> QED BY <1>5

-----------------------------------------------------------------------------
(* Counting *)

(* A sum over D, element by element.                                       *)
LEMMA SumStepwise ==
  ASSUME NEW D, IsFiniteSet(D), NEW f, \A x \in D : f[x] \in Int
  PROVE  \E it : /\ it[{}] = 0
                 /\ \A s \in SUBSET D : s # {} =>
                      /\ FoldedFirst(s) \in s
                      /\ it[s] = f[FoldedFirst(s)] + it[s \ {FoldedFirst(s)}]
                 /\ it[D] = SumFunctionOnSet(f, D)
<1> DEFINE op == [p \in D \X Int |-> f[p[1]] + p[2]]
           Def(it) == [s \in SUBSET D |->
                         IF s = {} THEN 0
                         ELSE f[CHOOSE x \in s : TRUE] + it[s \ {CHOOSE x \in s : TRUE}]]
           iter == CHOOSE it : it = Def(it)
<1>1. \A s \in SUBSET D : s # {} => FoldedFirst(s) \in s
  BY DEF FoldedFirst
<1>2. op \in [D \X Int -> Int]
  <2>1. \A m, n \in Int : m + n \in Int
    OBVIOUS
  <2> QED BY <2>1
<1>3. PICK g \in [SUBSET D -> Int] :
        \A s \in SUBSET D : g[s] = FoldStep(op, 0, g, s)
  <2> HIDE DEF op
  <2>1. \E g : IsFold(g, D, Int, op, 0)
    BY <1>2, FoldExists
  <2> QED BY <2>1 DEF IsFold
<1>4. g = Def(g)
  <2>1. ASSUME NEW s \in SUBSET D, s # {}
        PROVE  g[s] = f[FoldedFirst(s)] + g[s \ {FoldedFirst(s)}]
    BY <1>1, <1>3, <2>1 DEF FoldStep
  <2>2. g[{}] = 0
    BY <1>3 DEF FoldStep
  <2> QED BY <2>1, <2>2 DEF FoldedFirst
<1>5. iter = Def(iter)
  <2> HIDE DEF Def
  <2> QED BY <1>4
<1>6. SumFunctionOnSet(f, D) = iter[D]
  BY DEF SumFunctionOnSet, FoldFunctionOnSet, MapThenFoldSet
<1> HIDE DEF iter
<1>7. /\ iter[{}] = 0
      /\ \A s \in SUBSET D : s # {} => iter[s] = f[FoldedFirst(s)] + iter[s \ {FoldedFirst(s)}]
  BY <1>5 DEF FoldedFirst
<1> QED BY <1>1, <1>6, <1>7

(* The sum of one number.                                                  *)
LEMMA SumOfOne ==
  ASSUME NEW a, NEW f, DOMAIN f = {a}, f[a] \in Int
  PROVE  SumFunction(f) = f[a]
<1>1. IsFiniteSet({a})
  BY FS_Singleton
<1>2. PICK it : /\ it[{}] = 0
                /\ \A s \in SUBSET {a} : s # {} =>
                     /\ FoldedFirst(s) \in s
                     /\ it[s] = f[FoldedFirst(s)] + it[s \ {FoldedFirst(s)}]
                /\ it[{a}] = SumFunctionOnSet(f, {a})
  BY <1>1, SumStepwise
<1>3. FoldedFirst({a}) = a
  BY <1>2
<1>4. {a} \ {a} = {} /\ {a} \in SUBSET {a} /\ {a} # {}
  OBVIOUS
<1>5. it[{a}] = f[a] + it[{a} \ {a}]
  BY <1>2, <1>3, <1>4
<1>6. it[{a} \ {a}] = 0
  BY <1>2, <1>4, Zenon
<1>7. it[{a}] = f[a]
  BY <1>5, <1>6
<1> QED BY <1>2, <1>7 DEF SumFunction

(* The sum of the sizes of disjoint sets.                                  *)
LEMMA SumOfParts ==
  ASSUME NEW f, IsFiniteSet(DOMAIN f), NEW P,
         \A k \in DOMAIN f : IsFiniteSet(P[k]) /\ f[k] = Cardinality(P[k]),
         \A j, k \in DOMAIN f : j # k => P[j] \cap P[k] = {}
  PROVE  /\ IsFiniteSet(UNION {P[k] : k \in DOMAIN f})
         /\ SumFunction(f) = Cardinality(UNION {P[k] : k \in DOMAIN f})
<1> DEFINE D == DOMAIN f
           All(s) == UNION {P[k] : k \in s}
<1>1. \A k \in D : f[k] \in Int
  BY FS_CardinalityType
<1>2. PICK it : /\ it[{}] = 0
                /\ \A s \in SUBSET D : s # {} =>
                     /\ FoldedFirst(s) \in s
                     /\ it[s] = f[FoldedFirst(s)] + it[s \ {FoldedFirst(s)}]
                /\ it[D] = SumFunctionOnSet(f, D)
  <2> HIDE DEF D
  <2> QED BY <1>1, SumStepwise DEF D
<1> DEFINE G == {s \in SUBSET D : IsFiniteSet(All(s)) /\ it[s] = Cardinality(All(s))}
<1>3. {} \in G
  <2>1. All({}) = {}
    OBVIOUS
  <2> QED BY <1>2, <2>1, FS_EmptySet
<1>4. ASSUME NEW s \in SUBSET D, s # {}, s \ {FoldedFirst(s)} \in G
      PROVE  s \in G
  <2> DEFINE x == FoldedFirst(s)
             t == s \ {x}
  <2>1. x \in s /\ x \in D /\ it[s] = f[x] + it[t]
    BY <1>2, <1>4
  <2>2. IsFiniteSet(All(t)) /\ it[t] = Cardinality(All(t)) /\ t \in SUBSET D
    BY <1>4
  <2>3. IsFiniteSet(P[x]) /\ f[x] = Cardinality(P[x])
    BY <2>1
  <2>4. All(s) = P[x] \cup All(t)
    BY <2>1
  <2>5. P[x] \cap All(t) = {}
    BY <2>1, <2>2
  <2>6. /\ IsFiniteSet(P[x] \cup All(t))
        /\ Cardinality(P[x] \cup All(t)) = Cardinality(P[x]) + Cardinality(All(t))
    <3>1. /\ IsFiniteSet(P[x] \cup All(t))
          /\ Cardinality(P[x] \cup All(t))
               = Cardinality(P[x]) + Cardinality(All(t)) - Cardinality(P[x] \cap All(t))
      <4> HIDE DEF All, t, x
      <4> QED BY <2>2, <2>3, FS_Union
    <3>2. Cardinality(P[x] \cap All(t)) = 0
      BY <2>5, FS_EmptySet
    <3>3. Cardinality(P[x]) \in Nat /\ Cardinality(All(t)) \in Nat
      BY <2>2, <2>3, FS_CardinalityType
    <3> QED BY <3>1, <3>2, <3>3
  <2>7. IsFiniteSet(All(s)) /\ it[s] = Cardinality(All(s))
    BY <2>1, <2>2, <2>3, <2>4, <2>6
  <2> HIDE DEF All
  <2> QED BY <2>7
<1> HIDE DEF G
<1>5. D \in G
  <2>1. IsFiniteSet(D)
    OBVIOUS
  <2> HIDE DEF D
  <2>2. SUBSET D \subseteq G
    BY <1>3, <1>4, <2>1, FoldInduction
  <2> QED BY <2>2
<1>6. SumFunction(f) = it[D]
  BY <1>2 DEF SumFunction
<1> QED BY <1>5, <1>6 DEF G

(* A map under which no element comes from more than n others.             *)
LEMMA FanOut ==
  ASSUME NEW S, NEW T, IsFiniteSet(T), NEW h \in [S -> T], NEW n \in Nat,
         \A t \in T : /\ IsFiniteSet({s \in S : h[s] = t})
                      /\ Cardinality({s \in S : h[s] = t}) <= n
  PROVE  IsFiniteSet(S) /\ Cardinality(S) \in Nat /\ Cardinality(S) <= n * Cardinality(T)
<1> DEFINE Over(U) == {s \in S : h[s] \in U}
           G == {U \in SUBSET T : IsFiniteSet(Over(U)) /\ Cardinality(Over(U)) <= n * Cardinality(U)}
<1>1. {} \in G
  <2>1. Over({}) = {}
    OBVIOUS
  <2>2. Cardinality({}) = 0 /\ n * 0 = 0 /\ IsFiniteSet({})
    BY FS_EmptySet
  <2> QED BY <2>1, <2>2
<1>2. ASSUME NEW U \in SUBSET T, U # {}, U \ {FoldedFirst(U)} \in G
      PROVE  U \in G
  <2> DEFINE x == FoldedFirst(U)
             V == U \ {x}
             X == {s \in S : h[s] = x}
  <2>1. x \in U /\ x \in T
    BY <1>2 DEF FoldedFirst
  <2>2. /\ IsFiniteSet(Over(V)) /\ Cardinality(Over(V)) <= n * Cardinality(V)
        /\ IsFiniteSet(X) /\ Cardinality(X) <= n
    BY <1>2, <2>1
  <2>3. Over(U) = X \cup Over(V) /\ X \cap Over(V) = {}
    BY <2>1
  <2>4. IsFiniteSet(U) /\ IsFiniteSet(V)
    BY FS_Subset
  <2>5. Cardinality(U) = Cardinality(V) + 1 /\ Cardinality(V) \in Nat
    <3>1. Cardinality(V) = Cardinality(U) - 1
      BY <2>1, <2>4, FS_RemoveElement
    <3> QED BY <2>4, <3>1, FS_CardinalityType
  <2> HIDE DEF x, V, X, Over
  <2>6. Cardinality(X \cap Over(V)) = 0
    BY <2>3, FS_EmptySet
  <2>7. IsFiniteSet(Over(U)) /\ Cardinality(Over(U)) = Cardinality(X) + Cardinality(Over(V)) - Cardinality(X \cap Over(V))
    BY <2>2, <2>3, FS_Union
  <2>8. Cardinality(X) \in Nat /\ Cardinality(Over(V)) \in Nat
    BY <2>2, FS_CardinalityType
  <2>9. n * (Cardinality(V) + 1) = n * Cardinality(V) + n /\ n * Cardinality(V) \in Nat
    BY <2>5
  <2>10. Cardinality(Over(U)) <= n * Cardinality(U)
    BY <2>2, <2>5, <2>6, <2>7, <2>8, <2>9
  <2> QED BY <2>7, <2>10
<1>3. T \in G
  <2> HIDE DEF G
  <2> QED BY <1>1, <1>2, FoldInduction
<1>4. Over(T) = S
  OBVIOUS
<1>5. IsFiniteSet(S) /\ Cardinality(S) <= n * Cardinality(T)
  BY <1>3, <1>4
<1> QED BY <1>5, FS_CardinalityType

-----------------------------------------------------------------------------
(* Sums *)

(* A sum of integers is one; one of non-negative numbers is one; sums over *)
(* the same set are compared number by number.                             *)
LEMMA SumIsInt ==
  ASSUME NEW f, IsFiniteSet(DOMAIN f), \A x \in DOMAIN f : f[x] \in Int
  PROVE  SumFunction(f) \in Int
<1> DEFINE D == DOMAIN f
<1>1. PICK it : /\ it[{}] = 0
                /\ \A s \in SUBSET D : s # {} =>
                     /\ FoldedFirst(s) \in s
                     /\ it[s] = f[FoldedFirst(s)] + it[s \ {FoldedFirst(s)}]
                /\ it[D] = SumFunctionOnSet(f, D)
  <2> HIDE DEF D
  <2> QED BY SumStepwise DEF D
<1> DEFINE P == {s \in SUBSET D : it[s] \in Int}
<1>2. {} \in P
  BY <1>1
<1>3. ASSUME NEW s \in SUBSET D, s # {}, s \ {FoldedFirst(s)} \in P
      PROVE  s \in P
  BY <1>1, <1>3
<1>4. SUBSET D \subseteq P
  <2>1. IsFiniteSet(D)
    OBVIOUS
  <2> HIDE DEF P, D
  <2> QED BY <1>2, <1>3, <2>1, FoldInduction
<1> QED BY <1>1, <1>4 DEF SumFunction

(* Sums compare as their summands do.                                      *)
LEMMA SumsCompare ==
  ASSUME NEW D, IsFiniteSet(D), NEW n \in Nat, NEW f, DOMAIN f = D, NEW g, DOMAIN g = D,
         \A x \in D : f[x] \in Int /\ g[x] \in Int /\ f[x] <= n * g[x]
  PROVE  SumFunction(f) <= n * SumFunction(g)
<1>1. PICK i : /\ i[{}] = 0
               /\ \A s \in SUBSET D : s # {} =>
                    /\ FoldedFirst(s) \in s
                    /\ i[s] = f[FoldedFirst(s)] + i[s \ {FoldedFirst(s)}]
               /\ i[D] = SumFunctionOnSet(f, D)
  BY SumStepwise
<1>2. PICK j : /\ j[{}] = 0
               /\ \A s \in SUBSET D : s # {} =>
                    /\ FoldedFirst(s) \in s
                    /\ j[s] = g[FoldedFirst(s)] + j[s \ {FoldedFirst(s)}]
               /\ j[D] = SumFunctionOnSet(g, D)
  BY SumStepwise
<1> DEFINE P == {s \in SUBSET D : i[s] \in Int /\ j[s] \in Int /\ i[s] <= n * j[s]}
<1>3. {} \in P
  BY <1>1, <1>2
<1>4. ASSUME NEW s \in SUBSET D, s # {}, s \ {FoldedFirst(s)} \in P
      PROVE  s \in P
  <2>1. PICK x \in D, t \in SUBSET D :
          /\ i[s] = f[x] + i[t] /\ j[s] = g[x] + j[t] /\ t \in P
    BY <1>1, <1>2, <1>4
  <2>2. PICK a \in Int, b \in Int, u \in Int, v \in Int :
          a = f[x] /\ b = g[x] /\ u = i[t] /\ v = j[t]
    BY <2>1
  <2>3. a <= n * b /\ u <= n * v
    BY <2>1, <2>2
  <2>4. n * (b + v) = n * b + n * v /\ n * b \in Int /\ n * v \in Int
    OBVIOUS
  <2>5. i[s] = a + u /\ j[s] = b + v
    BY <2>1, <2>2
  <2>6. a + u <= n * (b + v)
    BY <2>3, <2>4
  <2> QED BY <2>5, <2>6
<1>5. SUBSET D \subseteq P
  <2> HIDE DEF P
  <2> QED BY <1>3, <1>4, FoldInduction
<1> QED BY <1>1, <1>2, <1>5 DEF SumFunction

LEMMA SumIsNat ==
  ASSUME NEW f, IsFiniteSet(DOMAIN f), \A x \in DOMAIN f : f[x] \in Nat
  PROVE  SumFunction(f) \in Nat
<1> DEFINE g == [x \in DOMAIN f |-> 0]
<1>1. SumFunction(f) \in Int
  BY SumIsInt
<1>2. SumFunction(g) <= 1 * SumFunction(f)
  <2>1. \A x \in DOMAIN f : g[x] \in Int /\ f[x] \in Int /\ g[x] <= 1 * f[x]
    OBVIOUS
  <2>2. DOMAIN g = DOMAIN f
    OBVIOUS
  <2> HIDE DEF g
  <2> QED BY <2>1, <2>2, SumsCompare
<1>3. SumFunction(g) = 0
  <2>1. SumFunction(g) \in Int
    <3>1. IsFiniteSet(DOMAIN g) /\ \A x \in DOMAIN g : g[x] \in Int
      OBVIOUS
    <3> HIDE DEF g
    <3> QED BY <3>1, SumIsInt
  <2>2. SumFunction(g) <= 0 * SumFunction(g) /\ SumFunction(g) <= 2 * SumFunction(g)
    <3>1. \A x \in DOMAIN g : g[x] \in Int /\ g[x] <= 0 * g[x] /\ g[x] <= 2 * g[x]
      OBVIOUS
    <3>2. IsFiniteSet(DOMAIN g)
      OBVIOUS
    <3> HIDE DEF g
    <3>3. SumFunction(g) <= 0 * SumFunction(g)
      BY <3>1, <3>2, SumsCompare
    <3>4. SumFunction(g) <= 2 * SumFunction(g)
      BY <3>1, <3>2, SumsCompare
    <3> QED BY <3>3, <3>4
  <2> QED BY <2>1, <2>2
<1> QED BY <1>1, <1>2, <1>3

(* The sum of f(x) - n * g(x).                                             *)
LEMMA SumOfDifferences ==
  ASSUME NEW D, IsFiniteSet(D), NEW n \in Int, NEW f, DOMAIN f = D, NEW g, DOMAIN g = D,
         NEW h, DOMAIN h = D,
         \A x \in D : f[x] \in Int /\ g[x] \in Int /\ h[x] = f[x] - n * g[x]
  PROVE  SumFunction(h) = SumFunction(f) - n * SumFunction(g)
<1>1. PICK i : /\ i[{}] = 0
               /\ \A s \in SUBSET D : s # {} =>
                    /\ FoldedFirst(s) \in s
                    /\ i[s] = f[FoldedFirst(s)] + i[s \ {FoldedFirst(s)}]
               /\ i[D] = SumFunctionOnSet(f, D)
  BY SumStepwise
<1>2. PICK j : /\ j[{}] = 0
               /\ \A s \in SUBSET D : s # {} =>
                    /\ FoldedFirst(s) \in s
                    /\ j[s] = g[FoldedFirst(s)] + j[s \ {FoldedFirst(s)}]
               /\ j[D] = SumFunctionOnSet(g, D)
  BY SumStepwise
<1>3. PICK k : /\ k[{}] = 0
               /\ \A s \in SUBSET D : s # {} =>
                    /\ FoldedFirst(s) \in s
                    /\ k[s] = h[FoldedFirst(s)] + k[s \ {FoldedFirst(s)}]
               /\ k[D] = SumFunctionOnSet(h, D)
  <2>1. \A x \in D : h[x] \in Int
    OBVIOUS
  <2> QED BY <2>1, SumStepwise
<1> DEFINE P == {s \in SUBSET D : i[s] \in Int /\ j[s] \in Int /\ k[s] = i[s] - n * j[s]}
<1>4. {} \in P
  BY <1>1, <1>2, <1>3
<1>5. ASSUME NEW s \in SUBSET D, s # {}, s \ {FoldedFirst(s)} \in P
      PROVE  s \in P
  <2>1. PICK x \in D, t \in SUBSET D :
          /\ i[s] = f[x] + i[t] /\ j[s] = g[x] + j[t] /\ k[s] = h[x] + k[t] /\ t \in P
    BY <1>1, <1>2, <1>3, <1>5
  <2>2. PICK a \in Int, b \in Int, u \in Int, v \in Int :
          a = f[x] /\ b = g[x] /\ u = i[t] /\ v = j[t]
    BY <2>1
  <2>3. h[x] = a - n * b /\ k[t] = u - n * v
    BY <2>1, <2>2
  <2>4. n * (b + v) = n * b + n * v /\ n * b \in Int /\ n * v \in Int
    OBVIOUS
  <2>5. i[s] = a + u /\ j[s] = b + v /\ k[s] = (a - n * b) + (u - n * v)
    BY <2>1, <2>2, <2>3
  <2> QED BY <2>4, <2>5
<1>6. SUBSET D \subseteq P
  <2> HIDE DEF P
  <2> QED BY <1>4, <1>5, FoldInduction
<1> QED BY <1>1, <1>2, <1>3, <1>6 DEF SumFunction

(* Squares add up to no more than the square of the sum.                   *)
LEMMA SquaresOfSummands ==
  ASSUME NEW D, IsFiniteSet(D), NEW f, DOMAIN f = D, NEW g, DOMAIN g = D,
         \A x \in D : f[x] \in Nat /\ g[x] = f[x] * f[x]
  PROVE  SumFunction(g) <= SumFunction(f) * SumFunction(f)
<1>1. PICK i : /\ i[{}] = 0
               /\ \A s \in SUBSET D : s # {} =>
                    /\ FoldedFirst(s) \in s
                    /\ i[s] = f[FoldedFirst(s)] + i[s \ {FoldedFirst(s)}]
               /\ i[D] = SumFunctionOnSet(f, D)
  <2>1. \A x \in D : f[x] \in Int
    OBVIOUS
  <2> QED BY <2>1, SumStepwise
<1>2. PICK j : /\ j[{}] = 0
               /\ \A s \in SUBSET D : s # {} =>
                    /\ FoldedFirst(s) \in s
                    /\ j[s] = g[FoldedFirst(s)] + j[s \ {FoldedFirst(s)}]
               /\ j[D] = SumFunctionOnSet(g, D)
  <2>1. \A x \in D : g[x] \in Int
    OBVIOUS
  <2> QED BY <2>1, SumStepwise
<1> DEFINE P == {s \in SUBSET D : i[s] \in Nat /\ j[s] \in Nat /\ j[s] <= i[s] * i[s]}
<1>3. {} \in P
  BY <1>1, <1>2
<1>4. ASSUME NEW s \in SUBSET D, s # {}, s \ {FoldedFirst(s)} \in P
      PROVE  s \in P
  <2>1. PICK x \in D, t \in SUBSET D :
          /\ i[s] = f[x] + i[t] /\ j[s] = g[x] + j[t] /\ t \in P
    BY <1>1, <1>2, <1>4
  <2>2. PICK a \in Nat, u \in Nat, v \in Nat :
          a = f[x] /\ u = i[t] /\ v = j[t] /\ v <= u * u
    BY <2>1
  <2>3. i[s] = a + u /\ j[s] = a * a + v
    BY <2>1, <2>2
  <2>4. (a + u) * (a + u) = a * a + 2 * (a * u) + u * u /\ a * a \in Nat /\ a * u \in Nat
        /\ u * u \in Nat
    OBVIOUS
  <2>5. a * a + v <= (a + u) * (a + u)
    BY <2>2, <2>4
  <2> QED BY <2>3, <2>4, <2>5
<1>5. SUBSET D \subseteq P
  <2> HIDE DEF P
  <2> QED BY <1>3, <1>4, FoldInduction
<1> QED BY <1>1, <1>2, <1>5 DEF SumFunction

-----------------------------------------------------------------------------
(* Products and quotients *)

(* Division with remainder.                                                *)
LEMMA DivisionSteps ==
  ASSUME NEW m \in Nat, NEW n \in Nat \ {0}
  PROVE  /\ m % n \in 0 .. n - 1 /\ m \div n \in Nat
         /\ m = n * (m \div n) + (m % n)
<1>1. m % n \in 0 .. n - 1
  OBVIOUS
<1>2. m \div n \in Int
  OBVIOUS
<1>3. m = n * (m \div n) + (m % n)
  OBVIOUS
<1>4. m \div n \in Nat
  <2> DEFINE q == m \div n
             r == m % n
  <2>1. q \in Int /\ r \in Int /\ r < n /\ m = n * q + r
    BY <1>1, <1>2, <1>3
  <2> HIDE DEF q, r
  <2>2. ASSUME q < 0 PROVE FALSE
    <3>1. - q - 1 \in Nat /\ n * (- q - 1) \in Nat /\ n * q = - (n * (- q - 1)) - n
      BY <2>1, <2>2
    <3> QED BY <2>1, <3>1
  <2>3. q \in Nat
    BY <2>1, <2>2
  <2> QED BY <2>3 DEF q
<1> QED BY <1>1, <1>3, <1>4

(* The arithmetic that the lemmas below need of products.                  *)
LEMMA ProductsOfNats ==
  ASSUME NEW a \in Int, NEW b \in Int, NEW c \in Int
  PROVE  /\ a * b \in Int /\ a * b = b * a
         /\ a * (b * c) = (a * b) * c
         /\ a * (b + c) = a * b + a * c /\ a * (b - c) = a * b - a * c
         /\ a \in Nat /\ b \in Nat => a * b \in Nat
OBVIOUS

(* The larger of two multiples.                                            *)
LEMMA MultipliesUp ==
  ASSUME NEW i \in Nat, NEW j \in Nat, i <= j, NEW k \in Nat
  PROVE  k * i <= k * j /\ k * i \in Nat /\ k * j \in Nat
<1>1. j - i \in Nat /\ k * j = k * i + k * (j - i)
  OBVIOUS
<1>2. k * (j - i) \in Nat /\ k * i \in Nat
  BY <1>1
<1> QED BY <1>1, <1>2

LEMMA MultiplesGrow ==
  ASSUME NEW n \in Nat, NEW p \in Nat, NEW q \in Nat, p <= q
  PROVE  n * p <= n * q /\ n * p \in Nat /\ n * q \in Nat
<1>1. q - p \in Nat /\ q = p + (q - p)
  OBVIOUS
<1>2. n * q = n * p + n * (q - p) /\ n * (q - p) \in Nat /\ n * p \in Nat
  BY <1>1
<1> QED BY <1>2

(* A part p of q of what is no more than y larger is no more than y larger.*)
LEMMA FractionMoves ==
  ASSUME NEW a \in Nat, NEW b \in Nat, NEW y \in Nat, a <= b + y,
         NEW p \in Nat, NEW q \in Nat \ {0}, p <= q
  PROVE  (a * p) \div q <= (b * p) \div q + y
<1>1. a * p \in Nat /\ b * p \in Nat /\ y * p \in Nat /\ y * q \in Nat
  OBVIOUS
<1>2. PICK u \in Nat, r \in 0 .. q - 1 : u = (a * p) \div q /\ a * p = q * u + r
  BY <1>1, DivisionSteps
<1>3. PICK v \in Nat, s \in 0 .. q - 1 : v = (b * p) \div q /\ b * p = q * v + s
  BY <1>1, DivisionSteps
<1>4. a * p <= b * p + y * q
  <2>1. p * a <= p * (b + y)
    BY MultipliesUp
  <2>2. p * (b + y) = b * p + y * p /\ p * a = a * p
    OBVIOUS
  <2>3. y * p <= y * q
    BY MultipliesUp
  <2> QED BY <1>1, <2>1, <2>2, <2>3
<1>5. ASSUME u > v + y PROVE FALSE
  <2>1. PICK w \in Nat : u = v + y + 1 + w
    <3>1. u - (v + y + 1) \in Nat /\ u = v + y + 1 + (u - (v + y + 1))
      BY <1>5
    <3> QED BY <3>1
  <2>2. q * u = q * v + y * q + q + q * w /\ q * w \in Nat /\ q * v \in Nat
    BY <2>1
  <2> QED BY <1>1, <1>2, <1>3, <1>4, <2>2
<1>6. u <= v + y
  BY <1>5
<1> QED BY <1>2, <1>3, <1>6

-----------------------------------------------------------------------------
(* Sorting *)

(* The numbers from 1 to m.                                                *)
LEMMA IntervalCount ==
  ASSUME NEW m \in Nat
  PROVE  IsFiniteSet(1 .. m) /\ Cardinality(1 .. m) = m
<1>1. Cardinality(1 .. m) = IF 1 > m THEN 0 ELSE m - 1 + 1
  BY FS_Interval
<1>2. IsFiniteSet(1 .. m)
  BY FS_Interval
<1> QED BY <1>1, <1>2

(* Of finitely many elements with numbers, one has the greatest.           *)
LEMMA GreatestKey ==
  ASSUME NEW D, IsFiniteSet(D), D # {}, NEW key, \A x \in D : key[x] \in Int
  PROVE  \E m \in D : \A x \in D : key[x] <= key[m]
<1> DEFINE P == {s \in SUBSET D : s # {} => \E m \in s : \A x \in s : key[x] <= key[m]}
<1>1. {} \in P
  OBVIOUS
<1>2. ASSUME NEW s \in SUBSET D, s # {}, s \ {FoldedFirst(s)} \in P
      PROVE  s \in P
  <2> DEFINE a == FoldedFirst(s)
             t == s \ {a}
  <2>1. a \in s
    BY <1>2 DEF FoldedFirst
  <2>2. t # {} => \E m \in t : \A x \in t : key[x] <= key[m]
    BY <1>2
  <2> HIDE DEF a
  <2>3. CASE t = {}
    BY <2>1, <2>3
  <2>4. CASE t # {}
    <3>1. PICK m \in t : \A x \in t : key[x] <= key[m]
      BY <2>2, <2>4
    <3>2. CASE key[m] <= key[a]
      BY <2>1, <3>1, <3>2
    <3>3. CASE ~ key[m] <= key[a]
      BY <2>1, <3>1, <3>3
    <3> QED BY <3>2, <3>3
  <2> QED BY <2>3, <2>4
<1>3. SUBSET D \subseteq P
  <2> HIDE DEF P
  <2> QED BY <1>1, <1>2, FoldInduction
<1> QED BY <1>3

(* A finite set of integers is below a bound.                              *)
LEMMA FiniteIsBounded ==
  ASSUME NEW S \in SUBSET Int, IsFiniteSet(S), S # {}
  PROVE  \E m \in S : \A x \in S : x <= m
<1> DEFINE key == [x \in S |-> x]
<1>1. \A x \in S : key[x] \in Int
  OBVIOUS
<1> HIDE DEF key
<1>2. \E m \in S : \A x \in S : key[x] <= key[m]
  BY <1>1, GreatestKey
<1> QED BY <1>2 DEF key

(* An enumeration of S, without repetitions, by ascending keys.            *)
Ascending(s, S, key) ==
  /\ s \in [1 .. Cardinality(S) -> S]
  /\ \A i, j \in 1 .. Cardinality(S) : i # j => s[i] # s[j]
  /\ \A i, j \in 1 .. Cardinality(S) : i < j => key[s[i]] <= key[s[j]]

LEMMA AscendingExists ==
  ASSUME NEW D, IsFiniteSet(D), NEW key, \A x \in D : key[x] \in Int
  PROVE  \E s : Ascending(s, D, key)
<1> DEFINE N == {n \in Nat : \A S \in SUBSET D : Cardinality(S) = n => \E s : Ascending(s, S, key)}
<1>1. 0 \in N
  <2> SUFFICES ASSUME NEW S \in SUBSET D, Cardinality(S) = 0
               PROVE  \E s : Ascending(s, S, key)
    OBVIOUS
  <2>1. 1 .. Cardinality(S) = {}
    OBVIOUS
  <2> DEFINE s == [i \in {} |-> i]
  <2>2. s \in [{} -> S]
    OBVIOUS
  <2> HIDE DEF s
  <2>3. Ascending(s, S, key)
    BY <2>1, <2>2 DEF Ascending
  <2> QED BY <2>3
<1>2. ASSUME NEW n \in Nat, n \in N
      PROVE  n + 1 \in N
  <2> SUFFICES ASSUME NEW S \in SUBSET D, Cardinality(S) = n + 1
               PROVE  \E s : Ascending(s, S, key)
    OBVIOUS
  <2>1. IsFiniteSet(S)
    BY FS_Subset
  <2>2. S # {}
    <3>1. Cardinality({}) = 0 /\ n + 1 # 0
      BY FS_EmptySet
    <3> QED BY <3>1
  <2>3. PICK m \in S : \A x \in S : key[x] <= key[m]
    <3>1. \A x \in S : key[x] \in Int
      OBVIOUS
    <3> QED BY <2>1, <2>2, <3>1, GreatestKey
  <2> DEFINE T == S \ {m}
  <2>4. Cardinality(T) = n
    <3>1. Cardinality(T) = Cardinality(S) - 1
      BY <2>1, FS_RemoveElement
    <3> QED BY <3>1
  <2>5. T \in SUBSET D
    OBVIOUS
  <2>6. PICK t : Ascending(t, T, key)
    BY <1>2, <2>4, <2>5
  <2>7. /\ t \in [1 .. n -> T]
        /\ \A i, j \in 1 .. n : i # j => t[i] # t[j]
        /\ \A i, j \in 1 .. n : i < j => key[t[i]] <= key[t[j]]
    BY <2>4, <2>6 DEF Ascending
  <2> DEFINE s == [i \in 1 .. n + 1 |-> IF i = n + 1 THEN m ELSE t[i]]
  <2>8. \A i \in 1 .. n + 1 : i # n + 1 => i \in 1 .. n
    OBVIOUS
  <2>9. \A i \in 1 .. n : s[i] = t[i] /\ s[i] \in S /\ s[i] # m
    BY <2>7
  <2>10. s[n + 1] = m /\ n + 1 \in 1 .. n + 1
    OBVIOUS
  <2>11. s \in [1 .. n + 1 -> S]
    BY <2>7, <2>8
  <2> HIDE DEF s, T
  <2>12. \A i, j \in 1 .. n + 1 : i # j => s[i] # s[j]
    BY <2>7, <2>8, <2>9, <2>10
  <2>13. ASSUME NEW i \in 1 .. n + 1, NEW j \in 1 .. n + 1, i < j
         PROVE  key[s[i]] <= key[s[j]]
    <3>1. i \in 1 .. n
      BY <2>13
    <3>2. CASE j = n + 1
      BY <2>3, <2>9, <2>10, <3>1, <3>2
    <3>3. CASE j # n + 1
      BY <2>7, <2>8, <2>9, <2>13, <3>1, <3>3
    <3> QED BY <3>2, <3>3
  <2>14. Ascending(s, S, key)
    BY <2>11, <2>12, <2>13 DEF Ascending
  <2> QED BY <2>14
<1>3. Nat \subseteq N
  <2> HIDE DEF N
  <2> QED BY <1>1, <1>2, Induction
<1>4. Cardinality(D) \in N
  BY <1>3, FS_CardinalityType
<1> QED BY <1>4

(* Numbers up to n that have, with each number, those below it.            *)
LEMMA DownwardClosed ==
  ASSUME NEW n \in Nat, NEW S \in SUBSET (1 .. n),
         \A i \in S, j \in 1 .. n : j < i => j \in S
  PROVE  S = 1 .. Cardinality(S) /\ Cardinality(S) \in 0 .. n
<1>1. \A m \in Nat : Cardinality(1 .. m) = m
  <2> SUFFICES ASSUME NEW m \in Nat PROVE Cardinality(1 .. m) = m
    OBVIOUS
  <2>1. Cardinality(1 .. m) = IF 1 > m THEN 0 ELSE m - 1 + 1
    BY FS_Interval
  <2> QED BY <2>1
<1>2. CASE S = {}
  <2>1. Cardinality(S) = 0 /\ 1 .. 0 = {}
    BY <1>2, FS_EmptySet
  <2> QED BY <1>2, <2>1
<1>3. CASE S # {}
  <2>1. PICK m \in S : \A x \in S : x <= m
    <3>1. S \in SUBSET Int /\ n \in Int /\ \A x \in S : x <= n
      OBVIOUS
    <3> QED BY <1>3, <3>1, LargestExists
  <2>2. m \in 1 .. n
    OBVIOUS
  <2>3. ASSUME NEW j PROVE j \in S <=> j \in 1 .. m
    <3>1. j \in S => j \in 1 .. m
      BY <2>1, <2>2
    <3>2. j \in 1 .. m => j \in 1 .. n /\ (j = m \/ j < m)
      BY <2>2
    <3> QED BY <3>1, <3>2
  <2>4. S = 1 .. m
    BY <2>3
  <2> QED BY <1>1, <2>2, <2>4
<1> QED BY <1>2, <1>3

-----------------------------------------------------------------------------
(* Common divisors *)

(* A natural number divides another; of the common divisors of two, the    *)
(* one that all others divide.                                             *)
Divides(d, n) == \E q \in Nat : n = d * q
CommonDivisors(m, n) == {e \in Nat : Divides(e, m) /\ Divides(e, n)}
Greatest(m, n) == {d \in CommonDivisors(m, n) : \A e \in CommonDivisors(m, n) : Divides(e, d)}

(* Euclid's step keeps the common divisors.                                *)
LEMMA EuclidsStep ==
  ASSUME NEW m \in Nat, NEW n \in Nat \ {0}
  PROVE  CommonDivisors(m, n) = CommonDivisors(n, m % n)
<1> DEFINE q == m \div n
           r == m % n
<1>1. q \in Nat /\ r \in Nat /\ m = n * q + r
  BY DivisionSteps
<1> HIDE DEF q, r
<1>2. ASSUME NEW e \in Nat, Divides(e, n), Divides(e, r) PROVE Divides(e, m)
  <2>1. PICK a \in Nat : n = e * a
    BY <1>2 DEF Divides
  <2>2. PICK b \in Nat : r = e * b
    BY <1>2 DEF Divides
  <2>3. m = (e * a) * q + e * b /\ a * q \in Nat
    BY <1>1, <2>1, <2>2
  <2>4. (e * a) * q = e * (a * q)
    BY <1>1, ProductsOfNats
  <2> DEFINE c == a * q
  <2>5. m = e * c + e * b /\ c \in Nat
    BY <2>3, <2>4
  <2> HIDE DEF c
  <2>6. m = e * (c + b) /\ c + b \in Nat
    BY <2>5
  <2> QED BY <2>6 DEF Divides
<1>3. ASSUME NEW e \in Nat, Divides(e, n), Divides(e, m) PROVE Divides(e, r)
  <2>1. PICK a \in Nat : n = e * a
    BY <1>3 DEF Divides
  <2>2. PICK b \in Nat : m = e * b
    BY <1>3 DEF Divides
  <2>3. e * b = (e * a) * q + r /\ a * q \in Nat
    BY <1>1, <2>1, <2>2
  <2>4. (e * a) * q = e * (a * q)
    BY <1>1, ProductsOfNats
  <2> DEFINE c == a * q
  <2>5. e * b = e * c + r /\ c \in Nat
    BY <2>3, <2>4
  <2> HIDE DEF c
  <2>6. r = e * (b - c)
    BY <1>1, <2>5
  <2>7. CASE b - c \in Nat
    BY <2>6, <2>7 DEF Divides
  <2>8. CASE b < c
    <3>1. c - b \in Nat /\ e * (c - b) = - r /\ e * (c - b) \in Nat
      BY <1>1, <2>5, <2>8
    <3>2. r = e * 0
      BY <1>1, <3>1
    <3> QED BY <3>2 DEF Divides
  <2> QED BY <2>5, <2>7, <2>8
<1> QED BY <1>2, <1>3 DEF CommonDivisors, r

LEMMA GreatestOfZero ==
  ASSUME NEW m \in Nat
  PROVE  Greatest(m, 0) = {m}
<1>1. \A e \in Nat : Divides(e, 0)
  BY DEF Divides
<1>2. Divides(m, m)
  BY DEF Divides
<1>3. m \in Greatest(m, 0)
  BY <1>1, <1>2 DEF Greatest, CommonDivisors
<1>4. ASSUME NEW d \in Nat, Divides(d, m), Divides(m, d) PROVE d = m
  <2>1. PICK a \in Nat : m = d * a
    BY <1>4 DEF Divides
  <2>2. PICK b \in Nat : d = m * b
    BY <1>4 DEF Divides
  <2>3. CASE m = 0
    BY <2>2, <2>3
  <2>4. CASE d = 0
    BY <2>1, <2>4
  <2>5. CASE m # 0 /\ d # 0
    <3>1. a >= 1 /\ b >= 1
      BY <2>1, <2>2, <2>5
    <3>2. d * a >= d /\ m * b >= m
      <4>1. \A x, y \in Nat : y >= 1 => x * y >= x
        <5> SUFFICES ASSUME NEW x \in Nat, NEW y \in Nat, y >= 1 PROVE x * y >= x
          OBVIOUS
        <5>1. y - 1 \in Nat /\ x * y = x + x * (y - 1)
          OBVIOUS
        <5>2. x * (y - 1) \in Nat
          BY <5>1
        <5> QED BY <5>1, <5>2
      <4> QED BY <3>1, <4>1
    <3> QED BY <2>1, <2>2, <3>2
  <2> QED BY <2>3, <2>4, <2>5
<1>5. \A d \in Greatest(m, 0) : d = m
  BY <1>1, <1>2, <1>4 DEF Greatest, CommonDivisors
<1> QED BY <1>3, <1>5

(* Numbers of which 1 is a combination.                                    *)
Coprime(a, b) == \E u, v \in Int : u * a + v * b = 1

(* The exact numbers: fractions in lowest terms, 1/0 among them.           *)
Exact == {a \in [n : Nat, d : Nat] : Coprime(a.n, a.d)}

LEMMA Cancelled ==
  ASSUME NEW k \in Nat \ {0}, NEW a \in Int, NEW b \in Int
  PROVE  /\ k * a = k * b => a = b
         /\ k * a <= k * b <=> a <= b
<1>1. k * a = k * b => a = b
  <2> SUFFICES ASSUME k * a = k * b PROVE a = b
    OBVIOUS
  <2>1. k * (a - b) = 0
    OBVIOUS
  <2> QED BY <2>1
<1>2. ASSUME NEW c \in Int, NEW e \in Int, c < e PROVE k * c < k * e
  <2>1. e - c - 1 \in Nat /\ k * e = k * c + k + k * (e - c - 1)
    BY <1>2
  <2>2. k * (e - c - 1) \in Nat /\ k * c \in Int
    BY <2>1
  <2> QED BY <2>1, <2>2
<1>3. k * a \in Int /\ k * b \in Int
  OBVIOUS
<1> QED BY <1>1, <1>2, <1>3

(* Of numbers in lowest terms, the numerator of one divides that of an     *)
(* equal one.                                                              *)
LEMMA TermDivides ==
  ASSUME NEW m \in Nat, NEW n \in Nat, NEW x \in Nat, NEW y \in Nat,
         Coprime(m, n), m * y = x * n
  PROVE  \E t \in Nat : x = m * t
<1>1. PICK u \in Int, v \in Int : u * m + v * n = 1
  BY DEF Coprime
<1>2. x = x * (u * m + v * n)
  BY <1>1
<1>3. x * (u * m + v * n) = m * (u * x) + v * (x * n)
  <2>1. x * (u * m + v * n) = x * (u * m) + x * (v * n)
    BY ProductsOfNats
  <2>2. x * (u * m) = m * (u * x) /\ x * (v * n) = v * (x * n)
    OBVIOUS
  <2> QED BY <2>1, <2>2
<1>4. v * (x * n) = m * (v * y)
  <2>1. v * (m * y) = m * (v * y)
    OBVIOUS
  <2> QED BY <2>1
<1> DEFINE t == u * x + v * y
<1>5. x = m * t /\ t \in Int
  <2>1. m * (u * x) + m * (v * y) = m * t
    BY ProductsOfNats
  <2> QED BY <1>2, <1>3, <1>4, <2>1
<1> HIDE DEF t
<1>6. CASE t \in Nat
  BY <1>5, <1>6
<1>7. CASE t < 0
  <2>1. - t \in Nat /\ m * (- t) = - x /\ m * (- t) \in Nat
    BY <1>5, <1>7
  <2>2. x = m * 0
    BY <2>1
  <2> QED BY <2>2
<1> QED BY <1>5, <1>6, <1>7

LEMMA DivideEachOther ==
  ASSUME NEW m \in Nat, NEW x \in Nat, \E t \in Nat : x = m * t, \E t \in Nat : m = x * t
  PROVE  m = x
<1>1. \A a, b \in Nat : a > 0 /\ (\E t \in Nat : a = b * t) => b <= a
  <2> SUFFICES ASSUME NEW a \in Nat, NEW b \in Nat, a > 0, NEW t \in Nat, a = b * t
               PROVE  b <= a
    OBVIOUS
  <2>1. t >= 1
    OBVIOUS
  <2>2. t - 1 \in Nat /\ b * t = b + b * (t - 1) /\ b * (t - 1) \in Nat
    BY <2>1
  <2> QED BY <2>2
<1>2. CASE m = 0
  BY <1>2
<1>3. CASE x = 0
  BY <1>3
<1>4. CASE m > 0 /\ x > 0
  BY <1>1, <1>4
<1> QED BY <1>2, <1>3, <1>4

(* Equal numbers are equal values.                                         *)
LEMMA LowestTerms ==
  ASSUME NEW a \in Exact, NEW b \in Exact, a.n * b.d = b.n * a.d
  PROVE  a = b
<1>1. /\ a = [n |-> a.n, d |-> a.d] /\ b = [n |-> b.n, d |-> b.d]
      /\ a.n \in Nat /\ a.d \in Nat /\ b.n \in Nat /\ b.d \in Nat
      /\ Coprime(a.n, a.d) /\ Coprime(b.n, b.d)
  BY DEF Exact
<1>2. Coprime(a.d, a.n) /\ Coprime(b.d, b.n)
  <2>1. \A x, y \in Nat : Coprime(x, y) => Coprime(y, x)
    <3> SUFFICES ASSUME NEW x \in Nat, NEW y \in Nat, Coprime(x, y) PROVE Coprime(y, x)
      OBVIOUS
    <3>1. PICK u \in Int, v \in Int : u * x + v * y = 1
      BY DEF Coprime
    <3>2. v * y + u * x = 1
      BY <3>1
    <3> QED BY <3>2 DEF Coprime
  <2> QED BY <1>1, <2>1
<1>3. \A x, y \in Nat : x * y = y * x
  OBVIOUS
<1>4. a.n * b.d = b.n * a.d /\ b.n * a.d = a.n * b.d
  OBVIOUS
<1>5. a.d * b.n = b.d * a.n /\ b.d * a.n = a.d * b.n
  BY <1>1, <1>3, <1>4
<1>6. (\E t \in Nat : b.n = a.n * t) /\ (\E t \in Nat : a.n = b.n * t)
  BY <1>1, <1>4, TermDivides
<1>7. (\E t \in Nat : b.d = a.d * t) /\ (\E t \in Nat : a.d = b.d * t)
  BY <1>1, <1>2, <1>5, TermDivides
<1>8. a.n = b.n /\ a.d = b.d
  BY <1>1, <1>6, <1>7, DivideEachOther
<1> QED BY <1>1, <1>8

(* The square of a number in lowest terms is in lowest terms.              *)
LEMMA SquaresCoprime ==
  ASSUME NEW a \in Nat, NEW b \in Nat, Coprime(a, b)
  PROVE  Coprime(a * a, b * b)
<1>1. PICK u \in Int, v \in Int : u * a + v * b = 1
  BY DEF Coprime
<1> DEFINE x == u * a
           y == v * b
<1>2. x \in Int /\ y \in Int /\ x + y = 1
  BY <1>1
<1> HIDE DEF x, y
<1>3. (x + 3 * y) * (x * x) + (3 * x + y) * (y * y) = 1
  <2>1. (x + y) * ((x + y) * (x + y)) = (x + 3 * y) * (x * x) + (3 * x + y) * (y * y)
    BY <1>2
  <2> QED BY <1>2, <2>1
<1> DEFINE p == (x + 3 * y) * (u * u)
           q == (3 * x + y) * (v * v)
<1>4. p \in Int /\ q \in Int
  BY <1>2
<1>5. /\ x * x = (u * u) * (a * a) /\ y * y = (v * v) * (b * b)
  BY DEF x, y
<1>6. /\ (x + 3 * y) * ((u * u) * (a * a)) = p * (a * a)
      /\ (3 * x + y) * ((v * v) * (b * b)) = q * (b * b)
  <2>1. /\ x + 3 * y \in Int /\ u * u \in Int /\ a * a \in Int
        /\ 3 * x + y \in Int /\ v * v \in Int /\ b * b \in Int
    BY <1>2
  <2> QED BY <2>1, ProductsOfNats
<1>7. p * (a * a) + q * (b * b) = 1
  BY <1>3, <1>5, <1>6
<1> HIDE DEF p, q
<1> QED BY <1>4, <1>7 DEF Coprime

-----------------------------------------------------------------------------
(* Roots *)

(* The root of a square.                                                   *)
LEMMA RootOfSquare ==
  ASSUME NEW n \in Nat
  PROVE  (CHOOSE r \in 0 .. n * n : r * r = n * n) = n
<1>1. n \in 0 .. n * n
  <2>1. CASE n = 0
    BY <2>1
  <2>2. CASE n >= 1
    <3>1. n - 1 \in Nat /\ n * n = n + n * (n - 1) /\ n * (n - 1) \in Nat
      BY <2>2
    <3> QED BY <3>1
  <2> QED BY <2>1, <2>2
<1>2. ASSUME NEW r \in Nat, r * r = n * n PROVE r = n
  <2>1. (r - n) * (r + n) = 0
    BY <1>2
  <2>2. r - n = 0 \/ r + n = 0
    <3>1. r - n \in Int /\ r + n \in Int
      OBVIOUS
    <3>2. \A x, y \in Int : x * y = 0 => x = 0 \/ y = 0
      OBVIOUS
    <3> QED BY <2>1, <3>1, <3>2
  <2> QED BY <2>2
<1> DEFINE c == CHOOSE r \in 0 .. n * n : r * r = n * n
<1>3. c \in 0 .. n * n /\ c * c = n * n
  BY <1>1
<1> HIDE DEF c
<1>4. n * n \in Nat
  OBVIOUS
<1>5. c = n
  BY <1>2, <1>3, <1>4
<1> QED BY <1>5 DEF c

LEMMA RootsMonotone ==
  ASSUME NEW x \in Nat, NEW y \in Nat, x * x <= y * y
  PROVE  x <= y
<1> SUFFICES ASSUME y < x PROVE FALSE
  OBVIOUS
<1>1. PICK z \in Nat : x = y + 1 + z
  <2>1. x - y - 1 \in Nat /\ x = y + 1 + (x - y - 1)
    OBVIOUS
  <2> QED BY <2>1
<1>2. x * x = y * y + (2 * y + 1 + z * z + 2 * (y * z) + 2 * z)
  BY <1>1
<1>3. z * z \in Nat /\ y * z \in Nat /\ y * y \in Nat
  OBVIOUS
<1> QED BY <1>2, <1>3

(* Root-mean-square bounds add up.                                         *)
LEMMA RootsAddUp ==
  ASSUME NEW x \in Nat, NEW y \in Nat, NEW z \in Nat, NEW w \in Nat, NEW A \in Nat,
         x * x <= (y * y) * A, z * z <= (w * w) * A, NEW p \in Nat, NEW q \in Nat
  PROVE  (p * x + q * z) * (p * x + q * z) <= ((p * y + q * w) * (p * y + q * w)) * A
<1> DEFINE X == x * x
           Y == (y * y) * A
           Z == z * z
           W == (w * w) * A
           s == x * z
           t == (y * w) * A
<1>1. X \in Nat /\ Y \in Nat /\ Z \in Nat /\ W \in Nat /\ s \in Nat /\ t \in Nat
  <2>1. y * y \in Nat /\ w * w \in Nat /\ y * w \in Nat
    OBVIOUS
  <2> QED BY <2>1
<1>2. s * s = X * Z /\ t * t = Y * W
  OBVIOUS
<1>3. X <= Y /\ Z <= W
  OBVIOUS
<1>4. (p * x + q * z) * (p * x + q * z) = (p * p) * X + 2 * ((p * q) * s) + (q * q) * Z
  OBVIOUS
<1>5. ((p * y + q * w) * (p * y + q * w)) * A = (p * p) * Y + 2 * ((p * q) * t) + (q * q) * W
  OBVIOUS
<1> HIDE DEF X, Y, Z, W, s, t
<1>6. \A i, j, k \in Nat : i <= j => k * i <= k * j /\ k * i \in Nat /\ k * j \in Nat
  <2> SUFFICES ASSUME NEW i \in Nat, NEW j \in Nat, NEW k \in Nat, i <= j
               PROVE  k * i <= k * j /\ k * i \in Nat /\ k * j \in Nat
    OBVIOUS
  <2>1. j - i \in Nat /\ k * j = k * i + k * (j - i)
    OBVIOUS
  <2>2. k * (j - i) \in Nat /\ k * i \in Nat
    BY <2>1
  <2> QED BY <2>1, <2>2
<1>7. X * Z <= Y * W
  <2>1. Z * X <= Z * Y /\ Y * Z <= Y * W /\ Z * X \in Nat /\ Z * Y \in Nat /\ Y * W \in Nat
    BY <1>1, <1>3, <1>6
  <2>2. Z * X = X * Z /\ Z * Y = Y * Z
    BY <1>1
  <2> QED BY <2>1, <2>2
<1>8. s <= t
  BY <1>1, <1>2, <1>7, RootsMonotone
<1>9. p * p \in Nat /\ p * q \in Nat /\ q * q \in Nat
  OBVIOUS
<1>10. /\ (p * p) * X <= (p * p) * Y /\ (p * q) * s <= (p * q) * t /\ (q * q) * Z <= (q * q) * W
       /\ (p * p) * X \in Nat /\ (p * p) * Y \in Nat /\ (p * q) * s \in Nat /\ (p * q) * t \in Nat
       /\ (q * q) * Z \in Nat /\ (q * q) * W \in Nat
  BY <1>1, <1>3, <1>6, <1>8, <1>9
<1> QED BY <1>4, <1>5, <1>10

-----------------------------------------------------------------------------
(* Differences of sets *)

Unlike(A, B) == (A \ B) \cup (B \ A)

LEMMA UnlikeCounts ==
  ASSUME NEW A, IsFiniteSet(A), NEW B, IsFiniteSet(B)
  PROVE  /\ IsFiniteSet(A \ B) /\ IsFiniteSet(B \ A) /\ IsFiniteSet(Unlike(A, B))
         /\ Cardinality(A \ B) \in Nat /\ Cardinality(B \ A) \in Nat
         /\ Cardinality(Unlike(A, B)) = Cardinality(A \ B) + Cardinality(B \ A)
         /\ Cardinality(Unlike(A, B)) \in Nat
<1> DEFINE X == A \ B
           Y == B \ A
<1>1. X \cap Y = {}
  OBVIOUS
<1>2. IsFiniteSet(X) /\ IsFiniteSet(Y)
  BY FS_Difference
<1> HIDE DEF X, Y
<1>3. Cardinality(X) \in Nat /\ Cardinality(Y) \in Nat
  BY <1>2, FS_CardinalityType
<1>4. /\ IsFiniteSet(X \cup Y)
      /\ Cardinality(X \cup Y) = Cardinality(X) + Cardinality(Y) - Cardinality(X \cap Y)
  BY <1>2, FS_Union
<1>5. Cardinality(X \cap Y) = 0
  BY <1>1, FS_EmptySet
<1>6. Cardinality(X \cup Y) = Cardinality(X) + Cardinality(Y)
  BY <1>3, <1>4, <1>5
<1>7. Unlike(A, B) = X \cup Y
  BY DEF X, Y, Unlike
<1> QED BY <1>2, <1>3, <1>4, <1>6, <1>7 DEF X, Y

-----------------------------------------------------------------------------
(* Powers *)

(* The powers of a base.                                                   *)
PowersOf(g, base) == g[0] = 1 /\ \A k \in Nat : g[k + 1] = base * g[k]

(* A function on all the numbers, from those on the numbers up to each.    *)
LEMMA PowersExist ==
  ASSUME NEW base \in Nat
  PROVE  \E g : /\ g = [k \in Nat |-> IF k = 0 THEN 1 ELSE base * g[k - 1]]
                /\ PowersOf(g, base)
<1> DEFINE Upto(f, L) == \A k \in 0 .. L : f[k] = IF k = 0 THEN 1 ELSE base * f[k - 1]
           first == [L \in Nat |-> CHOOSE f : Upto(f, L)]
           g == [k \in Nat |-> first[k][k]]
<1>1. ASSUME NEW L \in Nat PROVE Upto(first[L], L)
  <2> DEFINE op == [x \in (1 .. L) \X Int |-> base * x[2]]
  <2>1. op \in [(1 .. L) \X Int -> Int]
    <3>1. \A m \in Int : base * m \in Int
      OBVIOUS
    <3> QED BY <3>1
  <2>2. \A k \in 1 .. L : \A m \in Int : op[<<k, m>>] = base * m
    OBVIOUS
  <2> HIDE DEF op
  <2>3. PICK f : IsStepped(f, L, Int, 1, op)
    <3>1. L \in Nat /\ 1 \in Int
      OBVIOUS
    <3> QED BY ONLY <2>1, <3>1, SteppedExists
  <2>4. Upto(f, L)
    <3> SUFFICES ASSUME NEW k \in 0 .. L
                 PROVE  f[k] = IF k = 0 THEN 1 ELSE base * f[k - 1]
      OBVIOUS
    <3>1. CASE k = 0
      BY <2>3, <3>1 DEF IsStepped
    <3>2. CASE k # 0
      <4>1. k \in 1 .. L /\ k - 1 \in 0 .. L
        BY <3>2
      <4>2. f[k - 1] \in Int
        BY <2>3, <4>1 DEF IsStepped
      <4>3. f[k] = op[<<k, f[k - 1]>>]
        BY <2>3, <3>2 DEF IsStepped
      <4> QED BY <2>2, <3>2, <4>1, <4>2, <4>3
    <3> QED BY <3>1, <3>2
  <2>5. first[L] = CHOOSE h : Upto(h, L)
    OBVIOUS
  <2> HIDE DEF Upto, first
  <2> QED BY <2>4, <2>5
<1>2. ASSUME NEW L \in Nat, NEW M \in Nat
      PROVE  \A k \in 0 .. L : k <= M => first[L][k] = first[M][k]
  <2> DEFINE S == {k \in Nat : k <= L /\ k <= M => first[L][k] = first[M][k]}
  <2> HIDE DEF first
  <2>1. Upto(first[L], L) /\ Upto(first[M], M)
    BY <1>1
  <2>2. 0 \in S
    BY <2>1
  <2>3. ASSUME NEW k \in Nat, k \in S PROVE k + 1 \in S
    <3> SUFFICES ASSUME k + 1 <= L, k + 1 <= M PROVE first[L][k + 1] = first[M][k + 1]
      OBVIOUS
    <3>1. first[L][k] = first[M][k]
      BY <2>3
    <3>2. k + 1 \in 0 .. L /\ k + 1 \in 0 .. M /\ k + 1 # 0 /\ (k + 1) - 1 = k
      OBVIOUS
    <3> QED BY <2>1, <3>1, <3>2
  <2>4. Nat \subseteq S
    <3> HIDE DEF S
    <3> QED BY <2>2, <2>3, Induction
  <2> QED BY <2>4
<1>3. ASSUME NEW k \in Nat PROVE g[k] = IF k = 0 THEN 1 ELSE base * g[k - 1]
  <2>1. first[k][k] = IF k = 0 THEN 1 ELSE base * first[k][k - 1]
    <3> HIDE DEF first
    <3> QED BY <1>1
  <2>2. CASE k = 0
    BY <2>1, <2>2
  <2>3. CASE k # 0
    <3>1. k - 1 \in Nat /\ k - 1 \in 0 .. k /\ k - 1 <= k - 1
      BY <2>3
    <3>2. first[k][k - 1] = first[k - 1][k - 1]
      <4> HIDE DEF first
      <4> QED BY <1>2, <3>1
    <3>3. g[k] = first[k][k] /\ g[k - 1] = first[k - 1][k - 1]
      BY <3>1
    <3> QED BY <2>1, <2>3, <3>2, <3>3
  <2> QED BY <2>2, <2>3
<1>4. g = [k \in Nat |-> g[k]]
  OBVIOUS
<1> HIDE DEF g
<1>5. [k \in Nat |-> g[k]] = [k \in Nat |-> IF k = 0 THEN 1 ELSE base * g[k - 1]]
  BY <1>3
<1>6. PowersOf(g, base)
  <2>1. g[0] = 1
    BY <1>3
  <2>2. ASSUME NEW k \in Nat PROVE g[k + 1] = base * g[k]
    <3>1. k + 1 \in Nat /\ k + 1 # 0 /\ (k + 1) - 1 = k
      OBVIOUS
    <3> QED BY <1>3, <3>1
  <2> QED BY <2>1, <2>2 DEF PowersOf
<1> QED BY <1>4, <1>5, <1>6, Zenon

(* Powers grow without end.                                                *)
LEMMA PowersGrow ==
  ASSUME NEW base \in Nat \ {0, 1}, NEW g, PowersOf(g, base)
  PROVE  /\ \A k \in Nat : g[k] \in Nat \ {0} /\ k < g[k]
         /\ \A i, j \in Nat : i <= j => g[i] <= g[j]
<1> DEFINE S == {k \in Nat : g[k] \in Nat /\ k < g[k]}
<1>1. 0 \in S
  BY DEF PowersOf
<1>2. ASSUME NEW k \in Nat, k \in S PROVE k + 1 \in S /\ g[k] <= g[k + 1]
  <2>1. g[k] \in Nat /\ k < g[k] /\ g[k + 1] = base * g[k] /\ 2 \in Nat /\ 2 <= base
    BY <1>2 DEF PowersOf
  <2>2. g[k] * 2 <= g[k] * base /\ g[k] * base \in Nat /\ g[k] * base = base * g[k]
    BY <2>1, MultipliesUp
  <2> QED BY <2>1, <2>2
<1>3. Nat \subseteq S
  <2> HIDE DEF S
  <2> QED BY <1>1, <1>2, Induction
<1>4. ASSUME NEW i \in Nat, NEW j \in Nat, i <= j PROVE g[i] <= g[j]
  <2> DEFINE T == {n \in Nat : g[i] <= g[i + n]}
  <2>0. \A n \in Nat : g[n] \in Nat /\ g[n] <= g[n + 1]
    BY <1>2, <1>3
  <2>1. 0 \in T
    <3>1. i + 0 = i
      OBVIOUS
    <3> QED BY <2>0, <3>1
  <2>2. ASSUME NEW n \in Nat, n \in T PROVE n + 1 \in T
    <3>1. i + n \in Nat /\ (i + n) + 1 = i + (n + 1)
      OBVIOUS
    <3>2. g[i + n] <= g[(i + n) + 1] /\ g[i + n] \in Nat /\ g[(i + n) + 1] \in Nat /\ g[i] \in Nat
      BY <2>0, <3>1
    <3>3. g[i] <= g[i + n]
      BY <2>2
    <3>4. g[i] <= g[i + (n + 1)]
      BY <3>1, <3>2, <3>3
    <3> QED BY <3>4
  <2>3. Nat \subseteq T
    <3> HIDE DEF T
    <3> QED BY <2>1, <2>2, Induction
  <2>4. j - i \in Nat /\ i + (j - i) = j
    BY <1>4
  <2>5. j - i \in T
    BY <2>3, <2>4
  <2> QED BY <2>4, <2>5
<1> QED BY <1>3, <1>4

-----------------------------------------------------------------------------
(* Tails *)

(* The chance that two-sided geometric noise is at least k, as a fraction, *)
(* if each number is as likely as `base' of the next.                      *)
TailOver(g, base, k) == g[IF k >= 1 THEN k - 1 ELSE -k] * (base + 1)
TailPart(g, base, k) == IF k >= 1 THEN 1 ELSE TailOver(g, base, k) - 1

LEMMA TailsAreChances ==
  ASSUME NEW base \in Nat \ {0, 1}, NEW g, PowersOf(g, base), NEW k \in Int
  PROVE  /\ TailOver(g, base, k) \in Nat \ {0}
         /\ TailPart(g, base, k) \in Nat \ {0}
         /\ TailPart(g, base, k) < TailOver(g, base, k)
<1> DEFINE n == IF k >= 1 THEN k - 1 ELSE -k
<1>1. n \in Nat /\ TailOver(g, base, k) = g[n] * (base + 1)
  BY DEF TailOver
<1> HIDE DEF n
<1>2. PICK p \in Nat \ {0} : p = g[n]
  BY <1>1, PowersGrow
<1>3. p * base \in Nat /\ p * (base + 1) = p * base + p /\ p * 2 <= p * base
  <2>1. 2 \in Nat /\ 2 <= base
    OBVIOUS
  <2> QED BY <2>1, MultipliesUp
<1>4. TailOver(g, base, k) = p * base + p
  BY <1>1, <1>2, <1>3
<1> QED BY <1>3, <1>4 DEF TailPart

LEMMA TailsGrow ==
  ASSUME NEW base \in Nat \ {0, 1}, NEW g, PowersOf(g, base), NEW k \in Int
  PROVE  TailPart(g, base, k) * TailOver(g, base, k + 1)
           <= (base * TailPart(g, base, k + 1)) * TailOver(g, base, k)
<1>1. CASE k >= 1
  <2>1. PICK p \in Nat : p = g[k - 1]
    <3>1. k - 1 \in Nat
      BY <1>1
    <3> QED BY <3>1, PowersGrow
  <2>2. g[k] = base * p
    <3>1. k - 1 \in Nat /\ (k - 1) + 1 = k
      BY <1>1
    <3> QED BY <2>1, <3>1 DEF PowersOf
  <2>3. /\ TailOver(g, base, k) = p * (base + 1) /\ TailPart(g, base, k) = 1
        /\ TailPart(g, base, k + 1) = 1
    BY <1>1, <2>1 DEF TailOver, TailPart
  <2>4. TailOver(g, base, k + 1) = (base * p) * (base + 1)
    <3>1. k + 1 >= 1 /\ (k + 1) - 1 = k
      BY <1>1
    <3> QED BY <2>2, <3>1 DEF TailOver
  <2>5. 1 * ((base * p) * (base + 1)) = (base * 1) * (p * (base + 1)) /\ base * p \in Nat
        /\ (base * 1) * (p * (base + 1)) \in Nat
    OBVIOUS
  <2> QED BY <2>3, <2>4, <2>5
<1>2. CASE k = 0
  <2>1. g[0] = 1
    BY DEF PowersOf
  <2>2. /\ TailOver(g, base, 0) = base + 1 /\ TailPart(g, base, 0) = base
        /\ TailOver(g, base, 1) = base + 1 /\ TailPart(g, base, 1) = 1
    BY <2>1 DEF TailOver, TailPart
  <2>3. base * (base + 1) \in Nat /\ (base * 1) * (base + 1) = base * (base + 1)
    OBVIOUS
  <2>4. k + 1 = 1
    BY <1>2
  <2> QED BY <1>2, <2>2, <2>3, <2>4
<1>3. CASE k < 0
  <2>1. PICK p \in Nat \ {0} : p = g[-k - 1]
    <3>1. -k - 1 \in Nat
      BY <1>3
    <3> QED BY <3>1, PowersGrow
  <2>2. g[-k] = base * p
    <3>1. -k - 1 \in Nat /\ (-k - 1) + 1 = -k
      BY <1>3
    <3> QED BY <2>1, <3>1 DEF PowersOf
  <2> DEFINE m == p * (base + 1)
  <2>3. TailOver(g, base, k) = base * m /\ TailPart(g, base, k) = base * m - 1
    <3>1. ~ (k >= 1) /\ (base * p) * (base + 1) = base * m
      BY <1>3
    <3> QED BY <2>2, <3>1 DEF TailOver, TailPart
  <2>4. TailOver(g, base, k + 1) = m /\ TailPart(g, base, k + 1) = m - 1
    <3>1. ~ (k + 1 >= 1) /\ -(k + 1) = -k - 1
      BY <1>3
    <3> QED BY <2>1, <3>1 DEF TailOver, TailPart
  <2>5. m \in Nat /\ base + 1 <= m
    <3>1. (base + 1) * 1 <= (base + 1) * p
      BY MultipliesUp
    <3> QED BY <3>1
  <2> HIDE DEF m
  <2>6. (base * m - 1) * m <= (base * (m - 1)) * (base * m)
    <3>1. PICK z \in Nat : m = base + 1 + z
      <4>1. m - (base + 1) \in Nat /\ m = base + 1 + (m - (base + 1))
        BY <2>5
      <4> QED BY <4>1
    <3>2. PICK y \in Nat : base = 2 + y
      <4>1. base - 2 \in Nat /\ base = 2 + (base - 2)
        OBVIOUS
      <4> QED BY <4>1
    <3>3. base * (m - 1) * base = (base * m - 1) + (base - 1) * (base * m - base - 1)
      BY <2>5
    <3>4. base * m - base - 1 \in Nat
      <4>1. base * 2 <= base * m /\ base * m \in Nat
        BY <2>5, MultipliesUp
      <4> QED BY <4>1, <3>2
    <3>5. base - 1 \in Nat /\ (base - 1) * (base * m - base - 1) \in Nat
      BY <3>2, <3>4
    <3> DEFINE u == base * m - 1
               v == base * (m - 1) * base
    <3>6. u \in Nat /\ v \in Nat /\ u <= v
      <4> DEFINE c == (base - 1) * (base * m - base - 1)
      <4>1. u \in Nat /\ v = u + c /\ c \in Nat
        BY <2>5, <3>3, <3>4, <3>5
      <4> HIDE DEF u, v, c
      <4> QED BY <4>1
    <3>7. (base * m - 1) * m = m * u /\ (base * (m - 1)) * (base * m) = m * v
      BY <2>5
    <3> HIDE DEF u, v
    <3>8. m * u <= m * v
      BY <2>5, <3>6, MultipliesUp
    <3> QED BY <3>7, <3>8
  <2> QED BY <2>3, <2>4, <2>6
<1> QED BY <1>1, <1>2, <1>3

(* One of two factors that are the same cancels.                           *)
LEMMA FactorCancels ==
  ASSUME NEW a \in Int, NEW b \in Int, NEW c \in Nat \ {0}, a * c <= b * c
  PROVE  a <= b
<1> SUFFICES ASSUME b < a PROVE FALSE
  OBVIOUS
<1>1. PICK z \in Nat : a = b + 1 + z
  <2>1. a - b - 1 \in Nat /\ a = b + 1 + (a - b - 1)
    OBVIOUS
  <2> QED BY <2>1
<1>2. a * c = b * c + c + z * c /\ z * c \in Nat /\ b * c \in Int
  BY <1>1
<1> QED BY <1>2

(* The chance grows by no more than the base with each number less.        *)
LEMMA TailsFar ==
  ASSUME NEW base \in Nat \ {0, 1}, NEW g, PowersOf(g, base), NEW k \in Int, NEW c \in Nat
  PROVE  TailPart(g, base, k - c) * TailOver(g, base, k)
           <= (g[c] * TailPart(g, base, k)) * TailOver(g, base, k - c)
<1> DEFINE N(i) == TailPart(g, base, i)
           D(i) == TailOver(g, base, i)
           S == {n \in Nat : N(k - n) * D(k) <= (g[n] * N(k)) * D(k - n)}
<1>1. \A i \in Int : N(i) \in Nat \ {0} /\ D(i) \in Nat \ {0}
  BY TailsAreChances
<1>2. \A i \in Int : N(i) * D(i + 1) <= (base * N(i + 1)) * D(i)
  BY TailsGrow
<1> HIDE DEF N, D
<1>3. 0 \in S
  <2>1. k - 0 = k /\ g[0] = 1 /\ N(k) * D(k) = (1 * N(k)) * D(k) /\ N(k) * D(k) \in Nat
    BY <1>1 DEF PowersOf
  <2> QED BY <2>1
<1>4. ASSUME NEW n \in Nat, n \in S PROVE n + 1 \in S
  <2>1. /\ g[n + 1] = base * g[n] /\ g[n] \in Nat
        /\ k - (n + 1) \in Int /\ (k - (n + 1)) + 1 = k - n /\ k - n \in Int
    BY PowersGrow DEF PowersOf
  <2>2. PICK a \in Nat, b \in Nat \ {0} : a = N(k - (n + 1)) /\ b = D(k - (n + 1))
    BY <1>1, <2>1
  <2>3. PICK e \in Nat, f \in Nat \ {0} : e = N(k - n) /\ f = D(k - n)
    BY <1>1, <2>1
  <2>4. PICK p \in Nat, q \in Nat \ {0}, t \in Nat : p = N(k) /\ q = D(k) /\ t = g[n]
    BY <1>1, <2>1
  <2>5. a * f <= (base * e) * b
    BY <1>2, <2>1, <2>2, <2>3
  <2>6. e * q <= (t * p) * f
    BY <1>4, <2>3, <2>4
  <2>7. a * q * f <= ((base * t) * p) * b * f
    <3>1. q * (a * f) <= q * ((base * e) * b) /\ a * f \in Nat /\ (base * e) * b \in Nat
      <4>1. a * f \in Nat /\ base * e \in Nat
        OBVIOUS
      <4>2. (base * e) * b \in Nat
        BY <4>1
      <4> QED BY <2>5, <4>1, <4>2, MultipliesUp
    <3>2. (base * b) * (e * q) <= (base * b) * ((t * p) * f)
      <4>1. base * b \in Nat /\ e * q \in Nat /\ t * p \in Nat
        OBVIOUS
      <4>2. (t * p) * f \in Nat
        BY <4>1
      <4> QED BY <2>6, <4>1, <4>2, MultipliesUp
    <3>3. /\ q * (a * f) = a * q * f /\ q * ((base * e) * b) = (base * b) * (e * q)
          /\ (base * b) * ((t * p) * f) = ((base * t) * p) * b * f
      OBVIOUS
    <3>4. q * (a * f) \in Int /\ (base * b) * (e * q) \in Int /\ (base * b) * ((t * p) * f) \in Int
      OBVIOUS
    <3> QED BY <3>1, <3>2, <3>3, <3>4
  <2>8. a * q <= ((base * t) * p) * b
    <3>1. a * q \in Int /\ ((base * t) * p) * b \in Int
      OBVIOUS
    <3> QED BY <2>7, <3>1, FactorCancels
  <2> QED BY <2>1, <2>2, <2>4, <2>8
<1>5. Nat \subseteq S
  <2> HIDE DEF S
  <2> QED BY <1>3, <1>4, Induction
<1>6. c \in S
  BY <1>5
<1> QED BY <1>6 DEF N, D

(* The chance that something happens for one x at least of D, when it does *)
(* with chance u[x] / v[x] for each, which is no more than s / w: the      *)
(* chance of none is p / q.                                                *)
LEMMA ChancesAddUp ==
  ASSUME NEW D, IsFiniteSet(D), NEW s \in Nat, NEW w \in Nat \ {0},
         NEW u, NEW v, \A x \in D : /\ u[x] \in Nat /\ v[x] \in Nat \ {0}
                                   /\ u[x] <= v[x] /\ u[x] * w <= s * v[x],
         NEW p, NEW q, \A t \in SUBSET D : p[t] \in Nat /\ q[t] \in Nat \ {0},
         p[{}] = q[{}],
         \A t \in SUBSET D : t # {} =>
           LET x == FoldedFirst(t)
               rest == t \ {x}
           IN p[t] * (v[x] * q[rest]) = q[t] * ((v[x] - u[x]) * p[rest])
  PROVE  p[D] <= q[D] /\ (q[D] - p[D]) * w <= (Cardinality(D) * s) * q[D]
<1> DEFINE P == {t \in SUBSET D : /\ p[t] <= q[t]
                                  /\ (q[t] - p[t]) * w <= (Cardinality(t) * s) * q[t]}
<1>1. {} \in P
  <2>1. p[{}] \in Nat /\ q[{}] \in Nat /\ Cardinality({}) = 0
    BY FS_EmptySet
  <2>2. (q[{}] - p[{}]) * w = 0 /\ (Cardinality({}) * s) * q[{}] = 0
    BY <2>1
  <2> QED BY <2>1, <2>2
<1>2. ASSUME NEW t \in SUBSET D, t # {}, t \ {FoldedFirst(t)} \in P
      PROVE  t \in P
  <2> DEFINE x == FoldedFirst(t)
             rest == t \ {x}
  <2>1. x \in t /\ rest \in SUBSET D
    BY <1>2 DEF FoldedFirst
  <2>2. IsFiniteSet(t) /\ IsFiniteSet(rest)
    BY <2>1, FS_Subset
  <2>3. PICK m \in Nat : Cardinality(rest) = m /\ Cardinality(t) = m + 1
    <3>1. Cardinality(rest) = Cardinality(t) - 1 /\ Cardinality(t) \in Nat /\ Cardinality(rest) \in Nat
      BY <2>1, <2>2, FS_RemoveElement, FS_CardinalityType
    <3> QED BY <3>1
  <2>4. p[t] * (v[x] * q[rest]) = q[t] * ((v[x] - u[x]) * p[rest])
    BY <1>2
  <2>5. p[rest] <= q[rest] /\ (q[rest] - p[rest]) * w <= (m * s) * q[rest]
    BY <1>2, <2>3
  <2> HIDE DEF x, rest
  <2>6. PICK a \in Nat, b \in Nat \ {0} : a = p[rest] /\ b = q[rest]
    BY <2>1
  <2>7. PICK y \in Nat, z \in Nat \ {0} : y = p[t] /\ z = q[t]
    BY <1>2
  <2>8. PICK i \in Nat, j \in Nat \ {0} : i = u[x] /\ j = v[x] /\ i <= j /\ i * w <= s * j
    BY <2>1
  <2>9. y * (j * b) = z * ((j - i) * a) /\ a <= b /\ (b - a) * w <= (m * s) * b
    BY <2>4, <2>5, <2>6, <2>7, <2>8
  <2>10. PICK e \in Nat : b = a + e
    <3>1. b - a \in Nat /\ b = a + (b - a)
      BY <2>9
    <3> QED BY <3>1
  <2>11. j * b \in Nat \ {0}
    OBVIOUS
  <2>12. y <= z
    <3>1. PICK h \in Nat : j = i + h
      <4>1. j - i \in Nat /\ j = i + (j - i)
        BY <2>8
      <4> QED BY <4>1
    <3>2. h * a <= j * b
      <4>1. h * a \in Nat /\ h * e \in Nat /\ i * b \in Nat /\ j * b = h * a + h * e + i * b
        BY <2>10, <3>1
      <4> QED BY <4>1
    <3>3. z * (h * a) <= z * (j * b)
      <4>1. h * a \in Nat
        OBVIOUS
      <4> QED BY <2>11, <3>2, <4>1, MultipliesUp
    <3>4. j - i = h
      BY <3>1
    <3>5. y * (j * b) <= z * (j * b)
      BY <2>9, <3>3, <3>4
    <3> QED BY <2>11, <3>5, FactorCancels
  <2>13. ((z - y) * w) * (j * b) <= (((m + 1) * s) * z) * (j * b)
    <3>1. ((z - y) * w) * (j * b) = z * (j * (e * w)) + z * ((i * w) * a)
      <4>1. ((z - y) * w) * (j * b) = (z * (j * b) - y * (j * b)) * w
        BY <2>11
      <4>2. ((z - y) * w) * (j * b) = (z * (j * b) - z * ((j - i) * a)) * w
        BY <2>9, <4>1
      <4>3. (z * (j * b) - z * ((j - i) * a)) * w = z * (j * (e * w)) + z * ((i * w) * a)
        BY <2>10
      <4> QED BY <4>2, <4>3
    <3>2. z * (j * (e * w)) <= z * (j * ((m * s) * b))
      <4>1. e * w <= (m * s) * b /\ e * w \in Nat /\ (m * s) * b \in Nat
        <5>1. b - a = e /\ m * s \in Nat
          BY <2>10
        <5> QED BY <2>9, <5>1
      <4>2. j * (e * w) <= j * ((m * s) * b) /\ j * (e * w) \in Nat /\ j * ((m * s) * b) \in Nat
        BY <4>1, MultipliesUp
      <4> QED BY <4>2, MultipliesUp
    <3>3. z * ((i * w) * a) <= z * ((s * j) * b)
      <4>1. a * (i * w) <= a * (s * j) /\ (s * j) * a <= (s * j) * b /\ i * w \in Nat /\ s * j \in Nat
        <5>1. i * w \in Nat /\ s * j \in Nat
          OBVIOUS
        <5> QED BY <2>8, <2>9, <5>1, MultipliesUp
      <4>2. (i * w) * a = a * (i * w) /\ (s * j) * a = a * (s * j)
        OBVIOUS
      <4>3. (i * w) * a \in Nat /\ (s * j) * b \in Nat /\ (s * j) * a \in Nat
        BY <4>1
      <4>4. (i * w) * a <= (s * j) * b
        BY <4>1, <4>2, <4>3
      <4> QED BY <4>3, <4>4, MultipliesUp
    <3>4. z * (j * ((m * s) * b)) + z * ((s * j) * b) = (((m + 1) * s) * z) * (j * b)
      OBVIOUS
    <3>5. /\ z * (j * (e * w)) \in Int /\ z * ((i * w) * a) \in Int
          /\ z * (j * ((m * s) * b)) \in Int /\ z * ((s * j) * b) \in Int
      OBVIOUS
    <3> QED BY <3>1, <3>2, <3>3, <3>4, <3>5
  <2>14. (z - y) * w <= ((m + 1) * s) * z
    <3>1. (z - y) * w \in Int /\ ((m + 1) * s) * z \in Int
      OBVIOUS
    <3> QED BY <2>11, <2>13, <3>1, FactorCancels
  <2> QED BY <1>2, <2>3, <2>7, <2>12, <2>14
<1>3. D \in P
  <2> HIDE DEF P
  <2>1. SUBSET D \subseteq P
    BY <1>1, <1>2, FoldInduction
  <2> QED BY <2>1
<1> QED BY <1>3

-----------------------------------------------------------------------------
(* Exact numbers *)

(* Euclid's algorithm ends.                                                *)
LEMMA GcdStepwise ==
  ASSUME NEW m \in Nat, NEW n \in Nat
  PROVE  Gcd[<<m, n>>] = IF n = 0 THEN m ELSE Gcd[<<n, m % n>>]
<1> DEFINE g == [p \in Nat \X Nat |-> CHOOSE d \in Greatest(p[1], p[2]) : TRUE]
           G(h) == [p \in Nat \X Nat |-> IF p[2] = 0 THEN p[1] ELSE h[<<p[2], p[1] % p[2]>>]]
<1>1. ASSUME NEW p \in Nat \X Nat
      PROVE  g[p] = IF p[2] = 0 THEN p[1] ELSE g[<<p[2], p[1] % p[2]>>]
  <2>1. CASE p[2] = 0
    <3>1. Greatest(p[1], p[2]) = {p[1]}
      BY <2>1, GreatestOfZero
    <3> QED BY <2>1, <3>1
  <2>2. CASE p[2] # 0
    <3>1. p[1] % p[2] \in Nat
      BY <2>2, DivisionSteps
    <3>2. Greatest(p[1], p[2]) = Greatest(p[2], p[1] % p[2])
      BY <2>2, EuclidsStep DEF Greatest
    <3> QED BY <2>2, <3>1, <3>2
  <2> QED BY <2>1, <2>2
<1>2. g = G(g)
  BY <1>1
<1> HIDE DEF g
<1>3. \E h : h = G(h)
  BY <1>2
<1>4. Gcd = CHOOSE h : h = G(h)
  BY DEF Gcd
<1>5. Gcd = G(Gcd)
  BY <1>3, <1>4
<1>6. G(Gcd)[<<m, n>>] = IF n = 0 THEN m ELSE Gcd[<<n, m % n>>]
  OBVIOUS
<1> QED BY <1>5, <1>6

(* The greatest common divisor divides both and is a combination of them.  *)
LEMMA GcdOfBoth ==
  \A m, n \in Nat :
    /\ Gcd[<<m, n>>] \in Nat
    /\ Divides(Gcd[<<m, n>>], m) /\ Divides(Gcd[<<m, n>>], n)
    /\ \E u, v \in Int : u * m + v * n = Gcd[<<m, n>>]
<1> DEFINE P(m, n) ==
             /\ Gcd[<<m, n>>] \in Nat
             /\ Divides(Gcd[<<m, n>>], m) /\ Divides(Gcd[<<m, n>>], n)
             /\ \E u, v \in Int : u * m + v * n = Gcd[<<m, n>>]
           S == {k \in Nat : \A m, n \in Nat : n <= k => P(m, n)}
<1>1. ASSUME NEW m \in Nat, NEW n \in Nat, n = 0 PROVE P(m, n)
  <2>1. Gcd[<<m, n>>] = m
    BY <1>1, GcdStepwise
  <2>2. m = m * 1 /\ 0 = m * 0 /\ 1 * m + 0 * n = m
    BY <1>1
  <2>3. Divides(m, m) /\ Divides(m, n)
    BY <1>1, <2>2 DEF Divides
  <2>4. \E u, v \in Int : u * m + v * n = m
    BY <2>2
  <2> QED BY <2>1, <2>3, <2>4
<1>2. ASSUME NEW m \in Nat, NEW n \in Nat, n # 0, P(n, m % n) PROVE P(m, n)
  <2> DEFINE q == m \div n
             r == m % n
             g == Gcd[<<n, r>>]
  <2>1. q \in Nat /\ r \in Nat /\ m = n * q + r
    <3>1. n \in Nat \ {0}
      BY <1>2
    <3> QED BY ONLY <3>1, m \in Nat, DivisionSteps
  <2>2. Gcd[<<m, n>>] = g
    BY <1>2, GcdStepwise
  <2>3. /\ g \in Nat /\ Divides(g, n) /\ Divides(g, r)
        /\ \E u, v \in Int : u * n + v * r = g
    BY <1>2
  <2> HIDE DEF q, r, g
  <2>4. PICK a \in Nat : n = g * a
    BY <2>3 DEF Divides
  <2>5. PICK b \in Nat : r = g * b
    BY <2>3 DEF Divides
  <2>6. Divides(g, m)
    <3>1. m = (g * a) * q + g * b
      BY <2>1, <2>4, <2>5
    <3>2. (g * a) * q = g * (a * q) /\ a * q \in Nat
      BY <2>1, <2>3, ProductsOfNats
    <3> DEFINE c == a * q
    <3>3. m = g * c + g * b /\ c \in Nat
      BY <3>1, <3>2
    <3> HIDE DEF c
    <3>4. m = g * (c + b) /\ c + b \in Nat
      BY <2>3, <3>3
    <3> QED BY <3>4 DEF Divides
  <2>7. PICK u \in Int, v \in Int : u * n + v * r = g
    BY <2>3
  <2>8. v * m + (u - v * q) * n = g
    <3>1. r = m - n * q
      BY <2>1
    <3>2. v * r = v * m - v * (n * q)
      BY <2>1, <3>1, ProductsOfNats
    <3>3. v * (n * q) = (v * q) * n
      BY <2>1, ProductsOfNats
    <3>4. (u - v * q) * n = u * n - (v * q) * n
      BY <2>1, ProductsOfNats
    <3>5. v * m \in Int /\ u * n \in Int /\ (v * q) * n \in Int /\ v * r \in Int
      BY <2>1, ProductsOfNats
    <3> QED BY <2>3, <2>7, <3>2, <3>3, <3>4, <3>5
  <2>9. v \in Int /\ u - v * q \in Int
    BY <2>1
  <2>10. \E x, y \in Int : x * m + y * n = g
    BY <2>8, <2>9
  <2> QED BY <2>2, <2>3, <2>6, <2>10
<1>3. 0 \in S
  <2> HIDE DEF P
  <2> SUFFICES ASSUME NEW m \in Nat, NEW n \in Nat, n <= 0 PROVE P(m, n)
    OBVIOUS
  <2>1. n = 0
    OBVIOUS
  <2> QED BY <1>1, <2>1
<1>4. ASSUME NEW k \in Nat, k \in S PROVE k + 1 \in S
  <2> HIDE DEF P
  <2> SUFFICES ASSUME NEW m \in Nat, NEW n \in Nat, n <= k + 1 PROVE P(m, n)
    OBVIOUS
  <2>1. CASE n = 0
    BY <1>1, <2>1
  <2>2. CASE n # 0
    <3>1. m % n \in Nat /\ m % n <= k
      BY <2>2, DivisionSteps
    <3>2. P(n, m % n)
      BY <1>4, <3>1
    <3> QED BY <1>2, <2>2, <3>2
  <2> QED BY <2>1, <2>2
<1>5. Nat \subseteq S
  <2> HIDE DEF S
  <2> QED BY <1>3, <1>4, Induction
<1> HIDE DEF P
<1>6. ASSUME NEW m \in Nat, NEW n \in Nat PROVE P(m, n)
  BY <1>5
<1> QED BY <1>6 DEF P

(* A ratio is in lowest terms.                                             *)
LEMMA RatioTerms ==
  ASSUME NEW n \in Nat, NEW d \in Nat, n # 0 \/ d # 0
  PROVE  /\ Ratio(n, d) = [n |-> Ratio(n, d).n, d |-> Ratio(n, d).d]
         /\ Ratio(n, d).n \in Nat /\ Ratio(n, d).d \in Nat
         /\ Coprime(Ratio(n, d).n, Ratio(n, d).d)
         /\ \E g \in Nat \ {0} : n = g * Ratio(n, d).n /\ d = g * Ratio(n, d).d
<1> DEFINE g == Gcd[<<n, d>>]
<1>1. /\ g \in Nat /\ Divides(g, n) /\ Divides(g, d)
      /\ \E u, v \in Int : u * n + v * d = g
  BY GcdOfBoth
<1>2. Ratio(n, d) = [n |-> n \div g, d |-> d \div g]
  BY DEF Ratio
<1> HIDE DEF g
<1>3. PICK a \in Nat : n = g * a
  BY <1>1 DEF Divides
<1>4. PICK b \in Nat : d = g * b
  BY <1>1 DEF Divides
<1>5. g # 0
  BY <1>3, <1>4
<1>6. \A c \in Nat : (g * c) \div g = c
  <2> SUFFICES ASSUME NEW c \in Nat PROVE (g * c) \div g = c
    OBVIOUS
  <2> QED BY <1>1, <1>5
<1>7. Ratio(n, d) = [n |-> a, d |-> b]
  BY <1>2, <1>3, <1>4, <1>6
<1>8. PICK u \in Int, v \in Int : u * n + v * d = g
  BY <1>1
<1>9. u * a + v * b = 1
  <2>1. u * n = g * (u * a) /\ v * d = g * (v * b)
    <3>1. u * (g * a) = g * (u * a) /\ v * (g * b) = g * (v * b)
      BY <1>1
    <3> QED BY <1>3, <1>4, <3>1
  <2> DEFINE x == u * a
             y == v * b
  <2>2. x \in Int /\ y \in Int /\ g * x + g * y = g
    BY <1>8, <2>1
  <2> HIDE DEF x, y
  <2>3. g * (x + y - 1) = 0
    BY <1>1, <2>2
  <2>4. x + y - 1 = 0
    <3>1. \A p \in Nat \ {0} : \A q \in Int : p * q = 0 => q = 0
      OBVIOUS
    <3> QED BY <1>1, <1>5, <2>2, <2>3, <3>1
  <2>5. x + y = 1
    BY <2>2, <2>4
  <2> QED BY <2>5 DEF x, y
<1>10. Coprime(a, b)
  BY <1>9 DEF Coprime
<1> QED BY <1>1, <1>3, <1>4, <1>5, <1>7, <1>10

(* Ratios are exact numbers, and every exact number is the ratio of its    *)
(* terms.                                                                  *)
LEMMA RatioIsExact ==
  ASSUME NEW n \in Nat, NEW d \in Nat, n # 0 \/ d # 0
  PROVE  Ratio(n, d) \in Exact
<1> DEFINE r == Ratio(n, d)
<1>1. r = [n |-> r.n, d |-> r.d] /\ r.n \in Nat /\ r.d \in Nat /\ Coprime(r.n, r.d)
  BY RatioTerms
<1> HIDE DEF r
<1>2. r \in Exact
  BY <1>1 DEF Exact
<1> QED BY <1>2 DEF r

LEMMA EqualRatios ==
  ASSUME NEW n \in Nat, NEW d \in Nat, n # 0 \/ d # 0, NEW a \in Exact, a.n * d = n * a.d
  PROVE  Ratio(n, d) = a
<1> DEFINE r == Ratio(n, d)
<1>1. PICK g \in Nat \ {0} : n = g * r.n /\ d = g * r.d
  BY RatioTerms
<1>2. r \in Exact /\ r.n \in Nat /\ r.d \in Nat
  BY RatioTerms, RatioIsExact
<1> HIDE DEF r
<1>3. a.n \in Nat /\ a.d \in Nat
  BY DEF Exact
<1>4. g * (a.n * r.d) = g * (r.n * a.d)
  <2>1. g * (a.n * r.d) = a.n * (g * r.d) /\ g * (r.n * a.d) = (g * r.n) * a.d
    BY <1>2, <1>3
  <2> QED BY <1>1, <2>1
<1>5. a.n * r.d = r.n * a.d
  <2>1. a.n * r.d \in Int /\ r.n * a.d \in Int
    BY <1>2, <1>3
  <2> HIDE DEF r
  <2> QED BY <1>4, <2>1, Cancelled
<1>6. r = a
  BY <1>2, <1>5, LowestTerms
<1> QED BY <1>6 DEF r

LEMMA RatioOfExact ==
  ASSUME NEW a \in Exact
  PROVE  Ratio(a.n, a.d) = a /\ a.n \in Nat /\ a.d \in Nat /\ (a.n # 0 \/ a.d # 0)
<1>1. a.n \in Nat /\ a.d \in Nat /\ Coprime(a.n, a.d)
  BY DEF Exact
<1>2. a.n # 0 \/ a.d # 0
  BY <1>1 DEF Coprime
<1> QED BY <1>1, <1>2, EqualRatios

(* A ratio with a finite value, as a number in lowest terms and a factor.  *)
LEMMA FiniteTerms ==
  ASSUME NEW n \in Nat, NEW d \in Nat \ {0}
  PROVE  \E g \in Nat \ {0}, a \in Nat, b \in Nat \ {0} :
           n = g * a /\ d = g * b /\ Ratio(n, d) = [n |-> a, d |-> b]
<1>1. PICK g \in Nat \ {0} : n = g * Ratio(n, d).n /\ d = g * Ratio(n, d).d
  BY RatioTerms
<1>2. /\ Ratio(n, d) = [n |-> Ratio(n, d).n, d |-> Ratio(n, d).d]
      /\ Ratio(n, d).n \in Nat /\ Ratio(n, d).d \in Nat
  BY RatioTerms
<1> DEFINE a == Ratio(n, d).n
           b == Ratio(n, d).d
<1>3. n = g * a /\ d = g * b /\ a \in Nat /\ b \in Nat /\ Ratio(n, d) = [n |-> a, d |-> b]
  BY <1>1, <1>2
<1> HIDE DEF a, b
<1>4. b # 0
  BY <1>1, <1>3
<1> QED BY <1>1, <1>3, <1>4

LEMMA FiniteRatio ==
  ASSUME NEW n \in Nat, NEW d \in Nat \ {0}
  PROVE  Ratio(n, d) # Infinity /\ Ratio(n, d) \in Exact /\ Ratio(n, d).d # 0
<1>1. PICK g \in Nat \ {0}, a \in Nat, b \in Nat \ {0} :
        n = g * a /\ d = g * b /\ Ratio(n, d) = [n |-> a, d |-> b]
  BY FiniteTerms
<1>2. Ratio(n, d).d = b /\ Infinity.d = 0
  BY <1>1 DEF Infinity
<1> QED BY <1>2, RatioIsExact

(* Ratios are equal if they are by cross-multiplication.                   *)
LEMMA RatiosEqual ==
  ASSUME NEW n \in Nat, NEW d \in Nat, n # 0 \/ d # 0,
         NEW m \in Nat, NEW e \in Nat, m # 0 \/ e # 0, n * e = m * d
  PROVE  Ratio(n, d) = Ratio(m, e)
<1> DEFINE r == Ratio(m, e)
<1>1. PICK g \in Nat \ {0} : m = g * r.n /\ e = g * r.d
  BY RatioTerms
<1>2. r \in Exact /\ r.n \in Nat /\ r.d \in Nat
  BY RatioTerms, RatioIsExact
<1> HIDE DEF r
<1>3. g * (r.n * d) = g * (n * r.d)
  <2>1. g * (r.n * d) = (g * r.n) * d /\ g * (n * r.d) = n * (g * r.d)
    BY <1>2
  <2> QED BY <1>1, <2>1
<1>4. r.n * d = n * r.d
  <2>1. r.n * d \in Int /\ n * r.d \in Int
    BY <1>2
  <2> QED BY <1>3, <2>1, Cancelled
<1>5. Ratio(n, d) = r
  BY <1>2, <1>4, EqualRatios
<1> QED BY <1>5 DEF r

(* Comparing, adding, multiplying and dividing ratios is what it is for    *)
(* fractions, whatever their terms have in common.                         *)
LEMMA AtMostRatios ==
  ASSUME NEW n \in Nat, NEW d \in Nat, n # 0 \/ d # 0,
         NEW m \in Nat, NEW e \in Nat, m # 0 \/ e # 0
  PROVE  AtMost(Ratio(n, d), Ratio(m, e)) <=> n * e <= m * d
<1> DEFINE r == Ratio(n, d)
           s == Ratio(m, e)
<1>1. PICK g \in Nat \ {0} : n = g * r.n /\ d = g * r.d
  BY RatioTerms
<1>2. PICK h \in Nat \ {0} : m = h * s.n /\ e = h * s.d
  BY RatioTerms
<1>3. r.n \in Nat /\ r.d \in Nat /\ s.n \in Nat /\ s.d \in Nat
  BY RatioTerms
<1>0. AtMost(r, s) <=> r.n * s.d <= s.n * r.d
  BY DEF AtMost
<1> HIDE DEF r, s
<1>4. n * e = (g * h) * (r.n * s.d) /\ m * d = (g * h) * (s.n * r.d)
  <2>1. /\ (g * r.n) * (h * s.d) = (g * h) * (r.n * s.d)
        /\ (h * s.n) * (g * r.d) = (g * h) * (s.n * r.d)
    BY <1>3
  <2> QED BY <1>1, <1>2, <2>1
<1>5. g * h \in Nat \ {0} /\ r.n * s.d \in Int /\ s.n * r.d \in Int
  BY <1>3
<1>6. n * e <= m * d <=> r.n * s.d <= s.n * r.d
  BY <1>4, <1>5, Cancelled
<1>7. AtMost(r, s) <=> n * e <= m * d
  BY <1>0, <1>6
<1> QED BY <1>7 DEF r, s

LEMMA PlusRatios ==
  ASSUME NEW n \in Nat, NEW d \in Nat \ {0}, NEW m \in Nat, NEW e \in Nat \ {0}
  PROVE  Plus(Ratio(n, d), Ratio(m, e)) = Ratio(n * e + m * d, d * e)
<1>1. PICK g \in Nat \ {0}, a \in Nat, b \in Nat \ {0} :
        n = g * a /\ d = g * b /\ Ratio(n, d) = [n |-> a, d |-> b]
  BY FiniteTerms
<1>2. PICK h \in Nat \ {0}, x \in Nat, y \in Nat \ {0} :
        m = h * x /\ e = h * y /\ Ratio(m, e) = [n |-> x, d |-> y]
  BY FiniteTerms
<1>3. Plus(Ratio(n, d), Ratio(m, e)) = Ratio(a * y + x * b, b * y)
  <2>1. Infinity \notin {Ratio(n, d), Ratio(m, e)}
    BY FiniteRatio
  <2> QED BY <1>1, <1>2, <2>1 DEF Plus
<1>4. /\ n * e = (g * h) * (a * y) /\ m * d = (g * h) * (x * b) /\ d * e = (g * h) * (b * y)
  <2>1. /\ (g * a) * (h * y) = (g * h) * (a * y) /\ (h * x) * (g * b) = (g * h) * (x * b)
        /\ (g * b) * (h * y) = (g * h) * (b * y)
    OBVIOUS
  <2> QED BY <1>1, <1>2, <2>1
<1> DEFINE k == g * h
           p == a * y + x * b
           q == b * y
<1>5. k \in Nat \ {0} /\ p \in Nat /\ q \in Nat \ {0}
  OBVIOUS
<1>6. n * e + m * d = k * p /\ d * e = k * q
  <2>1. k * (a * y) + k * (x * b) = k * p
    BY ProductsOfNats
  <2> QED BY <1>4, <2>1
<1> HIDE DEF k, p, q
<1>7. p * (k * q) = (k * p) * q /\ k * p \in Nat /\ k * q \in Nat /\ k * q # 0
  BY <1>5
<1>8. Ratio(p, q) = Ratio(k * p, k * q)
  BY <1>5, <1>7, RatiosEqual
<1> QED BY <1>3, <1>6, <1>8 DEF p, q

LEMMA TimesRatios ==
  ASSUME NEW n \in Nat, NEW d \in Nat, n # 0 \/ d # 0,
         NEW m \in Nat, NEW e \in Nat, m # 0 \/ e # 0, n * m # 0 \/ d * e # 0
  PROVE  Times(Ratio(n, d), Ratio(m, e)) = Ratio(n * m, d * e)
<1> DEFINE r == Ratio(n, d)
           s == Ratio(m, e)
<1>1. PICK g \in Nat \ {0} : n = g * r.n /\ d = g * r.d
  BY RatioTerms
<1>2. PICK h \in Nat \ {0} : m = h * s.n /\ e = h * s.d
  BY RatioTerms
<1>3. r.n \in Nat /\ r.d \in Nat /\ s.n \in Nat /\ s.d \in Nat
  BY RatioTerms
<1>0. Times(r, s) = Ratio(r.n * s.n, r.d * s.d)
  BY DEF Times
<1> HIDE DEF r, s
<1> DEFINE p == r.n * s.n
           q == r.d * s.d
           k == g * h
<1>4. n * m = k * p /\ d * e = k * q
  <2>1. /\ (g * r.n) * (h * s.n) = (g * h) * (r.n * s.n)
        /\ (g * r.d) * (h * s.d) = (g * h) * (r.d * s.d)
    BY <1>3
  <2> QED BY <1>1, <1>2, <2>1
<1>5. k \in Nat \ {0} /\ p \in Nat /\ q \in Nat
  BY <1>3
<1> HIDE DEF p, q, k
<1>6. p # 0 \/ q # 0
  BY <1>4, <1>5
<1>7. p * (k * q) = (k * p) * q /\ k * p \in Nat /\ k * q \in Nat
  BY <1>5
<1>8. Ratio(p, q) = Ratio(k * p, k * q)
  BY <1>4, <1>5, <1>6, <1>7, RatiosEqual
<1>9. Times(r, s) = Ratio(n * m, d * e)
  BY <1>0, <1>4, <1>8 DEF p, q
<1> QED BY <1>9 DEF r, s

LEMMA DividedRatios ==
  ASSUME NEW n \in Nat, NEW d \in Nat, n # 0 \/ d # 0,
         NEW m \in Nat, NEW e \in Nat, m # 0 \/ e # 0, n * e # 0 \/ d * m # 0
  PROVE  Divided(Ratio(n, d), Ratio(m, e)) = Ratio(n * e, d * m)
<1> DEFINE r == Ratio(n, d)
           s == Ratio(m, e)
<1>1. PICK g \in Nat \ {0} : n = g * r.n /\ d = g * r.d
  BY RatioTerms
<1>2. PICK h \in Nat \ {0} : m = h * s.n /\ e = h * s.d
  BY RatioTerms
<1>3. r.n \in Nat /\ r.d \in Nat /\ s.n \in Nat /\ s.d \in Nat
  BY RatioTerms
<1>0. Divided(r, s) = Ratio(r.n * s.d, r.d * s.n)
  BY DEF Divided
<1> HIDE DEF r, s
<1> DEFINE p == r.n * s.d
           q == r.d * s.n
           k == g * h
<1>4. n * e = k * p /\ d * m = k * q
  <2>1. /\ (g * r.n) * (h * s.d) = (g * h) * (r.n * s.d)
        /\ (g * r.d) * (h * s.n) = (g * h) * (r.d * s.n)
    BY <1>3
  <2> QED BY <1>1, <1>2, <2>1
<1>5. k \in Nat \ {0} /\ p \in Nat /\ q \in Nat
  BY <1>3
<1> HIDE DEF p, q, k
<1>6. p # 0 \/ q # 0
  BY <1>4, <1>5
<1>7. p * (k * q) = (k * p) * q /\ k * p \in Nat /\ k * q \in Nat
  BY <1>5
<1>8. Ratio(p, q) = Ratio(k * p, k * q)
  BY <1>4, <1>5, <1>6, <1>7, RatiosEqual
<1>9. Divided(r, s) = Ratio(n * e, d * m)
  BY <1>0, <1>4, <1>8 DEF p, q
<1> QED BY <1>9 DEF r, s

LEMMA SquareRootOfRatio ==
  ASSUME NEW n \in Nat, NEW d \in Nat, n # 0 \/ d # 0
  PROVE  SquareRoot(Ratio(n * n, d * d)) = Ratio(n, d)
<1> DEFINE r == Ratio(n, d)
<1>1. PICK g \in Nat \ {0} : n = g * r.n /\ d = g * r.d
  BY RatioTerms
<1>2. r = [n |-> r.n, d |-> r.d] /\ r.n \in Nat /\ r.d \in Nat /\ Coprime(r.n, r.d)
  BY RatioTerms
<1> HIDE DEF r
<1> DEFINE s == [n |-> r.n * r.n, d |-> r.d * r.d]
<1>3. s \in Exact
  BY <1>2, SquaresCoprime DEF Exact
<1>4. s.n * (d * d) = (n * n) * s.d
  <2>1. (r.n * r.n) * ((g * r.d) * (g * r.d)) = ((g * r.n) * (g * r.n)) * (r.d * r.d)
    BY <1>2
  <2> QED BY <1>1, <2>1
<1>5. n * n \in Nat /\ d * d \in Nat /\ (n * n # 0 \/ d * d # 0)
  OBVIOUS
<1>6. Ratio(n * n, d * d) = s
  <2> HIDE DEF s
  <2> QED BY <1>3, <1>4, <1>5, EqualRatios
<1>7. SquareRoot(s) = [n |-> r.n, d |-> r.d]
  <2>1. s.n = r.n * r.n /\ s.d = r.d * r.d
    OBVIOUS
  <2>2. /\ (CHOOSE x \in 0 .. r.n * r.n : x * x = r.n * r.n) = r.n
        /\ (CHOOSE x \in 0 .. r.d * r.d : x * x = r.d * r.d) = r.d
    BY <1>2, RootOfSquare
  <2> HIDE DEF s
  <2> QED BY <2>1, <2>2 DEF SquareRoot
<1> QED BY <1>2, <1>6, <1>7 DEF r

-----------------------------------------------------------------------------
(* Losses within claims *)

(* A loss within a claim, per unit of the distance of which `apart' is the *)
(* square.                                                                 *)
WithinClaim(measure, loss, claim, apart) ==
  \/ claim = Infinity
  \/ measure = "rho" /\ AtMost(loss, Times(claim, Whole(apart)))
  \/ measure # "rho" /\ AtMost(Squared(loss), Times(Squared(claim), Whole(apart)))

(* A finite exact number is a ratio.                                       *)
LEMMA ExactIsRatio ==
  ASSUME NEW a \in Exact, a # Infinity
  PROVE  a.n \in Nat /\ a.d \in Nat \ {0} /\ a = Ratio(a.n, a.d)
<1>1. a = [n |-> a.n, d |-> a.d] /\ a.n \in Nat /\ a.d \in Nat /\ Coprime(a.n, a.d)
  BY DEF Exact
<1>2. ASSUME a.d = 0 PROVE FALSE
  <2>1. PICK u \in Int, v \in Int : u * a.n + v * a.d = 1
    BY <1>1 DEF Coprime
  <2>2. u * a.n = 1
    BY <1>1, <1>2, <2>1
  <2>3. a.n = 1
    BY <1>1, <2>2
  <2> QED BY <1>1, <1>2, <2>3 DEF Infinity
<1> QED BY <1>1, <1>2, RatioOfExact

LEMMA ExactNumbers ==
  /\ Infinity \in Exact /\ Zero \in Exact /\ Zero = Ratio(0, 1) /\ Zero # Infinity
  /\ \A n \in Nat : Whole(n) = Ratio(n, 1) /\ Whole(n) \in Exact
<1>1. Coprime(1, 0)
  <2>1. 1 * 1 + 0 * 0 = 1
    OBVIOUS
  <2> QED BY <2>1 DEF Coprime
<1>2. Infinity \in Exact
  BY <1>1 DEF Exact, Infinity
<1>3. \A n \in Nat : Whole(n) = Ratio(n, 1) /\ Whole(n) \in Exact
  BY RatioIsExact DEF Whole
<1>4. Zero = Ratio(0, 1) /\ Zero # Infinity
  BY <1>3, FiniteRatio DEF Zero
<1> QED BY <1>2, <1>3, <1>4 DEF Zero

LEMMA PlusIsExact ==
  ASSUME NEW a \in Exact, NEW b \in Exact
  PROVE  Plus(a, b) \in Exact
<1>1. CASE Infinity \in {a, b}
  BY <1>1, ExactNumbers DEF Plus
<1>2. CASE Infinity \notin {a, b}
  <2>1. /\ a.n \in Nat /\ a.d \in Nat \ {0} /\ b.n \in Nat /\ b.d \in Nat \ {0}
    BY <1>2, ExactIsRatio
  <2>2. a.n * b.d + b.n * a.d \in Nat /\ a.d * b.d \in Nat \ {0}
    <3>1. \A n, m \in Nat, d, e \in Nat \ {0} : n * e + m * d \in Nat /\ d * e \in Nat \ {0}
      <4> SUFFICES ASSUME NEW n \in Nat, NEW m \in Nat, NEW d \in Nat \ {0}, NEW e \in Nat \ {0}
                   PROVE  n * e + m * d \in Nat /\ d * e \in Nat \ {0}
        OBVIOUS
      <4>1. n * e \in Nat /\ m * d \in Nat /\ d * e \in Nat
        OBVIOUS
      <4>2. d * e # 0
        OBVIOUS
      <4> QED BY <4>1, <4>2
    <3> QED BY <2>1, <3>1
  <2>3. Plus(a, b) = Ratio(a.n * b.d + b.n * a.d, a.d * b.d)
    BY <1>2 DEF Plus
  <2> QED BY <2>2, <2>3, RatioIsExact
<1> QED BY <1>1, <1>2

(* What is within a finite bound is finite.                                *)
LEMMA WithinFinite ==
  ASSUME NEW n \in Nat, NEW d \in Nat \ {0}
  PROVE  ~ AtMost(Infinity, Ratio(n, d)) /\ Squared(Infinity) = Infinity
<1>1. Infinity = Ratio(1, 0)
  <2>1. Infinity \in Exact /\ Infinity.n = 1 /\ Infinity.d = 0
    BY ExactNumbers DEF Infinity
  <2> QED BY <2>1, RatioOfExact
<1>2. AtMost(Ratio(1, 0), Ratio(n, d)) <=> 1 * d <= n * 0
  BY AtMostRatios
<1>3. Times(Ratio(1, 0), Ratio(1, 0)) = Ratio(1 * 1, 0 * 0)
  BY TimesRatios
<1> QED BY <1>1, <1>2, <1>3 DEF Squared

(* The same by whole numbers.                                              *)
LEMMA WithinByRatios ==
  ASSUME NEW measure, NEW l \in Nat, NEW k \in Nat \ {0}, NEW c \in Nat, NEW j \in Nat \ {0},
         NEW A \in Nat
  PROVE  WithinClaim(measure, Ratio(l, k), Ratio(c, j), A)
           <=> IF measure = "rho" THEN l * j <= (c * k) * A
               ELSE (l * j) * (l * j) <= ((c * k) * (c * k)) * A
<1>0. Ratio(c, j) # Infinity /\ Whole(A) = Ratio(A, 1)
  BY FiniteRatio, ExactNumbers
<1>1. AtMost(Ratio(l, k), Times(Ratio(c, j), Whole(A))) <=> l * j <= (c * k) * A
  <2>1. Times(Ratio(c, j), Ratio(A, 1)) = Ratio(c * A, j * 1)
    BY TimesRatios
  <2>2. c * A \in Nat /\ j * 1 = j
    OBVIOUS
  <2>3. AtMost(Ratio(l, k), Ratio(c * A, j)) <=> l * j <= (c * A) * k
    BY <2>2, AtMostRatios
  <2>4. (c * A) * k = (c * k) * A
    OBVIOUS
  <2> QED BY <1>0, <2>1, <2>2, <2>3, <2>4
<1>2. AtMost(Squared(Ratio(l, k)), Times(Squared(Ratio(c, j)), Whole(A)))
        <=> (l * j) * (l * j) <= ((c * k) * (c * k)) * A
  <2>1. Squared(Ratio(l, k)) = Ratio(l * l, k * k) /\ Squared(Ratio(c, j)) = Ratio(c * c, j * j)
    BY TimesRatios DEF Squared
  <2>2. /\ l * l \in Nat /\ k * k \in Nat \ {0} /\ c * c \in Nat /\ j * j \in Nat \ {0}
        /\ (j * j) * 1 = j * j
    OBVIOUS
  <2>3. Times(Ratio(c * c, j * j), Ratio(A, 1)) = Ratio((c * c) * A, (j * j) * 1)
    BY <2>2, TimesRatios
  <2>4. (c * c) * A \in Nat
    BY <2>2
  <2>5. AtMost(Ratio(l * l, k * k), Ratio((c * c) * A, j * j))
          <=> (l * l) * (j * j) <= ((c * c) * A) * (k * k)
    BY <2>2, <2>4, AtMostRatios
  <2>6. /\ (l * l) * (j * j) = (l * j) * (l * j)
        /\ ((c * c) * A) * (k * k) = ((c * k) * (c * k)) * A
    OBVIOUS
  <2> QED BY <1>0, <2>1, <2>2, <2>3, <2>5, <2>6
<1> QED BY <1>0, <1>1, <1>2 DEF WithinClaim

(* A loss within a finite claim is finite.                                 *)
LEMMA LossIsFinite ==
  ASSUME NEW measure, NEW a \in Exact, NEW c \in Exact, c # Infinity, NEW A \in Nat,
         WithinClaim(measure, a, c, A)
  PROVE  a # Infinity
<1> SUFFICES ASSUME a = Infinity PROVE FALSE
  OBVIOUS
<1>1. PICK n \in Nat, d \in Nat \ {0} : c = Ratio(n, d)
  BY ExactIsRatio
<1>2. Whole(A) = Ratio(A, 1)
  BY ExactNumbers
<1>3. CASE measure = "rho"
  <2>1. Times(c, Whole(A)) = Ratio(n * A, d * 1)
    BY <1>1, <1>2, TimesRatios
  <2>2. n * A \in Nat /\ d * 1 = d
    OBVIOUS
  <2>3. ~ AtMost(Infinity, Times(c, Whole(A)))
    BY <2>1, <2>2, WithinFinite
  <2> QED BY <1>3, <2>3 DEF WithinClaim
<1>4. CASE measure # "rho"
  <2>1. Squared(c) = Ratio(n * n, d * d)
    BY <1>1, TimesRatios DEF Squared
  <2>2. n * n \in Nat /\ d * d \in Nat \ {0} /\ (d * d) * 1 = d * d
    OBVIOUS
  <2>3. Times(Squared(c), Whole(A)) = Ratio((n * n) * A, (d * d) * 1)
    BY <1>2, <2>1, <2>2, TimesRatios
  <2>4. (n * n) * A \in Nat
    BY <2>2
  <2>5. ~ AtMost(Infinity, Times(Squared(c), Whole(A))) /\ Squared(Infinity) = Infinity
    BY <2>2, <2>3, <2>4, WithinFinite
  <2> QED BY <1>4, <2>5 DEF WithinClaim
<1> QED BY <1>3, <1>4

(* What is lost by two measurements of the same input is within what they  *)
(* claim together.                                                         *)
LEMMA WithinAddsUp ==
  ASSUME NEW measure, NEW A \in Nat, NEW a \in Exact, NEW c \in Exact, NEW b \in Exact,
         NEW e \in Exact, WithinClaim(measure, a, c, A), WithinClaim(measure, b, e, A)
  PROVE  WithinClaim(measure, Plus(a, b), Plus(c, e), A)
<1>1. CASE c = Infinity \/ e = Infinity
  <2>1. Plus(c, e) = Infinity
    BY <1>1 DEF Plus
  <2> QED BY <2>1 DEF WithinClaim
<1>2. CASE c # Infinity /\ e # Infinity
  <2>1. a # Infinity /\ b # Infinity
    BY <1>2, LossIsFinite
  <2>2. PICK l \in Nat, k \in Nat \ {0} : a = Ratio(l, k)
    BY <2>1, ExactIsRatio
  <2>3. PICK m \in Nat, n \in Nat \ {0} : b = Ratio(m, n)
    BY <2>1, ExactIsRatio
  <2>4. PICK u \in Nat, j \in Nat \ {0} : c = Ratio(u, j)
    BY <1>2, ExactIsRatio
  <2>5. PICK v \in Nat, i \in Nat \ {0} : e = Ratio(v, i)
    BY <1>2, ExactIsRatio
  <2>6. Plus(a, b) = Ratio(l * n + m * k, k * n) /\ Plus(c, e) = Ratio(u * i + v * j, j * i)
    BY <2>2, <2>3, <2>4, <2>5, PlusRatios
  <2> DEFINE x == l * j
             y == u * k
             z == m * i
             w == v * n
             p == n * i
             q == k * j
             L == l * n + m * k
             K == k * n
             C == u * i + v * j
             J == j * i
  <2>7. /\ x \in Nat /\ y \in Nat /\ z \in Nat /\ w \in Nat /\ p \in Nat /\ q \in Nat
        /\ L \in Nat /\ K \in Nat \ {0} /\ C \in Nat /\ J \in Nat \ {0}
    <3>1. l * n \in Nat /\ m * k \in Nat /\ u * i \in Nat /\ v * j \in Nat
      OBVIOUS
    <3>2. K \in Nat \ {0} /\ J \in Nat \ {0}
      OBVIOUS
    <3> QED BY <3>1, <3>2
  <2>8. L * J = p * x + q * z
    OBVIOUS
  <2>9. C * K = p * y + q * w
    OBVIOUS
  <2>10. WithinClaim(measure, a, c, A)
           <=> IF measure = "rho" THEN x <= y * A ELSE x * x <= (y * y) * A
    BY <2>2, <2>4, WithinByRatios
  <2>11. WithinClaim(measure, b, e, A)
           <=> IF measure = "rho" THEN z <= w * A ELSE z * z <= (w * w) * A
    BY <2>3, <2>5, WithinByRatios
  <2> HIDE DEF x, y, z, w, p, q, L, K, C, J
  <2>12. WithinClaim(measure, Ratio(L, K), Ratio(C, J), A)
           <=> IF measure = "rho" THEN L * J <= (C * K) * A
               ELSE (L * J) * (L * J) <= ((C * K) * (C * K)) * A
    BY <2>7, WithinByRatios
  <2>13. CASE measure = "rho"
    <3>1. x <= y * A /\ z <= w * A /\ y * A \in Nat /\ w * A \in Nat
      BY <2>7, <2>10, <2>11, <2>13
    <3>2. /\ p * x <= p * (y * A) /\ p * x \in Nat /\ p * (y * A) \in Nat
          /\ q * z <= q * (w * A) /\ q * z \in Nat /\ q * (w * A) \in Nat
      BY <2>7, <3>1, MultipliesUp
    <3>3. (p * y + q * w) * A = p * (y * A) + q * (w * A)
      BY <2>7
    <3>4. L * J <= (C * K) * A
      BY <2>8, <2>9, <3>2, <3>3
    <3> QED BY <2>6, <2>12, <2>13, <3>4 DEF L, K, C, J
  <2>14. CASE measure # "rho"
    <3>1. x * x <= (y * y) * A /\ z * z <= (w * w) * A
      BY <2>10, <2>11, <2>14
    <3>2. (p * x + q * z) * (p * x + q * z) <= ((p * y + q * w) * (p * y + q * w)) * A
      BY <2>7, <3>1, RootsAddUp
    <3> QED BY <2>6, <2>8, <2>9, <2>12, <2>14, <3>2 DEF L, K, C, J
  <2> QED BY <2>13, <2>14
<1> QED BY <1>1, <1>2

LEMMA NoLossWithinNothing ==
  ASSUME NEW measure, NEW A \in Nat
  PROVE  WithinClaim(measure, Zero, Zero, A)
<1>1. Zero = Ratio(0, 1)
  BY ExactNumbers
<1>2. 0 * 1 = 0 /\ (0 * 1) * (0 * 1) = 0 /\ (0 * 1) * A = 0 /\ ((0 * 1) * (0 * 1)) * A = 0
  OBVIOUS
<1> QED BY <1>1, <1>2, WithinByRatios

(* Half of the square, as zCDP of pure differential privacy.               *)
LEMMA HalfOfSquare ==
  ASSUME NEW a \in Exact
  PROVE  /\ Divided(Squared(a), Whole(2)) \in Exact
         /\ a = Infinity => Divided(Squared(a), Whole(2)) = Infinity
         /\ \A n \in Nat, d \in Nat \ {0} :
              a = Ratio(n, d) => Divided(Squared(a), Whole(2)) = Ratio(n * n, (d * d) * 2)
<1>1. Whole(2) = Ratio(2, 1)
  BY ExactNumbers
<1>2. ASSUME NEW n \in Nat, NEW d \in Nat \ {0}, a = Ratio(n, d)
      PROVE  Divided(Squared(a), Whole(2)) = Ratio(n * n, (d * d) * 2)
  <2>1. n * n \in Nat /\ d * d \in Nat \ {0}
    OBVIOUS
  <2>2. (n * n) * 1 = n * n /\ (d * d) * 2 # 0
    BY <2>1
  <2>3. Squared(a) = Ratio(n * n, d * d)
    BY <1>2, TimesRatios DEF Squared
  <2>4. Divided(Ratio(n * n, d * d), Ratio(2, 1)) = Ratio((n * n) * 1, (d * d) * 2)
    BY <2>1, <2>2, DividedRatios
  <2> QED BY <1>1, <2>2, <2>3, <2>4
<1>3. CASE a = Infinity
  <2>1. Infinity = Ratio(1, 0)
    <3>1. Infinity \in Exact /\ Infinity.n = 1 /\ Infinity.d = 0
      BY ExactNumbers DEF Infinity
    <3> QED BY <3>1, RatioOfExact
  <2>2. Squared(a) = Infinity
    BY <1>3, WithinFinite
  <2>3. Divided(Ratio(1, 0), Ratio(2, 1)) = Ratio(1 * 1, 0 * 2)
    BY DividedRatios
  <2>4. Divided(Squared(a), Whole(2)) = Infinity
    BY <1>1, <2>1, <2>2, <2>3
  <2> QED BY <1>2, <2>4, ExactNumbers
<1>4. CASE a # Infinity
  <2>1. PICK n \in Nat, d \in Nat \ {0} : a = Ratio(n, d)
    BY <1>4, ExactIsRatio
  <2>2. n * n \in Nat /\ (d * d) * 2 \in Nat \ {0}
    <3>1. d * d \in Nat \ {0}
      OBVIOUS
    <3> QED BY <3>1
  <2>3. Ratio(n * n, (d * d) * 2) \in Exact
    BY <2>2, FiniteRatio
  <2> QED BY <1>2, <1>4, <2>1, <2>3
<1> QED BY <1>3, <1>4

LEMMA HalvesOfSquaresWithin ==
  ASSUME NEW A \in Nat, NEW a \in Exact, NEW c \in Exact, WithinClaim("pure", a, c, A)
  PROVE  WithinClaim("rho", Divided(Squared(a), Whole(2)), Divided(Squared(c), Whole(2)), A)
<1>1. CASE c = Infinity
  BY <1>1, HalfOfSquare DEF WithinClaim
<1>2. CASE c # Infinity
  <2>1. a # Infinity
    BY <1>2, LossIsFinite
  <2>2. PICK l \in Nat, k \in Nat \ {0} : a = Ratio(l, k)
    BY <2>1, ExactIsRatio
  <2>3. PICK u \in Nat, j \in Nat \ {0} : c = Ratio(u, j)
    BY <1>2, ExactIsRatio
  <2>4. (l * j) * (l * j) <= ((u * k) * (u * k)) * A
    BY <2>2, <2>3, WithinByRatios
  <2>5. /\ l * l \in Nat /\ (k * k) * 2 \in Nat \ {0} /\ u * u \in Nat /\ (j * j) * 2 \in Nat \ {0}
    <3>1. k * k \in Nat \ {0} /\ j * j \in Nat \ {0}
      OBVIOUS
    <3> QED BY <3>1
  <2>6. (l * l) * ((j * j) * 2) = 2 * ((l * j) * (l * j))
    OBVIOUS
  <2>7. ((u * u) * ((k * k) * 2)) * A = 2 * (((u * k) * (u * k)) * A)
    OBVIOUS
  <2>8. (l * j) * (l * j) \in Nat /\ ((u * k) * (u * k)) * A \in Nat
    <3>1. l * j \in Nat /\ u * k \in Nat
      OBVIOUS
    <3>2. (u * k) * (u * k) \in Nat
      BY <3>1
    <3> QED BY <3>1, <3>2
  <2>9. (l * l) * ((j * j) * 2) <= ((u * u) * ((k * k) * 2)) * A
    BY <2>4, <2>6, <2>7, <2>8
  <2>10. WithinClaim("rho", Ratio(l * l, (k * k) * 2), Ratio(u * u, (j * j) * 2), A)
    BY <2>5, <2>9, WithinByRatios
  <2>11. /\ Divided(Squared(a), Whole(2)) = Ratio(l * l, (k * k) * 2)
         /\ Divided(Squared(c), Whole(2)) = Ratio(u * u, (j * j) * 2)
    BY <2>2, <2>3, HalfOfSquare
  <2> QED BY <2>10, <2>11
<1> QED BY <1>1, <1>2

(* The terms of a whole number, and of the root of its square.             *)
LEMMA WholeTerms ==
  ASSUME NEW n \in Nat
  PROVE  /\ Whole(n).n = n /\ Whole(n).d = 1
         /\ SquareRoot(Whole(n * n)).n = n
<1>1. Whole(n) = Ratio(n, 1) /\ Whole(n * n) = Ratio(n * n, 1 * 1)
  BY ExactNumbers
<1>2. PICK g \in Nat \ {0}, a \in Nat, b \in Nat \ {0} :
        n = g * a /\ 1 = g * b /\ Ratio(n, 1) = [n |-> a, d |-> b]
  <2>1. PICK e \in Nat \ {0} : e = 1
    OBVIOUS
  <2>2. \E g \in Nat \ {0}, a \in Nat, b \in Nat \ {0} :
          n = g * a /\ e = g * b /\ Ratio(n, e) = [n |-> a, d |-> b]
    BY FiniteTerms
  <2> QED BY <2>1, <2>2
<1>3. g = 1 /\ b = 1 /\ a = n
  <2>1. g * b = 1 /\ g <= g * b /\ b <= g * b
    BY <1>2
  <2>2. g = 1 /\ b = 1
    BY <2>1
  <2> QED BY <1>2, <2>2
<1>4. SquareRoot(Ratio(n * n, 1 * 1)) = Ratio(n, 1)
  BY SquareRootOfRatio
<1> QED BY <1>1, <1>2, <1>3, <1>4

(* A chance that is no more than another.                                  *)
ChanceWithin(p, q) == p \in Exact /\ q \in Exact /\ WithinClaim("rho", p, q, 1)

LEMMA ChanceWithinRatios ==
  ASSUME NEW n \in Nat, NEW d \in Nat \ {0}, NEW m \in Nat, NEW e \in Nat \ {0}
  PROVE  ChanceWithin(Ratio(n, d), Ratio(m, e)) <=> n * e <= m * d
<1>1. WithinClaim("rho", Ratio(n, d), Ratio(m, e), 1) <=> n * e <= (m * d) * 1
  BY WithinByRatios
<1>2. Ratio(n, d) \in Exact /\ Ratio(m, e) \in Exact
  BY FiniteRatio
<1>3. (m * d) * 1 = m * d
  OBVIOUS
<1> QED BY <1>1, <1>2, <1>3 DEF ChanceWithin

LEMMA NothingWithinNothing == ChanceWithin(Zero, Zero)
BY ExactNumbers, NoLossWithinNothing DEF ChanceWithin

LEMMA ChanceReflexive ==
  ASSUME NEW q \in Exact
  PROVE  ChanceWithin(q, q)
<1>1. CASE q = Infinity
  BY <1>1 DEF ChanceWithin, WithinClaim
<1>2. CASE q # Infinity
  <2>1. PICK n \in Nat, d \in Nat \ {0} : q = Ratio(n, d)
    BY <1>2, ExactIsRatio
  <2> QED BY <2>1, ChanceWithinRatios
<1> QED BY <1>1, <1>2

LEMMA ChanceAtMost ==
  ASSUME NEW p, NEW q, ChanceWithin(p, q)
  PROVE  AtMost(p, q)
<1>1. p \in Exact /\ q \in Exact /\ p.n \in Nat /\ p.d \in Nat
  BY DEF ChanceWithin, Exact
<1>2. CASE q = Infinity
  BY <1>1, <1>2 DEF AtMost, Infinity
<1>3. CASE q # Infinity
  <2>1. PICK n \in Nat, d \in Nat \ {0} : q = Ratio(n, d)
    BY <1>1, <1>3, ExactIsRatio
  <2>2. AtMost(p, Times(q, Whole(1)))
    BY <1>3 DEF ChanceWithin, WithinClaim
  <2>3. Times(Ratio(n, d), Ratio(1, 1)) = Ratio(n * 1, d * 1)
    BY TimesRatios
  <2>4. n * 1 = n /\ d * 1 = d
    OBVIOUS
  <2> QED BY <2>1, <2>2, <2>3, <2>4, ExactNumbers
<1> QED BY <1>2, <1>3

-----------------------------------------------------------------------------
(* Sums and products of exact numbers *)

(* The numbers a module's constants are given as.                          *)
LEMMA NumbersAreExact ==
  ASSUME NEW a, IsNumber(a)
  PROVE  a \in Exact
<1>1. a.n \in Nat /\ a.d \in Nat /\ (a.n # 0 \/ a.d # 0) /\ a = Ratio(a.n, a.d)
  BY DEF IsNumber
<1>2. Ratio(a.n, a.d) \in Exact
  BY <1>1, RatioIsExact
<1> QED BY <1>1, <1>2

(* The sum of the exact numbers f over D, element by element.              *)
Sums(it, f, D) ==
  /\ it[{}] = Zero
  /\ \A s \in SUBSET D : /\ it[s] \in Exact
                         /\ s # {} => /\ FoldedFirst(s) \in s
                                      /\ it[s] = Plus(f[FoldedFirst(s)], it[s \ {FoldedFirst(s)}])

LEMMA PlusStepwise ==
  ASSUME NEW D, IsFiniteSet(D), NEW f, \A x \in D : f[x] \in Exact
  PROVE  \E it : Sums(it, f, D) /\ it[D] = FoldFunctionOnSet(Plus, Zero, f, D)
<1> DEFINE op == [p \in D \X Exact |-> Plus(f[p[1]], p[2])]
           Def(it) == [s \in SUBSET D |->
                         IF s = {} THEN Zero
                         ELSE Plus(f[CHOOSE x \in s : TRUE], it[s \ {CHOOSE x \in s : TRUE}])]
           iter == CHOOSE it : it = Def(it)
<1>1. \A s \in SUBSET D : s # {} => FoldedFirst(s) \in s
  BY DEF FoldedFirst
<1>2. op \in [D \X Exact -> Exact] /\ Zero \in Exact
  BY PlusIsExact, ExactNumbers
<1>3. PICK g \in [SUBSET D -> Exact] :
        \A s \in SUBSET D : g[s] = FoldStep(op, Zero, g, s)
  <2> HIDE DEF op
  <2>1. \E g : IsFold(g, D, Exact, op, Zero)
    BY <1>2, FoldExists
  <2> QED BY <2>1 DEF IsFold
<1>4. g = Def(g)
  <2>1. ASSUME NEW s \in SUBSET D, s # {}
        PROVE  g[s] = Plus(f[FoldedFirst(s)], g[s \ {FoldedFirst(s)}])
    BY <1>1, <1>3, <2>1 DEF FoldStep
  <2>2. g[{}] = Zero
    BY <1>3 DEF FoldStep
  <2> QED BY <2>1, <2>2 DEF FoldedFirst
<1>5. iter = Def(iter)
  <2> HIDE DEF Def
  <2> QED BY <1>4
<1>6. FoldFunctionOnSet(Plus, Zero, f, D) = iter[D]
  BY DEF FoldFunctionOnSet, MapThenFoldSet
<1> HIDE DEF iter
<1>7. /\ iter[{}] = Zero
      /\ \A s \in SUBSET D : s # {} => iter[s] = Plus(f[FoldedFirst(s)], iter[s \ {FoldedFirst(s)}])
  BY <1>5 DEF FoldedFirst
<1> DEFINE P == {s \in SUBSET D : iter[s] \in Exact}
<1>8. {} \in P
  BY <1>2, <1>7
<1>9. ASSUME NEW s \in SUBSET D, s # {}, s \ {FoldedFirst(s)} \in P
      PROVE  s \in P
  <2>1. f[FoldedFirst(s)] \in Exact /\ iter[s \ {FoldedFirst(s)}] \in Exact
    BY <1>1, <1>9
  <2>2. iter[s] \in Exact
    BY <1>7, <1>9, <2>1, PlusIsExact
  <2> QED BY <2>2
<1>10. SUBSET D \subseteq P
  <2> HIDE DEF P
  <2> QED BY <1>8, <1>9, FoldInduction
<1> QED BY <1>1, <1>6, <1>7, <1>10 DEF Sums

(* The product of the exact numbers f over D, element by element.          *)
LEMMA TimesStepwise ==
  ASSUME NEW D, IsFiniteSet(D), NEW f, \A x \in D : f[x] \in Exact /\ f[x] # Infinity
  PROVE  \E it : /\ it[{}] = Whole(1)
                 /\ \A s \in SUBSET D :
                      /\ it[s] \in Exact /\ it[s] # Infinity
                      /\ s # {} => /\ FoldedFirst(s) \in s
                                   /\ it[s] = Times(f[FoldedFirst(s)], it[s \ {FoldedFirst(s)}])
                 /\ it[D] = FoldFunctionOnSet(Times, Whole(1), f, D)
<1> DEFINE B == Exact \ {Infinity}
           op == [p \in D \X B |-> Times(f[p[1]], p[2])]
           Def(it) == [s \in SUBSET D |->
                         IF s = {} THEN Whole(1)
                         ELSE Times(f[CHOOSE x \in s : TRUE], it[s \ {CHOOSE x \in s : TRUE}])]
           iter == CHOOSE it : it = Def(it)
<1>1. \A s \in SUBSET D : s # {} => FoldedFirst(s) \in s
  BY DEF FoldedFirst
<1>2. /\ Whole(1) \in B
      /\ \A a, b \in B : Times(a, b) \in B
  <2>1. Whole(1) \in B
    BY ExactNumbers, FiniteRatio
  <2>2. ASSUME NEW a \in B, NEW b \in B PROVE Times(a, b) \in B
    <3>1. PICK i \in Nat, j \in Nat \ {0} : a = Ratio(i, j)
      BY ExactIsRatio
    <3>2. PICK m \in Nat, n \in Nat \ {0} : b = Ratio(m, n)
      BY ExactIsRatio
    <3>3. j * n \in Nat \ {0} /\ i * m \in Nat
      OBVIOUS
    <3>4. Times(a, b) = Ratio(i * m, j * n)
      BY <3>1, <3>2, <3>3, TimesRatios
    <3> QED BY <3>3, <3>4, FiniteRatio
  <2> QED BY <2>1, <2>2
<1>3. PICK g \in [SUBSET D -> B] : \A s \in SUBSET D : g[s] = FoldStep(op, Whole(1), g, s)
  <2>1. op \in [D \X B -> B]
    BY <1>2
  <2> HIDE DEF op, B
  <2>2. \E g : IsFold(g, D, B, op, Whole(1))
    BY <1>2, <2>1, FoldExists
  <2> QED BY <2>2 DEF IsFold
<1> HIDE DEF B
<1>4. g = Def(g)
  <2>1. ASSUME NEW s \in SUBSET D, s # {}
        PROVE  g[s] = Times(f[FoldedFirst(s)], g[s \ {FoldedFirst(s)}])
    BY <1>1, <1>3, <2>1 DEF FoldStep
  <2>2. g[{}] = Whole(1)
    BY <1>3 DEF FoldStep
  <2> QED BY <2>1, <2>2 DEF FoldedFirst
<1>5. iter = Def(iter)
  <2> HIDE DEF Def
  <2> QED BY <1>4
<1>6. FoldFunctionOnSet(Times, Whole(1), f, D) = iter[D]
  BY DEF FoldFunctionOnSet, MapThenFoldSet
<1> HIDE DEF iter
<1>7. /\ iter[{}] = Whole(1)
      /\ \A s \in SUBSET D : s # {} => iter[s] = Times(f[FoldedFirst(s)], iter[s \ {FoldedFirst(s)}])
  BY <1>5 DEF FoldedFirst
<1> DEFINE P == {s \in SUBSET D : iter[s] \in B}
<1>8. {} \in P
  BY <1>2, <1>7
<1>9. ASSUME NEW s \in SUBSET D, s # {}, s \ {FoldedFirst(s)} \in P
      PROVE  s \in P
  <2>1. f[FoldedFirst(s)] \in B /\ iter[s \ {FoldedFirst(s)}] \in B
    BY <1>1, <1>9 DEF B
  <2>2. iter[s] \in B
    BY <1>2, <1>7, <1>9, <2>1
  <2> QED BY <2>2
<1>10. SUBSET D \subseteq P
  <2> HIDE DEF P
  <2> QED BY <1>8, <1>9, FoldInduction
<1> QED BY <1>1, <1>6, <1>7, <1>10 DEF B
=============================================================================
