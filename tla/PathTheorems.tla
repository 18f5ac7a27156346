----------------------------- MODULE PathTheorems -----------------------------
(***************************************************************************)
(* Facts about the names of queryables that the proofs of the other        *)
(* modules rest on.                                                        *)
(***************************************************************************)
EXTENDS Paths, SequenceTheorems, TLAPS

(* A path is a sequence of at most MaxDepth answer numbers.                *)
LEMMA PathType ==
  ASSUME NEW x \in Path
  PROVE  /\ x \in Seq(1 .. MaxFan)
         /\ Len(x) \in 0 .. MaxDepth
         /\ Len(x) \in Nat
         /\ DOMAIN x = 1 .. Len(x)
         /\ \A i \in 1 .. Len(x) : x[i] \in 1 .. MaxFan
<1> USE DepthAssumption, FanAssumption
<1>1. PICK n \in 0 .. MaxDepth : x \in [1 .. n -> 1 .. MaxFan]
  BY DEF Path
<1>2. x \in Seq(1 .. MaxFan) /\ Len(x) = n
  BY <1>1
<1> QED BY <1>1, <1>2

LEMMA RootInPath == Root \in Path
  BY DepthAssumption, FanAssumption DEF Root, Path

(* The n-th answer of p extends p by n.                                    *)
LEMMA AppendPath ==
  ASSUME NEW p \in Path, NEW n, Append(p, n) \in Path
  PROVE  /\ Len(Append(p, n)) = Len(p) + 1
         /\ n \in 1 .. MaxFan
         /\ Append(p, n)[Len(p) + 1] = n
         /\ \A i \in 1 .. Len(p) : Append(p, n)[i] = p[i]
<1>1. p \in Seq(1 .. MaxFan \union {n})
  BY PathType
<1>2. Len(p) \in Nat
  BY PathType
<1>3. Len(Append(p, n)) = Len(p) + 1
  BY <1>1, SMT
<1>4. /\ Append(p, n)[Len(p) + 1] = n
      /\ \A i \in 1 .. Len(p) : Append(p, n)[i] = p[i]
  BY <1>1, <1>2, SMT
<1>5. \A i \in 1 .. Len(Append(p, n)) : Append(p, n)[i] \in 1 .. MaxFan
  BY PathType
<1>6. n \in 1 .. MaxFan
  BY <1>2, <1>3, <1>4, <1>5
<1> QED BY <1>3, <1>4, <1>6

LEMMA AnswerInPath ==
  ASSUME NEW p \in Path, Len(p) < MaxDepth, NEW n \in 1 .. MaxFan
  PROVE  Append(p, n) \in Path
<1>1. p \in Seq(1 .. MaxFan) /\ Len(p) \in Nat /\ MaxDepth \in Nat
  BY PathType, DepthAssumption
<1>2. Append(p, n) \in [1 .. Len(p) + 1 -> 1 .. MaxFan]
  <2>1. Append(p, n) \in Seq(1 .. MaxFan)
    BY <1>1
  <2>2. Len(Append(p, n)) = Len(p) + 1
    BY <1>1, SMT
  <2>3. Append(p, n) \in [1 .. Len(Append(p, n)) -> 1 .. MaxFan]
    BY <2>1, LenProperties
  <2> QED BY <2>2, <2>3
<1>3. Len(p) + 1 \in 0 .. MaxDepth
  BY <1>1
<1> QED BY <1>2, <1>3 DEF Path

LEMMA BelowReflexive ==
  ASSUME NEW x \in Path
  PROVE  Below(x, x)
BY PathType DEF Below

LEMMA BelowTransitive ==
  ASSUME NEW x \in Path, NEW y \in Path, NEW z \in Path,
         Below(x, y), Below(y, z)
  PROVE  Below(x, z)
<1>1. Len(x) \in Nat /\ Len(y) \in Nat /\ Len(z) \in Nat
  BY PathType
<1> QED BY <1>1 DEF Below

LEMMA BelowAntisymmetric ==
  ASSUME NEW x \in Path, NEW y \in Path, Below(x, y), Below(y, x)
  PROVE  x = y
<1>1. Len(x) \in Nat /\ Len(y) \in Nat
  BY PathType
<1>2. Len(x) = Len(y) /\ \A i \in 1 .. Len(x) : x[i] = y[i]
  BY <1>1 DEF Below
<1>3. /\ x = [i \in 1 .. Len(x) |-> x[i]]
      /\ y = [i \in 1 .. Len(y) |-> y[i]]
  BY PathType
<1> QED BY <1>2, <1>3

LEMMA RootAboveAll ==
  ASSUME NEW x \in Path
  PROVE  /\ Below(x, Root)
         /\ Below(Root, x) => x = Root
<1>1. Below(x, Root)
  BY PathType DEF Below, Root
<1> QED BY <1>1, RootInPath, BelowAntisymmetric

(* An answer of p, and all below it, is strictly below p.                  *)
LEMMA BelowAnswer ==
  ASSUME NEW p \in Path, NEW n, Append(p, n) \in Path,
         NEW x \in Path, Below(x, Append(p, n))
  PROVE  StrictlyBelow(x, p) /\ x[Len(p) + 1] = n /\ Len(p) < Len(x)
<1>1. Len(p) \in Nat /\ Len(x) \in Nat
  BY PathType
<1>2. Len(p) + 1 <= Len(x) /\ x[Len(p) + 1] = n
  BY <1>1, AppendPath DEF Below
<1>3. \A i \in 1 .. Len(p) : x[i] = p[i]
  BY <1>1, AppendPath DEF Below
<1> QED BY <1>1, <1>2, <1>3 DEF Below, StrictlyBelow

(* What is above an answer of p is that answer or above p.                 *)
LEMMA AboveAnswer ==
  ASSUME NEW p \in Path, NEW n, Append(p, n) \in Path,
         NEW x \in Path, Below(Append(p, n), x)
  PROVE  x = Append(p, n) \/ Below(p, x)
<1> DEFINE c == Append(p, n)
<1>1. Len(p) \in Nat /\ Len(x) \in Nat /\ Len(c) = Len(p) + 1
  BY PathType, AppendPath
<1>2. CASE Len(x) <= Len(p)
  BY <1>1, <1>2, AppendPath DEF Below
<1>3. CASE Len(x) = Len(p) + 1
  <2>1. Below(x, c)
    BY <1>1, <1>3 DEF Below
  <2> QED BY <2>1, BelowAntisymmetric
<1>4. Len(x) <= Len(p) + 1
  BY <1>1 DEF Below
<1> QED BY <1>1, <1>2, <1>3, <1>4

(* Whatever is below something strictly below p is strictly below p.       *)
LEMMA BelowStrictlyBelow ==
  ASSUME NEW x \in Path, NEW y \in Path, NEW p \in Path,
         Below(x, y), StrictlyBelow(y, p)
  PROVE  StrictlyBelow(x, p)
<1>1. Below(y, p) /\ y # p
  BY DEF StrictlyBelow
<1>2. Below(x, p)
  BY <1>1, BelowTransitive
<1>3. x # p
  <2> SUFFICES ASSUME x = p PROVE FALSE
    OBVIOUS
  <2>1. Below(p, y)
    OBVIOUS
  <2> QED BY <1>1, <2>1, BelowAntisymmetric
<1> QED BY <1>2, <1>3 DEF StrictlyBelow

(* Every path above x is a beginning of x.                                 *)
LEMMA PathPrefix ==
  ASSUME NEW x \in Path, NEW p \in Path, Below(x, p)
  PROVE  SubSeq(x, 1, Len(p)) = p
<1> DEFINE n == Len(p)
           s == SubSeq(x, 1, n)
<1>1. n \in Nat /\ n \in Int /\ 1 \in Int /\ n <= Len(x) /\ Len(x) \in Nat
  BY PathType DEF Below
<1>2. \A k \in 1 .. n : x[k] \in 1 .. MaxFan /\ x[k] = p[k]
  <2> TAKE k \in 1 .. n
  <2>1. k \in 1 .. Len(x)
    BY <1>1
  <2> QED BY <2>1, PathType DEF Below
<1> HIDE DEF n
<1>3. /\ s \in Seq(1 .. MaxFan)
      /\ Len(s) = IF 1 <= n THEN n - 1 + 1 ELSE 0
      /\ \A k \in 1 .. n - 1 + 1 : s[k] = x[1 + k - 1]
  BY <1>1, <1>2, SubSeqProperties
<1>4. Len(s) = n /\ \A k \in 1 .. n : s[k] = p[k]
  BY <1>1, <1>2, <1>3
<1>5. p \in Seq(1 .. MaxFan) /\ Len(p) = n
  BY PathType DEF n
<1> HIDE DEF s
<1>6. s = p
  BY <1>3, <1>4, <1>5, SeqEqual
<1> QED BY <1>6 DEF s, n

(* What is strictly below p is below one of p's answers.                   *)
LEMMA AnswerAbove ==
  ASSUME NEW p \in Path, NEW x \in Path, StrictlyBelow(x, p)
  PROVE  /\ Len(p) < Len(x)
         /\ x[Len(p) + 1] \in 1 .. MaxFan
         /\ Append(p, x[Len(p) + 1]) \in Path
         /\ Below(x, Append(p, x[Len(p) + 1]))
<1> DEFINE n == x[Len(p) + 1]
           c == [i \in 1 .. Len(p) + 1 |-> x[i]]
<1>1. /\ Len(p) \in Nat /\ Len(x) \in Nat /\ Len(x) <= MaxDepth
      /\ MaxDepth \in Nat /\ p \in Seq(1 .. MaxFan)
  BY PathType, DepthAssumption
<1>2. Len(p) < Len(x)
  <2>1. Len(p) <= Len(x)
    BY DEF Below, StrictlyBelow
  <2>2. Len(p) # Len(x)
    <3> SUFFICES ASSUME Len(p) = Len(x) PROVE FALSE
      OBVIOUS
    <3>1. Below(p, x) /\ Below(x, p) /\ x # p
      BY DEF Below, StrictlyBelow
    <3> QED BY <3>1, BelowAntisymmetric
  <2> QED BY <1>1, <2>1, <2>2
<1>3. c \in [1 .. Len(p) + 1 -> 1 .. MaxFan]
  <2>1. \A i \in 1 .. Len(p) + 1 : x[i] \in 1 .. MaxFan
    BY <1>1, <1>2, PathType
  <2> QED BY <2>1
<1>4. c \in Path
  BY <1>1, <1>2, <1>3 DEF Path
<1>5. n \in 1 .. MaxFan
  BY <1>1, <1>2, PathType
<1>6. c = Append(p, n)
  <2>1. Append(p, n) =
          [i \in 1 .. Len(p) + 1 |-> IF i = Len(p) + 1 THEN n ELSE p[i]]
    BY <1>1, <1>5, SMT
  <2>2. \A i \in 1 .. Len(p) : x[i] = p[i]
    BY DEF StrictlyBelow, Below
  <2> QED BY <1>1, <2>1, <2>2
<1>7. Below(x, c)
  <2>1. Len(c) = Len(p) + 1
    BY <1>1, <1>3, <1>4, <1>6, AppendPath
  <2> QED BY <1>1, <1>2, <2>1 DEF Below
<1> QED BY <1>2, <1>4, <1>5, <1>6, <1>7
=============================================================================
