------------------------ MODULE SequentialAccessProofs ------------------------
(***************************************************************************)
(* Access to queryables is never concurrent, for trees of every depth and  *)
(* width.  NoInterleaving is not inductive alone: a queryable p can only   *)
(* hand out an answer next to the ancestors of p because these are live,   *)
(* and comparable with p.                                                  *)
(***************************************************************************)
EXTENDS SequentialAccess, PathTheorems

AccessInv == TypeOK /\ NoInterleaving /\ AncestorsLive

(* What is left of live when the answers of p end.                         *)
Kept(p) == {x \in live : ~ StrictlyBelow(x, p)}

LEMMA InitAccessInv == Init => AccessInv
<1> SUFFICES ASSUME Init PROVE AccessInv
  OBVIOUS
<1>1. opened = {Root} /\ live = {Root}
  BY DEF Init
<1>2. TypeOK
  BY <1>1, RootInPath DEF TypeOK
<1>3. NoInterleaving
  BY <1>1, RootInPath, BelowReflexive DEF NoInterleaving
<1>4. AncestorsLive
  BY <1>1, RootAboveAll DEF AncestorsLive
<1> QED BY <1>2, <1>3, <1>4 DEF AccessInv

(* Ending the answers of p leaves a chain, with all that is above it.      *)
LEMMA KeptIsChain ==
  ASSUME AccessInv, NEW p \in live
  PROVE  /\ Kept(p) \subseteq live
         /\ p \in Kept(p)
         /\ \A x, y \in Kept(p) : Below(x, y) \/ Below(y, x)
         /\ \A x \in Kept(p) : Below(p, x)
         /\ \A x \in Kept(p), q \in Path : Below(x, q) => q \in Kept(p)
<1> USE DEF AccessInv
<1>1. live \subseteq Path
  BY DEF TypeOK
<1>2. Kept(p) \subseteq live /\ p \in Kept(p)
  BY DEF Kept, StrictlyBelow
<1>3. \A x, y \in Kept(p) : Below(x, y) \/ Below(y, x)
  BY <1>2 DEF NoInterleaving
<1>4. \A x \in Kept(p) : Below(p, x)
  <2> TAKE x \in Kept(p)
  <2>1. Below(x, p) \/ Below(p, x)
    BY <1>2, <1>3
  <2>2. CASE Below(x, p)
    <3>1. x = p
      BY <2>2 DEF Kept, StrictlyBelow
    <3> QED BY <3>1, <1>1, BelowReflexive
  <2> QED BY <2>1, <2>2
<1>5. \A x \in Kept(p), q \in Path : Below(x, q) => q \in Kept(p)
  <2> TAKE x \in Kept(p), q \in Path
  <2> HAVE Below(x, q)
  <2>1. q \in live
    BY <1>2 DEF AncestorsLive
  <2>2. ~ StrictlyBelow(q, p)
    BY <1>1, <1>2, BelowStrictlyBelow DEF Kept
  <2> QED BY <2>1, <2>2 DEF Kept
<1> QED BY <1>2, <1>3, <1>4, <1>5

LEMMA OpenAccessInv ==
  ASSUME AccessInv, NEW p \in Path, Open(p)
  PROVE  AccessInv'
<1>1. p \in live /\ live \subseteq Path /\ opened \subseteq Path
  BY DEF Open, AccessInv, TypeOK
<1>2. PICK n \in 1 .. MaxFan :
        /\ Append(p, n) \in Path \ opened
        /\ opened' = opened \union {Append(p, n)}
        /\ live' = Kept(p) \union {Append(p, n)}
  BY DEF Open, Kept
<1> DEFINE c == Append(p, n)
<1>3. c \in Path /\ Below(c, c) /\ Below(c, p)
  BY <1>2, BelowReflexive, BelowAnswer DEF StrictlyBelow
<1>4. \A x \in Kept(p) : x \in Path /\ Below(c, x)
  BY <1>1, <1>3, KeptIsChain, BelowTransitive
<1>5. TypeOK'
  BY <1>1, <1>2, KeptIsChain DEF TypeOK, AccessInv
<1>6. NoInterleaving'
  BY <1>1, <1>2, <1>3, <1>4, KeptIsChain DEF NoInterleaving
<1>7. AncestorsLive'
  <2> SUFFICES ASSUME NEW x \in live', NEW q \in Path, Below(x, q)
               PROVE  q \in live'
    BY DEF AncestorsLive
  <2>1. CASE x \in Kept(p)
    BY <1>1, <1>2, <2>1, KeptIsChain
  <2>2. CASE x = c
    <3>1. q = c \/ Below(p, q)
      BY <1>2, <2>2, AboveAnswer
    <3> QED BY <1>1, <1>2, <3>1, KeptIsChain
  <2> QED BY <1>2, <2>1, <2>2
<1> QED BY <1>5, <1>6, <1>7 DEF AccessInv

LEMMA DropAccessInv ==
  ASSUME AccessInv, NEW p \in Path, Drop(p)
  PROVE  AccessInv'
<1>1. p \in live /\ live' = Kept(p) /\ opened' = opened
  BY DEF Drop, Kept
<1>2. TypeOK'
  BY <1>1, KeptIsChain DEF TypeOK, AccessInv
<1>3. NoInterleaving'
  BY <1>1, KeptIsChain DEF NoInterleaving
<1>4. AncestorsLive'
  BY <1>1, KeptIsChain DEF AncestorsLive
<1> QED BY <1>2, <1>3, <1>4 DEF AccessInv

LEMMA CloseAccessInv ==
  ASSUME AccessInv, NEW x \in Path, Close(x)
  PROVE  AccessInv'
<1>1. live' = {y \in live : ~ Below(y, x)} /\ opened' = opened
  BY DEF Close
<1>2. TypeOK'
  BY <1>1 DEF TypeOK, AccessInv
<1>3. NoInterleaving'
  BY <1>1 DEF NoInterleaving, AccessInv
<1>4. AncestorsLive'
  <2> SUFFICES ASSUME NEW y \in live', NEW q \in Path, Below(y, q)
               PROVE  q \in live'
    BY DEF AncestorsLive
  <2>1. y \in live /\ ~ Below(y, x) /\ y \in Path
    BY <1>1 DEF AccessInv, TypeOK
  <2>2. q \in live
    BY <2>1 DEF AccessInv, AncestorsLive
  <2>3. ~ Below(q, x)
    BY <2>1, BelowTransitive
  <2> QED BY <1>1, <2>2, <2>3
<1> QED BY <1>2, <1>3, <1>4 DEF AccessInv

(* At every moment the queryables that answer form a chain from the root   *)
(* down, each obtained from the one before.                                *)
THEOREM AccessSafety == Spec => []AccessInv
<1>1. Init => AccessInv
  BY InitAccessInv
<1>2. AccessInv /\ [Next]_accessVars => AccessInv'
  <2> SUFFICES ASSUME AccessInv, [Next]_accessVars PROVE AccessInv'
    OBVIOUS
  <2>1. CASE Next
    BY <2>1, OpenAccessInv, DropAccessInv, CloseAccessInv DEF Next
  <2>2. CASE UNCHANGED accessVars
    BY <2>2 DEF accessVars, AccessInv, TypeOK, NoInterleaving, AncestorsLive
  <2> QED BY <2>1, <2>2
<1> QED BY <1>1, <1>2, PTL DEF Spec

(* A queryable that stopped answering never answers again, through         *)
(* whichever wrapper it is asked.                                          *)
THEOREM AccessNeverRevived == Spec => NeverRevived
<1>1. Next => \A x \in opened : x \notin live => x \notin live'
  <2> SUFFICES ASSUME Next, NEW x \in opened, x \notin live
               PROVE  x \notin live'
    OBVIOUS
  <2>1. PICK p \in Path : Open(p) \/ Drop(p) \/ Close(p)
    BY DEF Next
  <2> QED BY <2>1 DEF Open, Drop, Close
<1>2. [Next]_accessVars =>
        [\A x \in opened : x \notin live => x \notin live']_accessVars
  BY <1>1
<1> QED BY <1>2, PTL DEF Spec, NeverRevived
=============================================================================
