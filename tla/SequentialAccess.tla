--------------------------- MODULE SequentialAccess ---------------------------
(***************************************************************************)
(* What SequentialQueryable and ParallelQueryable promise their caller     *)
(* about access, apart from budgets and data: queries to two answers of    *)
(* one queryable are never interleaved.                                    *)
(*                                                                         *)
(* `opened' is every queryable handed out so far, `live' those that still  *)
(* answer.  Asking a live queryable for another interactive answer ends    *)
(* everything obtained from it before.                                     *)
(***************************************************************************)
EXTENDS Paths

VARIABLES opened, live

accessVars == <<opened, live>>

Init == opened = {Root} /\ live = {Root}

(* p hands out a new queryable; whatever p handed out before is over.      *)
Open(p) ==
  /\ p \in live
  /\ \E n \in 1 .. MaxFan :
       /\ Append(p, n) \in Path \ opened
       /\ opened' = opened \union {Append(p, n)}
       /\ live' = {x \in live : ~ StrictlyBelow(x, p)} \union {Append(p, n)}

(* p ends its current answer without handing out a new one.                *)
Drop(p) ==
  /\ p \in live
  /\ live' = {x \in live : ~ StrictlyBelow(x, p)}
  /\ UNCHANGED opened

(* The caller gives up x.  The root has no wrapper to retire.              *)
Close(x) ==
  /\ x \in live \ {Root}
  /\ live' = {y \in live : ~ Below(y, x)}
  /\ UNCHANGED opened

Next == \E x \in Path : Open(x) \/ Drop(x) \/ Close(x)

Spec == Init /\ [][Next]_accessVars

-----------------------------------------------------------------------------
TypeOK == opened \subseteq Path /\ live \subseteq opened

(* Concurrent composition is not permitted: of two different answers of    *)
(* one queryable at most one is usable, itself or through a descendant.    *)
NoInterleaving ==
  \A x, y \in live : Below(x, y) \/ Below(y, x)

(* What answers is reachable: whoever obtained a live queryable can still  *)
(* query everything on the way to it.                                      *)
AncestorsLive ==
  \A x \in live, p \in Path : Below(x, p) => p \in live

(* A queryable that stopped answering never answers again.                 *)
NeverRevived == [][\A x \in opened : x \notin live => x \notin live']_accessVars
=============================================================================
