------------------------------ MODULE Queryables ------------------------------
(***************************************************************************)
(* The queryables of tmlt.core.measurements.interactive_measurements: the  *)
(* tree of SequentialQueryable, ParallelQueryable and GetAnswerQueryable   *)
(* that grows from one SequentialComposition, and the RetirableQueryable   *)
(* wrappers through which every query below the root passes.               *)
(*                                                                         *)
(* Wrappers.  SequentialQueryable and ParallelQueryable wrap the answer    *)
(* they return, and every wrapper the answer passes through on its way to  *)
(* the caller wraps it once more.  The core c therefore lies in Len(c)     *)
(* wrappers; level 1 is the one its parent keeps, level Len(c) the one the *)
(* caller holds, and the wrapper of level k registers in its _children the *)
(* wrappers of level k + 1 around the answers of c.                        *)
(*                                                                         *)
(* Data are abstracted to what accounting depends on.  Two neighbouring    *)
(* inputs are at some distance in 0 .. MaxDist; `sens' is the largest      *)
(* distance there really can be between the data that two runs on          *)
(* neighbouring inputs hold here.  The code does not know it: it computes  *)
(* with _d_in.  `spent', `loss', `sens' and `torn' are history variables.  *)
(***************************************************************************)
EXTENDS Paths, PrivacyBudget, Functions

CONSTANTS
  MaxDist,          \* the largest distance between neighbouring data
  Types,            \* pairs of a domain and a metric
  Transformations,  \* the transformations callers submit
  Measurements,     \* the interactive measurements callers submit
  RootCompositions, \* the SequentialCompositions a tree may grow from
  DistHints,        \* values of a TransformationQuery's d_out
  LossHints,        \* values of a MeasurementQuery's d_out
  None              \* Python's None

Dist == 0 .. MaxDist

(* A transformation is stable: data at distance d come out at most stab[d] *)
(* apart.  `fn' says that it implements stability_function; otherwise only *)
(* its stability_relation tells stab.                                      *)
Transformation ==
  [in : Types, out : Types, stab : [Dist -> Dist], fn : BOOLEAN]

(* MakeInteractive(m): m's loss on data at distance d is loss[d]; `fn'     *)
(* says that m implements privacy_function.                                *)
AnswerMeasurement ==
  [kind : {"answer"}, in : Types, loss : [Dist -> Budgets], fn : BOOLEAN]

SequentialMeasurement ==
  [kind : {"sequential"}, in : Types, dIn : Dist, budget : Budgets]

(* A splitting transformation chained with a ParallelComposition.          *)
ParallelMeasurement ==
  [kind : {"parallel"}, in : Types, t : Transformation,
   parts : Seq(AnswerMeasurement \union SequentialMeasurement)]

Measurement ==
  AnswerMeasurement \union SequentialMeasurement \union ParallelMeasurement

Monotone(t) ==
  \A d, e \in Dist : d <= e => t.stab[d] <= t.stab[e]

LossMonotone(m) ==
  m.kind = "answer" =>
    \A d, e \in Dist : d <= e => Compare(m.loss[d], m.loss[e])

WellMade(m) ==
  /\ m \in Measurement /\ LossMonotone(m)
  /\ m.kind = "parallel" =>
       /\ m.in = m.t.in /\ Monotone(m.t) /\ m.parts # <<>>
       /\ \A i \in DOMAIN m.parts :
            m.parts[i].in = m.t.out /\ LossMonotone(m.parts[i])

ASSUME DistAssumption == MaxDist \in Nat
ASSUME TypesAssumption == Types # {}
ASSUME TransformationsAssumption ==
  /\ Transformations \subseteq Transformation
  /\ \A t \in Transformations : Monotone(t)
ASSUME MeasurementsAssumption == \A m \in Measurements : WellMade(m)
ASSUME RootAssumption == RootCompositions \subseteq SequentialMeasurement
ASSUME HintsAssumption ==
  /\ DistHints \subseteq Dist \union {None} /\ None \notin Dist
  /\ LossHints \subseteq Budgets \union {None} /\ None \notin Budgets

VARIABLE tree

vars == <<tree>>

(***************************************************************************)
(* The state of one queryable.                                             *)
(*   kind       "none" until it is handed out, then the class of the core  *)
(*   retired    the levels of its wrappers whose _is_retired is set        *)
(*   next       1 + the number of answers it tried to hand out             *)
(*   current    the answer in _previous_queryable or _current_queryable, 0 *)
(*              for None                                                   *)
(*   type, dIn  _input_domain with _input_metric, and _d_in                *)
(*   sens       the true sensitivity of _data                              *)
(*   total      the privacy budget it was created with                     *)
(*   remaining  _remaining_budget                                          *)
(*   spent      what its accepted measurement queries were charged, if the *)
(*              budget is finite                                           *)
(*   parts      _measurements of a ParallelQueryable                       *)
(*   charge     what its parent's budget was charged for it                *)
(*   loss       the true loss of the answer a GetAnswerQueryable holds     *)
(*   torn       some TransformationQuery that led to this data raised      *)
(*              after the data was replaced                                *)
(***************************************************************************)
Node ==
  [kind : {"none", "answer", "sequential", "parallel"},
   retired : SUBSET (1 .. MaxDepth), next : Nat \ {0}, current : Nat,
   type : Types, dIn : Dist, sens : Dist,
   total : Budgets, remaining : Budgets,
   spent : [eps : Amount, delta : Nat],
   parts : Seq(AnswerMeasurement \union SequentialMeasurement),
   charge : Budgets, loss : Budgets, torn : BOOLEAN]

NotOpened ==
  [kind |-> "none", retired |-> {}, next |-> 1, current |-> 0,
   type |-> CHOOSE t \in Types : TRUE, dIn |-> 0, sens |-> 0,
   total |-> NoLoss, remaining |-> NoLoss, spent |-> NoLoss, parts |-> <<>>,
   charge |-> NoLoss, loss |-> NoLoss, torn |-> FALSE]

-----------------------------------------------------------------------------
(* The privacy functions and relations of the interactive measurements.    *)
(* A privacy function is the set of what it may return: one value, or none *)
(* when it raises.                                                         *)

AnswerLoss(m, d) == IF m.fn THEN {m.loss[d]} ELSE {}

(* The whole budget, for data no further apart than it was made for.       *)
SequentialLoss(m, d) == IF d <= m.dIn THEN {m.budget} ELSE {}

PartLoss(m, d) ==
  IF m.kind = "answer" THEN AnswerLoss(m, d) ELSE SequentialLoss(m, d)

(* The largest value of the parts, under approximate DP the largest of     *)
(* each component; none when a part or the transformation raises.          *)
ParallelLoss(m, d) ==
  LET loss == [i \in DOMAIN m.parts |-> PartLoss(m.parts[i], m.t.stab[d])]
      values == UNION {loss[i] : i \in DOMAIN m.parts}
  IN  {v \in [eps : {w.eps : w \in values}, delta : {w.delta : w \in values}] :
         /\ m.t.fn
         /\ \A i \in DOMAIN m.parts : loss[i] # {}
         /\ \A w \in values : AmountAtMost(w.eps, v.eps) /\ w.delta <= v.delta}

PrivacyFunction(m, d) ==
  IF m.kind = "parallel" THEN ParallelLoss(m, d) ELSE PartLoss(m, d)

(* Only a measurement with a relation of its own can do without the        *)
(* privacy function; elsewhere the relation raises when the function does. *)
PrivacyRelation(m, d, dOut) ==
  IF m.kind = "answer"
  THEN Compare(m.loss[d], dOut)
  ELSE \E v \in PrivacyFunction(m, d) : Compare(v, dOut)

(* What running m on data of sensitivity s, at a cost c, creates.  A       *)
(* GetAnswerQueryable runs its measurement when it is constructed.         *)
Created(m, s, c, torn) ==
  LET new == [NotOpened EXCEPT !.kind = m.kind, !.charge = c, !.torn = torn]
  IN  CASE m.kind = "answer" -> [new EXCEPT !.loss = m.loss[s]]
        [] m.kind = "sequential" ->
             [new EXCEPT !.type = m.in, !.dIn = m.dIn, !.sens = s,
                         !.total = m.budget, !.remaining = m.budget]
        [] m.kind = "parallel" ->
             [new EXCEPT !.sens = m.t.stab[s], !.parts = m.parts]

-----------------------------------------------------------------------------
(* RetirableQueryable *)

IsOpen(tr, x) == tr[x].kind # "none"

(* Mutant: a wrapper forgets to retire its _children.                      *)
RetireWrapperAlone(tr, c, k) ==
  [tr EXCEPT ![c].retired = @ \union {k}]

(* RetireQuery to the wrapper of level k around c.  It reaches the         *)
(* wrappers below it unless one on the way is retired already.             *)
RetireWrapper(tr, c, k) ==
  LET level(x) == k + Len(x) - Len(c)
      reached(x) ==
        /\ IsOpen(tr, x) /\ Below(x, c)
        /\ \A y \in Path :
             Below(x, y) /\ Below(y, c) => level(y) \notin tr[y].retired
  IN  [x \in Path |->
         IF reached(x)
         THEN [tr[x] EXCEPT !.retired = @ \union {level(x)}]
         ELSE tr[x]]

(* A query from the caller passes every wrapper of x.                      *)
Live(tr, x) == IsOpen(tr, x) /\ tr[x].retired = {}

(* Mutant: the previous answer is not retired.                             *)
RetireCurrentForgotten(tr, p) == tr

(* p's answer in _previous_queryable or _current_queryable is retired.     *)
RetireCurrent(tr, p) ==
  IF tr[p].current = 0
  THEN tr
  ELSE RetireWrapper(tr, Append(p, tr[p].current), 1)

-----------------------------------------------------------------------------
(* SequentialQueryable, MeasurementQuery(m, d_out = hint) *)

(* Mutant: d_out is taken without asking the privacy_relation.             *)
ChargesUnchecked(nd, m, hint) ==
  IF hint = None THEN PrivacyFunction(m, nd.dIn) ELSE {hint}

(* What the query would be charged: d_out if it satisfies the relation,    *)
(* else the value of the privacy function; nothing when that raises.       *)
(* Python takes a plain 0 for false, not an ExactNumber or a pair: the     *)
(* hint of a caller who gives a plain 0 is None here.                      *)
Charges(nd, m, hint) ==
  IF hint = None
  THEN PrivacyFunction(m, nd.dIn)
  ELSE {c \in {hint} : PrivacyRelation(m, nd.dIn, c)}

(* The charges with which the query passes every check.                    *)
Accepted(nd, m, hint) ==
  {c \in Charges(nd, m, hint) : m.in = nd.type /\ CanSpend(nd.remaining, c)}

(* The budget is charged, and the previous answer retired, before the      *)
(* measurement runs; `raises' says that running it fails.                  *)
Measured(tr, p, m, cost, raises) ==
  LET n == tr[p].next
      charged == [RetireCurrent(tr, p) EXCEPT
                    ![p].current = 0,
                    ![p].remaining = Subtract(@, cost),
                    ![p].spent = IF IsFinite(tr[p].remaining)
                                 THEN AddedLosses(@, cost) ELSE @]
  IN  IF raises
      THEN charged
      ELSE [charged EXCEPT
              ![p].next = n + 1,
              ![p].current = n,
              ![Append(p, n)] = Created(m, tr[p].sens, cost, tr[p].torn)]

-----------------------------------------------------------------------------
(* SequentialQueryable, TransformationQuery(t, d_out = hint) *)

(* Mutant: d_out is taken without asking the stability_relation.           *)
StabilitiesUnchecked(d, t, hint) ==
  IF hint \in {None, 0} THEN IF t.fn THEN {t.stab[d]} ELSE {} ELSE {hint}

(* The d_in the data would have, none when the check or the stability      *)
(* function raises.  A d_out of 0, a plain number, is as good as none:     *)
(* Python takes it for false.                                              *)
Stabilities(d, t, hint) ==
  IF hint \in {None, 0}
  THEN IF t.fn THEN {t.stab[d]} ELSE {}
  ELSE {e \in {hint} : t.stab[d] <= e}

(* The data are replaced first.  If then the stability cannot be told, the *)
(* query raises and everything else stays what it was.                     *)
Transformed(tr, p, t, hint) ==
  LET moved == [tr EXCEPT ![p].sens = t.stab[@]]
      known == Stabilities(tr[p].dIn, t, hint)
  IN  IF known = {}
      THEN [moved EXCEPT ![p].torn = TRUE]
      ELSE [moved EXCEPT ![p].dIn = CHOOSE e \in known : TRUE,
                         ![p].type = t.out]

-----------------------------------------------------------------------------
(* ParallelQueryable, IndexQuery(tr[p].next - 1): the only index it takes. *)
(* One past the last part passes the check, retires the current answer and *)
(* then finds no measurement.                                              *)
Indexed(tr, p, raises) ==
  LET i == tr[p].next
      retired == [RetireCurrent(tr, p) EXCEPT ![p].next = i + 1]
  IN  IF raises \/ i > Len(tr[p].parts)
      THEN retired
      ELSE [retired EXCEPT
              ![p].current = i,
              ![Append(p, i)] =
                 Created(tr[p].parts[i], tr[p].sens, tr[p].charge, tr[p].torn)]

-----------------------------------------------------------------------------
(* The queries a caller can make; a refused query changes nothing.         *)

(* Bounds of the model: the depth and the width of the tree.               *)
HasRoom(p) == Len(p) < MaxDepth /\ tree[p].next <= MaxFan

Init ==
  \E m \in RootCompositions :
    tree = [x \in Path |-> IF x = Root
                          THEN Created(m, m.dIn, m.budget, FALSE)
                          ELSE NotOpened]

(* A MeasurementQuery that passes all checks.  Running the measurement may *)
(* still raise, unless it only launches a SequentialQueryable.             *)
MeasurementQuery(p, m, hint) ==
  /\ Live(tree, p) /\ tree[p].kind = "sequential" /\ HasRoom(p)
  /\ \E cost \in Accepted(tree[p], m, hint), raises \in BOOLEAN :
       /\ raises => m.kind # "sequential"
       /\ tree' = Measured(tree, p, m, cost, raises)

TransformationQuery(p, t, hint) ==
  /\ Live(tree, p) /\ tree[p].kind = "sequential"
  /\ t.in = tree[p].type
  /\ tree' = Transformed(tree, p, t, hint)

IndexQuery(p) ==
  /\ Live(tree, p) /\ tree[p].kind = "parallel"
  /\ tree[p].next <= Len(tree[p].parts) + 1   \* bound: one overrun
  /\ tree[p].next <= Len(tree[p].parts) => HasRoom(p)
  /\ \E raises \in BOOLEAN :
       /\ raises => /\ tree[p].next <= Len(tree[p].parts)
                    /\ tree[p].parts[tree[p].next].kind = "answer"
       /\ tree' = Indexed(tree, p, raises)

RetireQuery(x) ==
  /\ IsOpen(tree, x) /\ x # Root
  /\ tree' = RetireWrapper(tree, x, Len(x))

Next ==
  \E x \in Path :
    \/ \E m \in Measurements, hint \in LossHints : MeasurementQuery(x, m, hint)
    \/ \E t \in Transformations, hint \in DistHints :
         TransformationQuery(x, t, hint)
    \/ IndexQuery(x)
    \/ RetireQuery(x)

Spec == Init /\ [][Next]_vars

-----------------------------------------------------------------------------
TypeOK == tree \in [Path -> Node]

(* Concurrent composition is never permitted: of two queryables that still *)
(* answer, one was obtained from the other, whichever wrappers the         *)
(* previous answer and its descendants had been retired through.           *)
NoInterleaving ==
  \A x, y \in Path :
    Live(tree, x) /\ Live(tree, y) => Below(x, y) \/ Below(y, x)

(* The _d_in a SequentialQueryable computes charges from is at least the   *)
(* distance its data really can be at, as long as no transformation query  *)
(* on the way to the data raised half-way.                                 *)
SensitivityCovered ==
  \A x \in Path : tree[x].kind = "sequential" /\ ~ tree[x].torn
                    => tree[x].sens <= tree[x].dIn

(* What the parent was charged for a queryable covers all that can be got  *)
(* out of it: the loss of an answer, the whole budget of a composition,    *)
(* each part of a parallel composition on the data it really has.          *)
ChargeCovers ==
  \A x \in Path :
    LET nd == tree[x]
    IN  nd.torn
        \/ CASE nd.kind = "answer" -> Compare(nd.loss, nd.charge)
             [] nd.kind = "sequential" -> Compare(nd.total, nd.charge)
             [] nd.kind = "parallel" ->
                  \A i \in DOMAIN nd.parts :
                    LET m == nd.parts[i]
                    IN  IF m.kind = "answer"
                        THEN Compare(m.loss[nd.sens], nd.charge)
                        ELSE /\ nd.sens <= m.dIn
                             /\ Compare(m.budget, nd.charge)
             [] nd.kind = "none" -> TRUE

(* What a finite budget was charged and what it has left add up to the     *)
(* budget the queryable was created with.                                  *)
LedgerBalanced ==
  \A x \in Path : tree[x].kind = "sequential" /\ IsFinite(tree[x].total)
    => AddedLosses(tree[x].spent, tree[x].remaining) = tree[x].total

(* What the answers of a queryable lose together: the losses of a          *)
(* sequential queryable's answers add up, a parallel queryable loses no    *)
(* more than its worst part.                                               *)
Together(kind, v, w) ==
  IF kind = "sequential" THEN AddedLosses(v, w) ELSE Largest(v, w)

Composed(kind, losses) ==
  FoldFunction(LAMBDA v, w : Together(kind, v, w), NoLoss, losses)

(* The true loss of everything obtained from each queryable so far.        *)
TrueLoss ==
  LET loss[x \in Path] ==
        LET answers == [i \in 1 .. MaxFan |->
                          IF Len(x) < MaxDepth THEN loss[Append(x, i)]
                          ELSE NoLoss]
        IN  CASE tree[x].kind = "none" -> NoLoss
              [] tree[x].kind = "answer" -> tree[x].loss
              [] OTHER -> Composed(tree[x].kind, answers)
  IN  loss

LossBounded(x) ==
  IsFinite(tree[x].total) => Compare(TrueLoss[x], tree[x].total)

(* Whatever queries are submitted in whatever order to whichever           *)
(* queryable, and whichever of them fail, the true loss of all that came   *)
(* out of a composition is within its privacy budget, unless some          *)
(* transformation query raised half-way.                                   *)
LossWithinBudget ==
  (\A x \in Path : ~ tree[x].torn) =>
    \A x \in Path : tree[x].kind = "sequential" => LossBounded(x)

(* The same without the exception: what SequentialComposition promises     *)
(* ("The returned d_out is the privacy_budget").                           *)
RootLossWithinBudget == LossBounded(Root)

-----------------------------------------------------------------------------
(* The queryables implement SequentialAccess: the wrappers and the two     *)
(* pointers to the current answer do what that module says of one set.     *)
Access ==
  INSTANCE SequentialAccess
    WITH opened <- {x \in Path : IsOpen(tree, x)},
         live <- {x \in Path : Live(tree, x)}

ImplementsAccess == Access!Spec
=============================================================================
