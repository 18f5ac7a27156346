--------------------------- MODULE PrivacyAccountant ---------------------------
(***************************************************************************)
(* PrivacyAccountant of interactive_measurements: the object callers use   *)
(* instead of queryables.  It keeps its own idea of domain, metric, d_in   *)
(* and remaining budget beside those of the SequentialQueryable it drives, *)
(* and walks through the partitions of a split one after the other.        *)
(*                                                                         *)
(* An accountant has the name of its queryable: the i-th child of an       *)
(* accountant a whose _parallel_queryable is Append(a, n) is               *)
(* <<...a, n, i>>, whether that queryable exists yet or not.               *)
(*                                                                         *)
(* A method is an operator from a world, the queryables and the            *)
(* accountants, to the world it leaves behind.  A method that raises       *)
(* leaves what it had done so far and clears `ok'; its caller then does    *)
(* nothing more.                                                           *)
(***************************************************************************)
EXTENDS Queryables, FiniteSets

CONSTANTS
  Splits,        \* the splitting transformations: [t, size], t.out the type
                 \* of the elements, size the length of the list
  SplitBudgets,  \* the budgets split() is asked to give to each child
  MaxPending     \* bound: transformations queued on one accountant

ASSUME SplitsAssumption ==
  /\ Splits \subseteq [t : Transformation, size : 1 .. MaxFan]
  /\ \A s \in Splits : Monotone(s.t)
ASSUME SplitBudgetsAssumption == SplitBudgets \subseteq Budgets
ASSUME PendingAssumption == MaxPending \in Nat

VARIABLE acct

accountantVars == <<tree, acct>>

Accountants == {a \in Path : Len(a) % 2 = 0}

(***************************************************************************)
(*   state    _state, "none" before the accountant exists                  *)
(*   type, dIn, budget                                                     *)
(*            _input_domain with _input_metric, _d_in, _privacy_budget     *)
(*   pending  _pending_transformation: None, or the transformations queued *)
(*            after Identity, each with the d_out that came with it        *)
(*   pq       which answer of its queryable is _parallel_queryable, 0 none *)
(*   size     the length of _children                                      *)
(***************************************************************************)
Queued == [t : Transformations, hint : Dist \union {None}]

ASSUME NoneAssumption == None \notin Seq(Queued)   \* None is no list

Accountant ==
  [state : {"none", "ACTIVE", "WAITING_FOR_SIBLING", "WAITING_FOR_CHILDREN",
            "RETIRED"},
   type : Types, dIn : Dist, budget : Budgets,
   pending : {None} \union Seq(Queued), pq : 0 .. MaxFan, size : 0 .. MaxFan]

NoAccountant ==
  [state |-> "none", type |-> CHOOSE t \in Types : TRUE, dIn |-> 0,
   budget |-> NoLoss, pending |-> None, pq |-> 0, size |-> 0]

NewAccountant(state, type, d, b) ==
  [NoAccountant EXCEPT !.state = state, !.type = type, !.dIn = d, !.budget = b]

ParallelOf(w, a) == Append(a, w.acct[a].pq)

Child(w, a, i) == Append(ParallelOf(w, a), i)

Parent(a) == SubSeq(a, 1, Len(a) - 2)

IndexInParent(a) == a[Len(a)]

Raised(w) == [w EXCEPT !.ok = FALSE]

HasQueryable(w, a) == IsOpen(w.tree, a)

-----------------------------------------------------------------------------
(* Queued transformations: ChainTT after Identity.                         *)

(* All of them as one transformation: stability_function composes, and     *)
(* raises when one of theirs does.                                         *)
Chained(type, pending) ==
  LET start == IF pending = <<>> THEN type ELSE pending[1].t.in
      then(u, t) ==
        [in |-> u.in, out |-> t.out, fn |-> u.fn /\ t.fn,
         stab |-> [d \in Dist |-> t.stab[u.stab[d]]]]
      chain[k \in 0 .. Len(pending)] ==
        IF k = 0
        THEN [in |-> start, out |-> start, fn |-> TRUE, stab |-> [d \in Dist |-> d]]
        ELSE then(chain[k - 1], pending[k].t)
  IN  chain[Len(pending)]

(* ChainTT.stability_relation of the whole chain: the distance after all   *)
(* but the last is told by their stability function, and by the hint of    *)
(* the chain if that raises; and so on for what is before the last.  The   *)
(* set is what the relation may return, empty when it raises for want of a *)
(* hint.                                                                   *)
ChainRelation(pending, d, e) ==
  LET mid(k) ==
        LET chain == Chained(pending[k + 1].t.in, SubSeq(pending, 1, k))
        IN  IF k = Len(pending) THEN e
            ELSE IF chain.fn THEN chain.stab[d] ELSE pending[k + 1].hint
  IN  IF \E k \in 0 .. Len(pending) : mid(k) = None
      THEN {}
      ELSE {d <= mid(0) /\ \A k \in 1 .. Len(pending) :
                             pending[k].t.stab[mid(k - 1)] <= mid(k)}

-----------------------------------------------------------------------------
(* A TransformationQuery from a to its queryable, through all wrappers.    *)
SubmitTransformation(w, a, t, hint) ==
  IF ~ Live(w.tree, a) \/ t.in # w.tree[a].type
  THEN Raised(w)
  ELSE [w EXCEPT !.tree = Transformed(@, a, t, hint),
                 !.ok = Stabilities(w.tree[a].dIn, t, hint) # {}]

(* A MeasurementQuery likewise; `raises' says that running it fails.       *)
SubmitMeasurement(w, a, m, hint, raises) ==
  LET costs == Accepted(w.tree[a], m, hint)
  IN  IF ~ Live(w.tree, a) \/ costs = {}
      THEN Raised(w)
      ELSE [w EXCEPT !.tree = Measured(@, a, m, CHOOSE c \in costs : TRUE, raises),
                     !.ok = ~ raises]

(* Mutant: what was executed stays queued.                                 *)
ExecutePendingAgain(w, a) ==
  IF ~ w.ok \/ w.acct[a].pending = None
  THEN w
  ELSE IF ~ HasQueryable(w, a)
  THEN Raised(w)
  ELSE SubmitTransformation(w, a, Chained(w.acct[a].type, w.acct[a].pending), None)

(* _execute_pending_transformation *)
ExecutePending(w, a) ==
  IF ~ w.ok \/ w.acct[a].pending = None
  THEN w
  ELSE IF ~ HasQueryable(w, a)
  THEN Raised(w)
  ELSE LET chain == Chained(w.acct[a].type, w.acct[a].pending)
           done == SubmitTransformation(w, a, chain, None)
       IN  IF done.ok THEN [done EXCEPT !.acct[a].pending = None] ELSE done

(* Mutant: the child is made ACTIVE without an IndexQuery.                 *)
ActivateChildUnasked(w, a, i) ==
  ExecutePending([w EXCEPT !.acct[Child(w, a, i)].state = "ACTIVE"], Child(w, a, i))

(* _activate_child *)
ActivateChild(w, a, i) ==
  LET c == Child(w, a, i)
      pq == ParallelOf(w, a)
      active == [w EXCEPT !.acct[c].state = "ACTIVE"]
  IN  IF ~ Live(w.tree, pq) \/ w.tree[pq].next # i
      THEN Raised(active)
      ELSE ExecutePending([active EXCEPT !.tree = Indexed(@, pq, FALSE)], c)

(* Mutants: the last child is forgotten, or the same child comes again.    *)
ActivateNextEarly(w, a, i) ==
  IF i + 1 >= w.acct[a].size
  THEN ExecutePending([w EXCEPT !.acct[a].state = "ACTIVE"], a)
  ELSE ActivateChild(w, a, i + 1)
ActivateNextAgain(w, a, i) ==
  IF i = w.acct[a].size
  THEN ExecutePending([w EXCEPT !.acct[a].state = "ACTIVE"], a)
  ELSE ActivateChild(w, a, i)

(* _activate_next, for the child of index i of a.                          *)
ActivateNext(w, a, i) ==
  IF i = w.acct[a].size
  THEN ExecutePending([w EXCEPT !.acct[a].state = "ACTIVE"], a)
  ELSE ActivateChild(w, a, i + 1)

(* force_activate, in which retired[x] is what retire(force=True) of x     *)
(* leaves behind: whatever stands between a and ACTIVE is retired, from    *)
(* its last child or its preceding sibling on.                             *)
Activated(w, a, retired) ==
  CASE w.acct[a].state = "RETIRED" -> Raised(w)
    [] w.acct[a].state = "ACTIVE" -> w
    [] w.acct[a].state = "WAITING_FOR_CHILDREN" ->
         ExecutePending(retired[Child(w, a, w.acct[a].size)], a)
    [] OTHER ->
         IF IndexInParent(a) = 1
         THEN Raised(w)
         ELSE ExecutePending(retired[Child(w, Parent(a), IndexInParent(a) - 1)], a)

(* The end of retire, for a that is ready to: the next one follows.        *)
Retirement(ready, a) ==
  LET retired == [ready EXCEPT !.acct[a].state = "RETIRED"]
  IN  IF ~ ready.ok THEN ready
      ELSE IF a = Root THEN retired
      ELSE ActivateNext(retired, Parent(a), IndexInParent(a))

(* The calls of retire nest before the first of them changes anything: all *)
(* of them find in w who is to be retired before.                          *)
ForcedRetirements(w) ==
  LET retired[a \in {x \in Accountants : w.acct[x].state # "none"}] ==
        IF w.acct[a].state = "RETIRED"
        THEN w
        ELSE Retirement(Activated(w, a, retired), a)
  IN  retired

(* Mutant: whoever is asked becomes ACTIVE.                                *)
ForceActivateAtOnce(w, a) == [w EXCEPT !.acct[a].state = "ACTIVE"]

ForceActivate(w, a) == Activated(w, a, ForcedRetirements(w))

(* Mutant: nobody follows who retires.                                     *)
RetireUnfollowed(w, a, force) ==
  IF w.acct[a].state = "WAITING_FOR_CHILDREN" /\ ~ force
  THEN Raised(w)
  ELSE [ForceActivate(w, a) EXCEPT !.acct[a].state = "RETIRED"]

Retire(w, a, force) ==
  CASE w.acct[a].state = "RETIRED" -> w
    [] w.acct[a].state = "WAITING_FOR_CHILDREN" /\ ~ force -> Raised(w)
    [] OTHER -> Retirement(ForceActivate(w, a), a)

-----------------------------------------------------------------------------
(* transform_in_place.  Its own check takes d_out = 0 for a value.         *)
TransformInPlace(w, a, t, hint) ==
  LET me == w.acct[a]
      refused == \/ me.state # "ACTIVE" \/ ~ HasQueryable(w, a)
                 \/ t.in # me.type
                 \/ hint # None /\ ~ t.stab[me.dIn] <= hint
      asked == SubmitTransformation(w, a, t, hint)
      known == Stabilities(me.dIn, t, hint)
  IN  IF refused THEN Raised(w)
      ELSE IF ~ asked.ok THEN asked
      ELSE LET typed == [asked EXCEPT !.acct[a].type = t.out]
           IN  IF known = {} THEN Raised(typed)
               ELSE [typed EXCEPT !.acct[a].dIn = CHOOSE e \in known : TRUE]

(* Mutant: the accountant does not pay.                                    *)
MeasureUnpaid(w, a, m, hint, raises) ==
  LET me == w.acct[a]
      costs == Accepted([type |-> me.type, dIn |-> me.dIn,
                         remaining |-> me.budget], m, hint)
  IN  IF me.state # "ACTIVE" \/ ~ HasQueryable(w, a) \/ costs = {}
      THEN Raised(w)
      ELSE SubmitMeasurement(w, a, m, CHOOSE c \in costs : TRUE, raises)

(* measure, for a non-interactive measurement, given as MakeInteractive(m).*)
(* The accountant pays first, then asks the queryable with its own d_out.  *)
Measure(w, a, m, hint, raises) ==
  LET me == w.acct[a]
      costs == Accepted([type |-> me.type, dIn |-> me.dIn,
                         remaining |-> me.budget], m, hint)
      cost == CHOOSE c \in costs : TRUE
      paid == [w EXCEPT !.acct[a].budget = Subtract(@, cost)]
  IN  IF me.state # "ACTIVE" \/ ~ HasQueryable(w, a) \/ costs = {}
      THEN Raised(w)
      ELSE SubmitMeasurement(paid, a, m, cost, raises)

(* The measurement split submits: every child gets the same d_in, budget.  *)
SplitMeasurement(s, d, b) ==
  [kind |-> "parallel", in |-> s.t.in, t |-> s.t,
   parts |-> [i \in 1 .. s.size |->
                [kind |-> "sequential", in |-> s.t.out, dIn |-> d, budget |-> b]]]

(* split.  d_out goes into the children's d_in, but not into the query.    *)
Split(w, a, s, b, hint, raises) ==
  LET me == w.acct[a]
      known == Stabilities(me.dIn, s.t, hint)
      d == CHOOSE e \in known : TRUE
      paid == [w EXCEPT !.acct[a].budget = Subtract(@, b)]
      asked == SubmitMeasurement(paid, a, SplitMeasurement(s, d, b), None, raises)
      n == w.tree[a].next
      child(i) == Append(Append(a, n), i)
      isChild(x) == \E i \in 1 .. s.size : x = child(i)
      split ==
        [asked EXCEPT
           !.acct = [x \in Accountants |->
              IF isChild(x)
              THEN NewAccountant("WAITING_FOR_SIBLING", s.t.out, d, b)
              ELSE IF x = a THEN [@[a] EXCEPT !.pq = n, !.size = s.size]
              ELSE @[x]]]
      active == ActivateChild(split, a, 1)
  IN  IF \/ me.state # "ACTIVE" \/ ~ HasQueryable(w, a)
         \/ known = {} \/ s.t.in # me.type \/ ~ CanSpend(me.budget, b)
      THEN Raised(w)
      ELSE IF ~ asked.ok THEN asked
      ELSE IF ~ active.ok THEN active
      ELSE [active EXCEPT !.acct[a].state = "WAITING_FOR_CHILDREN"]

(* queue_transformation.  The check of d_out refuses what satisfies the    *)
(* relation of the whole chain, from the d_in after the queued part of it. *)
QueueTransformation(w, a, t, hint) ==
  LET me == w.acct[a]
      before == IF me.pending = None THEN <<>> ELSE me.pending
      out == IF before = <<>> THEN me.type ELSE before[Len(before)].t.out
      after == Append(before, [t |-> t, hint |-> hint])
      started == [w EXCEPT !.acct[a].pending = before]
      queued == [w EXCEPT !.acct[a].pending = after]
      refused == hint # None /\ ChainRelation(after, me.dIn, hint) # {FALSE}
      d == IF hint \in {None, 0}
           THEN IF t.fn THEN {t.stab[me.dIn]} ELSE {}
           ELSE {hint}
  IN  CASE me.state = "RETIRED" -> Raised(w)
        [] me.state = "ACTIVE" -> TransformInPlace(w, a, t, hint)
        [] OTHER ->
             IF t.in # out \/ refused THEN Raised(started)
             ELSE IF d = {} THEN Raised(queued)
             ELSE [queued EXCEPT !.acct[a].dIn = CHOOSE e \in d : TRUE,
                                 !.acct[a].type = t.out]

-----------------------------------------------------------------------------
World == [tree |-> tree, acct |-> acct, ok |-> TRUE]

Becomes(w) == tree' = w.tree /\ acct' = w.acct

Exists(a) == acct[a].state # "none"

(* launch *)
Launch ==
  /\ Init
  /\ acct = [a \in Accountants |->
       IF a = Root
       THEN NewAccountant("ACTIVE", tree[Root].type, tree[Root].dIn,
                          tree[Root].remaining)
       ELSE NoAccountant]

DoTransformInPlace(a, t, hint) == Becomes(TransformInPlace(World, a, t, hint))

DoMeasure(a, m, hint) ==
  /\ m.kind = "answer"
  /\ HasRoom(a)
  /\ \E raises \in BOOLEAN : Becomes(Measure(World, a, m, hint, raises))

DoSplit(a, s, b, hint) ==
  /\ HasRoom(a) /\ Len(a) + 2 <= MaxDepth
  /\ \E raises \in BOOLEAN : Becomes(Split(World, a, s, b, hint, raises))

DoForceActivate(a) == Becomes(ForceActivate(World, a))

DoRetire(a, force) == Becomes(Retire(World, a, force))

DoQueueTransformation(a, t, hint) ==
  /\ acct[a].pending # None => Len(acct[a].pending) < MaxPending
  /\ Becomes(QueueTransformation(World, a, t, hint))

NextCall ==
  \E a \in Accountants :
    /\ Exists(a)
    /\ \/ \E t \in Transformations, hint \in DistHints :
            DoTransformInPlace(a, t, hint) \/ DoQueueTransformation(a, t, hint)
       \/ \E m \in Measurements, hint \in LossHints : DoMeasure(a, m, hint)
       \/ \E s \in Splits, b \in SplitBudgets, hint \in DistHints :
            DoSplit(a, s, b, hint)
       \/ DoForceActivate(a)
       \/ \E force \in BOOLEAN : DoRetire(a, force)

AccountantSpec == Launch /\ [][NextCall]_accountantVars

-----------------------------------------------------------------------------
AccountantTypeOK == acct \in [Accountants -> Accountant]

(* The assertions "This is probably a bug" never fire: an ACTIVE           *)
(* accountant has a queryable that answers, and one that waits for its     *)
(* children has a parallel queryable that answers.                         *)
ActiveIsUsable ==
  \A a \in Accountants :
    /\ acct[a].state \in {"ACTIVE", "WAITING_FOR_CHILDREN"} => Live(tree, a)
    /\ acct[a].state = "WAITING_FOR_CHILDREN" => Live(tree, ParallelOf(World, a))

Inactive(a) == ~ Exists(a) \/ acct[a].state = "RETIRED"

(* The partitions are visited one after the other: while an accountant     *)
(* waits for its children, those before the one in use are RETIRED, those  *)
(* after it wait, and the parallel queryable is just past the one in use;  *)
(* in any other state no child of it is in use.                            *)
ChildrenInOrder ==
  \A a \in Accountants :
    LET child(i) == Child(World, a, i)
        all == 1 .. acct[a].size
    IN  IF acct[a].state = "WAITING_FOR_CHILDREN"
        THEN \E i \in all :
               /\ acct[child(i)].state \in {"ACTIVE", "WAITING_FOR_CHILDREN"}
               /\ \A j \in all : j < i => acct[child(j)].state = "RETIRED"
               /\ \A j \in all : j > i =>
                    acct[child(j)].state = "WAITING_FOR_SIBLING"
               /\ tree[ParallelOf(World, a)].next = i + 1
        ELSE \A i \in all : acct[child(i)].state = "RETIRED"

(* Until the root is retired there is exactly one accountant that can act, *)
(* afterwards none: whatever call raises, the family never gets stuck with *)
(* nobody ACTIVE, and never has two.                                       *)
OneActive ==
  Cardinality({a \in Accountants : acct[a].state = "ACTIVE"}) =
    IF acct[Root].state = "RETIRED" THEN 0 ELSE 1

(* The transitions PrivacyAccountantState documents, also across a call    *)
(* that moves an accountant through several states.                        *)
DocumentedTransitions ==
  [][\A a \in Accountants :
       /\ acct[a].state = "RETIRED" => acct'[a] = acct[a]
       /\ acct'[a].state = "WAITING_FOR_SIBLING" =>
            acct[a].state \in {"none", "WAITING_FOR_SIBLING"}
       /\ acct'[a].state = "WAITING_FOR_CHILDREN" =>
            acct[a].state \in {"ACTIVE", "WAITING_FOR_CHILDREN"}
    ]_accountantVars

(* The budget an accountant shows never exceeds what its queryable will    *)
(* let it spend.                                                           *)
BudgetWithinQueryable ==
  \A a \in Accountants : HasQueryable(World, a) =>
    Compare(acct[a].budget, tree[a].remaining)

(* What is queued is applied to the data once, as the queue is executed    *)
(* when the accountant becomes ACTIVE: whoever can act has nothing queued  *)
(* that its next activation would apply again, through all cascades and    *)
(* whatever raises in them, unless executing it raised after the data were *)
(* replaced.                                                               *)
OnlyTornStaysQueued ==
  \A a \in Accountants :
    acct[a].state = "ACTIVE" /\ acct[a].pending # None => tree[a].torn

(* With a stability function for every transformation and no explicit      *)
(* d_out, an accountant and its queryable agree: on the budget always, on  *)
(* d_in, domain and metric once no queued transformation is outstanding.   *)
AgreesWithQueryable ==
  \A a \in Accountants : HasQueryable(World, a) =>
    /\ acct[a].budget = tree[a].remaining
    /\ acct[a].pending = None =>
         acct[a].dIn = tree[a].dIn /\ acct[a].type = tree[a].type

(* "If force is True, retire can always be called."                        *)
RetireAlwaysPossible ==
  \A a \in Accountants : Exists(a) => Retire(World, a, TRUE).ok

(* Queueing a transformation with a d_out has "the same behavior as        *)
(* transform_in_place" but for the time it is applied: the d_in the        *)
(* accountant shows afterwards satisfies the stability relation.           *)
QueuedDistanceSufficient ==
  \A a \in Accountants, t \in Transformations, d \in DistHints :
    LET w == QueueTransformation(World, a, t, d)
    IN  /\ acct[a].state \in {"WAITING_FOR_SIBLING", "WAITING_FOR_CHILDREN"}
        /\ w.ok
        => t.stab[acct[a].dIn] <= w.acct[a].dIn

(* privacy_budget "Returns the remaining privacy budget": the one the      *)
(* queryable has, whatever calls raised on the way.                        *)
BudgetIsRemaining ==
  \A a \in Accountants : HasQueryable(World, a) =>
    acct[a].budget = tree[a].remaining
=============================================================================
