-------------------------- MODULE WorkPlan_proofs --------------------------
(***************************************************************************)
(* The rewrites of a plan take plans to plans, and what validate_graph     *)
(* finds a cycle in has a knot, which no rewrite ties: the lemmas the      *)
(* proofs about BuildPhase cite.                                           *)
(***************************************************************************)
EXTENDS WorkPlan, FiniteSetTheorems, WellFoundedInduction, TLAPS

(* A new work item is well formed (the defaults of class WorkItem). *)
LEMMA NewItemType ==
  ASSUME NEW deps \in SUBSET Items, NEW fix \in BOOLEAN
  PROVE  NewItem(deps, fix) \in WorkItem
BY DEF NewItem, WorkItem, Statuses

(* The cleanup of interrupted attempts keeps the plan well formed. *)
LEMMA CleanedType ==
  ASSUME NEW p \in Plans
  PROVE  Cleaned(p) \in Plans
<1>1. ASSUME NEW i \in Items
      PROVE  [p[i] EXCEPT !.live = FALSE,
                          !.status = IF @ = "in_progress" THEN "todo" ELSE @] \in WorkItem
  <2>1. p[i] \in WorkItem
    BY DEF Plans
  <2> QED
    BY <2>1 DEF WorkItem, Statuses
<1> QED
  BY <1>1 DEF Cleaned, Plans

(* So does the revival of items, *)
LEMMA RevivedType ==
  ASSUME NEW p \in Plans, NEW S
  PROVE  Revived(p, S) \in Plans
<1>1. ASSUME NEW i \in Items
      PROVE  /\ p[i] \in WorkItem
             /\ [p[i] EXCEPT !.status = "todo", !.fails = 0, !.live = FALSE,
                             !.good = FALSE, !.tested = FALSE] \in WorkItem
  <2>1. p[i] \in WorkItem
    BY DEF Plans
  <2> QED
    BY <2>1 DEF WorkItem, Statuses
<1> QED
  BY <1>1 DEF Revived, Plans

(* a change of status, *)
LEMMA WithStatusType ==
  ASSUME NEW p \in Plans, NEW S, NEW status \in Statuses
  PROVE  WithStatus(p, S, status) \in Plans
BY DEF WithStatus, Plans, WorkItem

(* A record stays a work item when fields get values of their types. *)
LEMMA EndedType ==
  ASSUME NEW w \in WorkItem, NEW status \in Statuses, NEW fails \in Nat
  PROVE  [w EXCEPT !.status = status, !.fails = fails, !.live = FALSE, !.good = FALSE]
           \in WorkItem
BY DEF WorkItem

(* dropped,                                                                 *)
LEMMA DroppedType ==
  ASSUME NEW w \in WorkItem, NEW triaged \in Nat
  PROVE  [w EXCEPT !.status = "dropped", !.triaged = triaged] \in WorkItem
BY DEF WorkItem, Statuses, TerminalStatuses

(* and with other dependencies.                                             *)
LEMMA RewiredType ==
  ASSUME NEW w \in WorkItem, NEW deps \in SUBSET Items
  PROVE  [w EXCEPT !.deps = deps] \in WorkItem
BY DEF WorkItem

(* the end of an attempt without success, *)
LEMMA FailedType ==
  ASSUME NEW p \in Plans, NEW i \in Items, NEW status \in Statuses
  PROVE  Failed(p, i, status) \in Plans
<1> DEFINE ended == [p[i] EXCEPT !.status = status, !.fails = @ + 1, !.live = FALSE,
                                 !.good = FALSE]
<1>1. p[i] \in WorkItem
  BY DEF Plans
<1>2. ended \in WorkItem
  <2>1. p[i].fails + 1 \in Nat
    BY <1>1 DEF WorkItem
  <2> QED
    BY <1>1, <2>1, EndedType
<1>3. ASSUME NEW j \in Items
      PROVE  Failed(p, i, status)[j] = IF j = i THEN ended ELSE p[j]
  BY DEF Failed, Plans
<1>4. Failed(p, i, status) = [j \in Items |-> Failed(p, i, status)[j]]
  BY DEF Failed, Plans
<1> HIDE DEF ended
<1> QED
  BY <1>2, <1>3, <1>4 DEF Plans

(* and the marker of a triage round. *)
LEMMA MarkedType ==
  ASSUME NEW p \in Plans, NEW i \in Items
  PROVE  Marked(p, i) \in Plans
BY DEF Marked, OneMore, Plans, WorkItem

(* A split gives a well-formed plan when its replacements are items and the *)
(* draft is a non-empty list.                                               *)
LEMMA SplitType ==
  ASSUME NEW p \in Plans, NEW i \in Items, NEW draft, NEW size \in Nat \ {0},
         NEW r \in [1 .. size -> Items],
         Cardinality(DOMAIN r) = size
  PROVE  Split(p, i, draft, r) \in Plans
<1>1. ASSUME NEW k \in 1 .. size
      PROVE  Replacement(p, i, draft, r, k) \in WorkItem
  <2> DEFINE drafted == {r[n] : n \in (draft[k] \cap DOMAIN r) \ {k}}
             after   == IF k = 1 THEN {} ELSE {r[k - 1]}
  <2>1. drafted \in SUBSET Items
    OBVIOUS
  <2>2. p[i].deps \in SUBSET Items
    BY DEF Plans, WorkItem
  <2>3. after \in SUBSET Items
    OBVIOUS
  <2>4. (drafted \cup p[i].deps \cup after) \in SUBSET Items
    BY <2>1, <2>2, <2>3
  <2> QED
    BY <2>4, NewItemType DEF Replacement
<1>2. r[size] \in Items
  OBVIOUS
<1>3. ASSUME NEW j \in {r[k] : k \in DOMAIN r}
      PROVE  (CHOOSE k \in DOMAIN r : r[k] = j) \in 1 .. size
  OBVIOUS
<1>4. ASSUME NEW j \in Items
      PROVE  /\ [p[i] EXCEPT !.status = "dropped", !.triaged = OneMore(@)] \in WorkItem
             /\ [p[j] EXCEPT !.deps = (@ \ {i}) \cup {r[size]}] \in WorkItem
             /\ p[j] \in WorkItem
  <2>1. p[i] \in WorkItem /\ p[j] \in WorkItem
    BY DEF Plans
  <2>2. OneMore(p[i].triaged) \in Nat
    BY <2>1 DEF WorkItem, OneMore
  <2>3. ((p[j].deps \ {i}) \cup {r[size]}) \in SUBSET Items
    BY <1>2, <2>1 DEF WorkItem
  <2> QED
    BY <2>1, <2>2, <2>3, DroppedType, RewiredType
<1>5. ASSUME NEW j \in Items
      PROVE  Split(p, i, draft, r)[j] \in WorkItem
  <2>1. CASE j \in {r[k] : k \in DOMAIN r}
    <3>1. Split(p, i, draft, r)[j]
            = Replacement(p, i, draft, r, CHOOSE k \in DOMAIN r : r[k] = j)
      BY <2>1 DEF Split
    <3> QED
      BY <2>1, <3>1, <1>1, <1>3
  <2>2. CASE j \notin {r[k] : k \in DOMAIN r}
    <3> DEFINE dropped == [p[i] EXCEPT !.status = "dropped", !.triaged = OneMore(@)]
               rewired == [p[j] EXCEPT !.deps = (@ \ {i}) \cup {r[size]}]
    <3>1. dropped \in WorkItem /\ rewired \in WorkItem /\ p[j] \in WorkItem
      BY <1>4
    <3>2. Split(p, i, draft, r)[j] = IF j = i THEN dropped
                                     ELSE IF i \in p[j].deps THEN rewired ELSE p[j]
      BY <2>2 DEF Split
    <3> HIDE DEF dropped, rewired
    <3> QED
      BY <3>1, <3>2
  <2> QED
    BY <2>1, <2>2
<1>6. Split(p, i, draft, r) = [j \in Items |-> Split(p, i, draft, r)[j]]
  BY DEF Split
<1> QED
  BY <1>5, <1>6 DEF Plans

(* A plan in which one item is replaced by a work item is a plan. *)
LEMMA ReplacedType ==
  ASSUME NEW p \in Plans, NEW i, NEW w \in WorkItem
  PROVE  [p EXCEPT ![i] = w] \in Plans
BY DEF Plans

-----------------------------------------------------------------------------
(* Rounds.  A recursive function over the first numbers exists, and what it *)
(* holds after every round is known from the round before.                  *)

(* A set of numbers that is not empty has a least one. *)
LEMMA LeastNumber ==
  ASSUME NEW T \in SUBSET Nat, T # {}
  PROVE  \E x \in T : \A y \in T : x <= y
<1> DEFINE R == {ss \in Nat \X Nat : ss[1] < ss[2]}
<1>1. IsWellFoundedOn(R, Nat)
  BY NatLessThanWellFounded DEF OpToRel
<1>2. ASSUME NEW x \in Nat, NEW y \in Nat, y < x
      PROVE  <<y, x>> \in R
  BY <1>2
<1> HIDE DEF R
<1>3. PICK x \in T : \A y \in T : ~ (<<y, x>> \in R)
  BY <1>1, WFMin
<1>4. \A y \in T : ~ (y < x)
  BY <1>2, <1>3
<1> QED
  BY <1>4

(* The function that iterates a step over the first m numbers. *)
Iterates(g, m, D, first, step) ==
  /\ g \in [0 .. m -> D] /\ g[0] = first
  /\ \A n \in 1 .. m : g[n] = step[g[n - 1]]

(* There is one for every m. *)
LEMMA IterationExists ==
  ASSUME NEW D, NEW first \in D, NEW step \in [D -> D], NEW m \in Nat
  PROVE  \E g : Iterates(g, m, D, first, step)
<1> DEFINE without == {k \in Nat : ~ \E g : Iterates(g, k, D, first, step)}
<1>1. SUFFICES ASSUME without # {} PROVE FALSE
  OBVIOUS
<1>2. PICK k \in without : \A l \in without : k <= l
  <2>1. without \in SUBSET Nat
    OBVIOUS
  <2> HIDE DEF without
  <2> QED
    BY <1>1, <2>1, LeastNumber
<1>3. k # 0
  <2>1. Iterates([n \in 0 .. 0 |-> first], 0, D, first, step)
    BY DEF Iterates
  <2> QED
    BY <1>2, <2>1
<1>4. k \in Nat \ {0} /\ k - 1 \in Nat /\ k - 1 \notin without
  <2>1. k \in Nat
    OBVIOUS
  <2> HIDE DEF without
  <2> QED
    BY <1>2, <1>3, <2>1
<1>5. PICK g : Iterates(g, k - 1, D, first, step)
  BY <1>4
<1> DEFINE h == [n \in 0 .. k |-> IF n = k THEN step[g[k - 1]] ELSE g[n]]
<1>6. Iterates(h, k, D, first, step)
  <2>1. k \in Nat \ {0} /\ \A n \in 0 .. k - 1 : g[n] \in D
    BY <1>4, <1>5 DEF Iterates
  <2>2. h \in [0 .. k -> D] /\ h[0] = first
    BY <1>5, <2>1 DEF Iterates
  <2>3. ASSUME NEW n \in 1 .. k
        PROVE  h[n] = step[h[n - 1]]
    <3>1. n - 1 \in 0 .. k /\ h[n - 1] = g[n - 1]
      BY <2>1
    <3>2. CASE n = k
      BY <3>1, <3>2
    <3>3. CASE n # k
      BY <1>5, <2>1, <3>1, <3>3 DEF Iterates
    <3> QED
      BY <3>2, <3>3
  <2> QED
    BY <2>2, <2>3 DEF Iterates
<1> QED
  BY <1>2, <1>6

(* What a round of validate_graph dequeues when earlier is out. *)
Free(p, earlier) == {i \in InPlan(p) : p[i].deps \cap InPlan(p) \subseteq earlier}

(* The rounds of validate_graph. *)
LEMMA DequeuedRounds ==
  ASSUME NEW p
  PROVE  \E out \in [0 .. Cardinality(Items) -> SUBSET InPlan(p)] :
            /\ out[0] = {}
            /\ \A n \in 1 .. Cardinality(Items) : out[n] = Free(p, out[n - 1])
            /\ Dequeued(p) = out[Cardinality(Items)]
<1> DEFINE m == Cardinality(Items)
           D == SUBSET InPlan(p)
           step == [S \in D |-> Free(p, S)]
           F == CHOOSE f : f = [n \in 0 .. Cardinality(Items) |->
                                  IF n = 0 THEN {} ELSE Free(p, f[n - 1])]
<1>1. m \in Nat
  BY WorkPlanAssumption, FS_CardinalityType
<1>2. {} \in D /\ step \in [D -> D]
  BY DEF Free
<1>3. PICK g : Iterates(g, m, D, {}, step)
  <2> HIDE DEF m, D, step
  <2> QED
    BY <1>1, <1>2, IterationExists
<1>4. g = [n \in 0 .. m |-> IF n = 0 THEN {} ELSE Free(p, g[n - 1])]
  <2>1. ASSUME NEW n \in 0 .. m
        PROVE  g[n] = IF n = 0 THEN {} ELSE Free(p, g[n - 1])
    <3> HIDE DEF m, D, F
    <3>1. CASE n = 0
      BY <1>3, <3>1 DEF Iterates
    <3>2. CASE n # 0
      <4>1. n \in 1 .. m /\ n - 1 \in 0 .. m
        BY <1>1, <3>2
      <4>2. g[n - 1] \in D /\ g[n] = step[g[n - 1]]
        BY <1>3, <4>1 DEF Iterates
      <4> QED
        BY <3>2, <4>2
    <3> QED
      BY <3>1, <3>2
  <2> QED
    BY <1>3, <2>1 DEF Iterates
<1>5. F = [n \in 0 .. Cardinality(Items) |-> IF n = 0 THEN {} ELSE Free(p, F[n - 1])]
  BY <1>4
<1>6. Dequeued(p) = F[Cardinality(Items)]
  BY DEF Dequeued, Free
<1> HIDE DEF F
<1>7. F \in [0 .. m -> D] /\ F[0] = {}
  BY <1>1, <1>5 DEF Free
<1>8. ASSUME NEW n \in 1 .. m
      PROVE  F[n] = Free(p, F[n - 1])
  <2>1. n \in 0 .. m /\ n # 0
    BY <1>1
  <2> QED
    BY <1>5, <2>1 DEF Iterates
<1> QED
  BY <1>6, <1>7, <1>8

(* No set of items in which every one waits for another of the set. *)
NoKnot(p) ==
  \A S \in SUBSET InPlan(p) : S # {} => \E i \in S : p[i].deps \cap S = {}

(* A plan of which everything is dequeued has none: of a knot nothing is    *)
(* ever dequeued.                                                           *)
LEMMA AcyclicNoKnot ==
  ASSUME NEW p, ~HasCycle(p)
  PROVE  NoKnot(p)
<1> DEFINE m == Cardinality(Items)
<1>1. m \in Nat
  BY WorkPlanAssumption, FS_CardinalityType
<1>2. SUFFICES ASSUME NEW S \in SUBSET InPlan(p), S # {},
                      \A i \in S : p[i].deps \cap S # {}
               PROVE  FALSE
  BY DEF NoKnot
<1>3. PICK out \in [0 .. m -> SUBSET InPlan(p)] :
        /\ out[0] = {}
        /\ \A n \in 1 .. m : out[n] = Free(p, out[n - 1])
        /\ Dequeued(p) = out[m]
  BY DequeuedRounds
<1> DEFINE early == {n \in 0 .. m : out[n] \cap S # {}}
<1>4. m \in early
  BY <1>1, <1>2, <1>3 DEF HasCycle
<1>5. PICK n \in early : \A k \in early : n <= k
  <2>1. early \in SUBSET Nat
    BY <1>1
  <2> HIDE DEF early
  <2> QED
    BY <1>4, <2>1, LeastNumber
<1>6. n \in 1 .. m /\ n - 1 \in 0 .. m /\ n - 1 \notin early
  <2>1. n # 0
    BY <1>3
  <2>2. n \in 0 .. m /\ n - 1 \in 0 .. m
    BY <1>1, <2>1
  <2> HIDE DEF early, m
  <2> QED
    BY <1>1, <1>5, <2>1, <2>2
<1>7. PICK i \in out[n] : i \in S
  BY <1>5
<1>8. p[i].deps \cap InPlan(p) \subseteq out[n - 1]
  BY <1>3, <1>6, <1>7 DEF Free
<1>9. out[n - 1] \cap S = {}
  BY <1>6
<1> QED
  BY <1>2, <1>7, <1>8, <1>9

(* And the other way about: until everything is dequeued, every round takes *)
(* one item more.                                                           *)
LEMMA NoKnotAcyclic ==
  ASSUME NEW p, NoKnot(p)
  PROVE  ~HasCycle(p)
<1> DEFINE m == Cardinality(Items)
<1>1. m \in Nat /\ IsFiniteSet(Items)
  BY WorkPlanAssumption, FS_CardinalityType
<1>2. PICK out \in [0 .. m -> SUBSET InPlan(p)] :
        /\ out[0] = {}
        /\ \A n \in 1 .. m : out[n] = Free(p, out[n - 1])
        /\ Dequeued(p) = out[m]
  BY DequeuedRounds
<1>3. ASSUME NEW S \in SUBSET InPlan(p)
      PROVE  S \in SUBSET Items /\ IsFiniteSet(S) /\ Cardinality(S) \in Nat
  <2>1. S \in SUBSET Items
    BY DEF InPlan
  <2> QED
    BY <1>1, <2>1, FS_Subset, FS_CardinalityType
<1> DEFINE Grows(n) == n = 0 \/ out[n - 1] \subseteq out[n]
           Fills(n) == out[n] = InPlan(p) \/ Cardinality(out[n]) >= n
           stuck    == {n \in 0 .. m : ~(Grows(n) /\ Fills(n))}
<1>4. stuck = {}
  <2>1. SUFFICES ASSUME stuck # {} PROVE FALSE
    OBVIOUS
  <2>2. PICK n \in stuck : \A k \in stuck : n <= k
    <3>1. stuck \in SUBSET Nat
      BY <1>1
    <3> HIDE DEF stuck
    <3> QED
      BY <2>1, <3>1, LeastNumber
  <2>3. n # 0
    <3>1. Cardinality({}) >= 0
      BY FS_EmptySet
    <3> QED
      BY <1>2, <2>2, <3>1
  <2>4. n \in 1 .. m /\ n - 1 \in 0 .. m /\ n - 1 \notin stuck
    <3>1. n \in 1 .. m /\ n - 1 \in 0 .. m
      BY <1>1, <2>3
    <3> HIDE DEF stuck, m
    <3> QED
      BY <1>1, <2>2, <3>1
  <2>5. /\ out[n] = Free(p, out[n - 1])
        /\ out[n - 1] \in SUBSET InPlan(p) /\ out[n] \in SUBSET InPlan(p)
    BY <1>2, <2>4
  <2>6. Grows(n)
    <3>1. CASE n = 1
      BY <1>2, <3>1
    <3>2. CASE n # 1
      <4>1. n - 1 \in 1 .. m /\ n - 1 # 0 /\ Grows(n - 1)
        BY <1>1, <2>4, <3>2
      <4>2. out[n - 1] = Free(p, out[(n - 1) - 1])
        BY <1>2, <4>1
      <4>3. out[(n - 1) - 1] \subseteq out[n - 1]
        BY <4>1
      <4> QED
        BY <2>5, <4>2, <4>3 DEF Free
    <3> QED
      BY <3>1, <3>2
  <2>7. Fills(n)
    <3>1. CASE out[n - 1] = InPlan(p)
      BY <2>5, <3>1 DEF Free
    <3>2. CASE out[n - 1] # InPlan(p)
      <4> DEFINE left == InPlan(p) \ out[n - 1]
      <4>1. left # {} /\ left \in SUBSET InPlan(p)
        BY <2>5, <3>2
      <4>2. PICK i \in left : p[i].deps \cap left = {}
        BY <4>1 DEF NoKnot
      <4>3. i \in out[n] /\ i \notin out[n - 1]
        BY <2>5, <4>2 DEF Free
      <4>4. out[n - 1] \cup {i} \in SUBSET out[n]
        BY <2>3, <2>6, <4>3
      <4>5. Cardinality(out[n - 1]) >= n - 1
        BY <2>4, <3>2
      <4>6. Cardinality(out[n - 1] \cup {i}) = Cardinality(out[n - 1]) + 1
        BY <1>3, <2>5, <4>3, FS_AddElement
      <4>7. Cardinality(out[n - 1] \cup {i}) <= Cardinality(out[n])
        BY <1>3, <2>5, <4>4, FS_Subset
      <4>8. Cardinality(out[n - 1]) \in Nat /\ Cardinality(out[n]) \in Nat /\ n \in Nat
        BY <1>1, <1>3, <2>4, <2>5
      <4> HIDE DEF m
      <4>9. Cardinality(out[n]) >= n
        BY <4>5, <4>6, <4>7, <4>8
      <4> QED
        BY <4>9
    <3> QED
      BY <3>1, <3>2
  <2> QED
    BY <2>2, <2>6, <2>7
<1>5. Fills(m)
  BY <1>1, <1>4
<1>6. CASE Cardinality(out[m]) >= m
  <2>1. out[m] \in SUBSET InPlan(p) /\ InPlan(p) \in SUBSET Items
    BY <1>1, <1>2 DEF InPlan
  <2>2. out[m] \in SUBSET Items /\ Cardinality(out[m]) \in Nat
    BY <1>3, <2>1
  <2>3. Cardinality(out[m]) <= m
    BY <1>1, <2>2, FS_Subset
  <2>4. out[m] = Items
    <3>1. Cardinality(Items) = Cardinality(out[m])
      BY <1>1, <1>6, <2>2, <2>3
    <3> QED
      BY <1>1, <2>2, <3>1, FS_Subset
  <2> QED
    BY <1>2, <2>1, <2>4 DEF HasCycle
<1> QED
  BY <1>2, <1>5, <1>6 DEF HasCycle

-----------------------------------------------------------------------------
(* Rewrites tie no knots.                                                   *)

(* In q nothing waits for more than in p, but what waits for nothing. *)
NoNewWaits(p, q) ==
  \A i \in InPlan(q) :
    \/ i \in InPlan(p) /\ q[i].deps \subseteq p[i].deps
    \/ q[i].deps = {}

(* Such a rewrite ties no knot. *)
LEMMA NoNewKnot ==
  ASSUME NEW p, NEW q, NoNewWaits(p, q), NoKnot(p)
  PROVE  NoKnot(q)
<1>1. SUFFICES ASSUME NEW S \in SUBSET InPlan(q), S # {}
               PROVE  \E i \in S : q[i].deps \cap S = {}
  BY DEF NoKnot
<1>2. CASE \E i \in S : q[i].deps = {}
  BY <1>2
<1>3. CASE \A i \in S : q[i].deps # {}
  <2>1. S \in SUBSET InPlan(p) /\ \A i \in S : q[i].deps \subseteq p[i].deps
    BY <1>3 DEF NoNewWaits
  <2>2. PICK i \in S : p[i].deps \cap S = {}
    BY <1>1, <2>1 DEF NoKnot
  <2> QED
    BY <2>1, <2>2
<1> QED
  BY <1>2, <1>3

(* Rewrites that change neither who is in the plan nor who waits for whom. *)
SameGraph(p, q) ==
  \A i \in Items : /\ q[i].deps = p[i].deps
                   /\ q[i].status = "absent" <=> p[i].status = "absent"

(* They tie no knot. *)
LEMMA SameGraphWaits ==
  ASSUME NEW p, NEW q, SameGraph(p, q)
  PROVE  InPlan(q) = InPlan(p) /\ NoNewWaits(p, q)
BY DEF SameGraph, NoNewWaits, InPlan

(* The cleanup is one of them, *)
LEMMA CleanedGraph ==
  ASSUME NEW p \in Plans
  PROVE  SameGraph(p, Cleaned(p))
<1>1. ASSUME NEW i \in Items
      PROVE  /\ Cleaned(p)[i].deps = p[i].deps
             /\ Cleaned(p)[i].status = "absent" <=> p[i].status = "absent"
  <2>1. Cleaned(p)[i] = [p[i] EXCEPT !.live = FALSE,
                            !.status = IF @ = "in_progress" THEN "todo" ELSE @]
    BY DEF Cleaned
  <2>2. p[i] \in WorkItem
    BY DEF Plans
  <2> QED
    BY <2>1, <2>2 DEF WorkItem
<1> QED
  BY <1>1 DEF SameGraph

(* the revival of items of the plan, *)
LEMMA RevivedGraph ==
  ASSUME NEW p \in Plans, NEW S \in SUBSET InPlan(p)
  PROVE  SameGraph(p, Revived(p, S))
<1>1. ASSUME NEW i \in Items
      PROVE  /\ Revived(p, S)[i].deps = p[i].deps
             /\ Revived(p, S)[i].status = "absent" <=> p[i].status = "absent"
  BY DEF Revived, Plans, WorkItem, InPlan
<1> QED
  BY <1>1 DEF SameGraph

(* a change of their status, *)
LEMMA WithStatusGraph ==
  ASSUME NEW p \in Plans, NEW S \in SUBSET InPlan(p), NEW status, status # "absent"
  PROVE  SameGraph(p, WithStatus(p, S, status))
<1>1. ASSUME NEW i \in Items
      PROVE  /\ WithStatus(p, S, status)[i].deps = p[i].deps
             /\ WithStatus(p, S, status)[i].status = "absent" <=> p[i].status = "absent"
  BY DEF WithStatus, Plans, WorkItem, InPlan
<1> QED
  BY <1>1 DEF SameGraph

(* the end of an attempt, *)
LEMMA FailedGraph ==
  ASSUME NEW p \in Plans, NEW i \in InPlan(p), NEW status, status # "absent"
  PROVE  SameGraph(p, Failed(p, i, status))
<1>1. i \in Items /\ p[i].status # "absent" /\ p[i] \in WorkItem
  BY DEF InPlan, Plans
<1>2. Failed(p, i, status)[i].deps = p[i].deps /\ Failed(p, i, status)[i].status = status
  BY <1>1 DEF Failed, Plans, WorkItem
<1>3. \A j \in Items \ {i} : Failed(p, i, status)[j] = p[j]
  BY DEF Failed, Plans
<1> QED
  BY <1>1, <1>2, <1>3 DEF SameGraph

(* and a mark, after any other.                                             *)
LEMMA MarkedGraph ==
  ASSUME NEW p, NEW q \in Plans, NEW i \in Items, SameGraph(p, q)
  PROVE  SameGraph(p, Marked(q, i))
<1>1. ASSUME NEW j \in Items
      PROVE  Marked(q, i)[j].deps = q[j].deps /\ Marked(q, i)[j].status = q[j].status
  BY DEF Marked, Plans, WorkItem
<1> QED
  BY <1>1 DEF SameGraph

(* A new item waits for nothing. *)
LEMMA AddedGraph ==
  ASSUME NEW p \in Plans, NEW n \in InStatus(p, "absent"), NEW fix
  PROVE  LET q == [p EXCEPT ![n] = NewItem({}, fix)]
         IN  /\ NoNewWaits(p, q) /\ InPlan(p) \subseteq InPlan(q)
             /\ \A i \in InPlan(p) : q[i] = p[i]
<1> DEFINE q == [p EXCEPT ![n] = NewItem({}, fix)]
<1>1. n \in Items /\ p[n].status = "absent" /\ n \notin InPlan(p)
  BY DEF InStatus, InPlan
<1>2. q[n].deps = {} /\ q[n].status = "todo"
  BY <1>1 DEF Plans, NewItem
<1>3. \A i \in Items \ {n} : q[i] = p[i]
  BY DEF Plans
<1> HIDE DEF q
<1>4. NoNewWaits(p, q) /\ InPlan(p) \subseteq InPlan(q) /\ \A i \in InPlan(p) : q[i] = p[i]
  BY <1>1, <1>2, <1>3 DEF NoNewWaits, InPlan
<1> QED
  BY <1>4 DEF q

-----------------------------------------------------------------------------
(* Splits.                                                                  *)

(* As many replacements as were drafted, all of them new and different. *)
Replacements(p, r, size) ==
  /\ size \in Nat \ {0} /\ Cardinality(1 .. size) = size
  /\ r \in [1 .. size -> InStatus(p, "absent")]
  /\ \A j, k \in 1 .. size : j < k => r[j] # r[k]

(* What a split leaves in the plan, and who waits for whom in it. *)
Rewired(p, q, i, draft, r, size) ==
  /\ InPlan(q) = InPlan(p) \cup {r[k] : k \in 1 .. size}
  /\ \A k \in 1 .. size :
       q[r[k]].deps = {r[n] : n \in (draft[k] \cap 1 .. size) \ {k}}
                        \cup p[i].deps \cup (IF k = 1 THEN {} ELSE {r[k - 1]})
  /\ q[i].deps = p[i].deps /\ q[i].status = "dropped"
  /\ \A j \in InPlan(p) \ {i} :
       /\ q[j].status = p[j].status
       /\ q[j].deps = (IF i \in p[j].deps THEN (p[j].deps \ {i}) \cup {r[size]}
                                          ELSE p[j].deps)

LEMMA SplitGraph ==
  ASSUME NEW p \in Plans, NEW i \in InPlan(p), NEW draft, NEW size, NEW r,
         Replacements(p, r, size)
  PROVE  Rewired(p, Split(p, i, draft, r), i, draft, r, size)
<1> DEFINE q    == Split(p, i, draft, r)
           news == {r[k] : k \in 1 .. size}
<1> USE DEF Replacements
<1>1. news \subseteq InStatus(p, "absent") /\ i \notin news /\ i \in Items
  BY DEF InPlan, InStatus
<1>2. ASSUME NEW k \in 1 .. size
      PROVE  /\ q[r[k]].deps = {r[n] : n \in (draft[k] \cap 1 .. size) \ {k}}
                                 \cup p[i].deps \cup (IF k = 1 THEN {} ELSE {r[k - 1]})
             /\ q[r[k]].status = "todo"
  <2> DEFINE c == CHOOSE n \in DOMAIN r : r[n] = r[k]
  <2>1. c \in 1 .. size /\ r[c] = r[k]
    OBVIOUS
  <2>2. c = k
    <3> HIDE DEF c
    <3>1. ~(c < k) /\ ~(k < c)
      BY <2>1
    <3> QED
      BY <2>1, <3>1
  <2>3. r[k] \in Items /\ r[k] \in {r[n] : n \in DOMAIN r}
    BY <1>1 DEF InStatus
  <2>4. q[r[k]] = Replacement(p, i, draft, r, c)
    BY <2>3 DEF Split
  <2> HIDE DEF c, q
  <2> QED
    BY <2>2, <2>4 DEF Replacement, NewItem
<1>3. q[i].deps = p[i].deps /\ q[i].status = "dropped"
  <2>1. q[i] = [p[i] EXCEPT !.status = "dropped", !.triaged = OneMore(@)]
    BY <1>1 DEF Split
  <2>2. p[i] \in WorkItem
    BY <1>1 DEF Plans
  <2> HIDE DEF q
  <2> QED
    BY <2>1, <2>2 DEF WorkItem
<1>4. ASSUME NEW j \in Items \ {i}, j \notin news
      PROVE  /\ q[j].status = p[j].status
             /\ q[j].deps = (IF i \in p[j].deps THEN (p[j].deps \ {i}) \cup {r[size]}
                                                ELSE p[j].deps)
  <2>1. q[j] = IF i \in p[j].deps THEN [p[j] EXCEPT !.deps = (@ \ {i}) \cup {r[size]}]
                                  ELSE p[j]
    BY <1>4 DEF Split
  <2>2. p[j] \in WorkItem
    BY DEF Plans
  <2> HIDE DEF q
  <2> QED
    BY <2>1, <2>2 DEF WorkItem
<1> HIDE DEF q
<1>5. InPlan(q) = InPlan(p) \cup news
  <2>1. ASSUME NEW j \in Items
        PROVE  q[j].status # "absent" <=> p[j].status # "absent" \/ j \in news
    <3>1. CASE j \in news
      BY <1>2, <3>1
    <3>2. CASE j = i
      BY <1>3, <3>2 DEF InPlan
    <3>3. CASE j \in Items \ {i} /\ j \notin news
      BY <1>4, <3>3
    <3> QED
      BY <3>1, <3>2, <3>3
  <2> QED
    BY <1>1, <2>1 DEF InPlan, InStatus
<1>6. \A j \in InPlan(p) \ {i} : j \in Items \ {i} /\ j \notin news
  BY <1>1 DEF InPlan, InStatus
<1> QED
  BY <1>2, <1>3, <1>4, <1>5, <1>6 DEF q, Rewired

(* A split ties no knot when its replacements are drafted in order: of a    *)
(* knot that holds replacements, the first of them would wait for what the  *)
(* split item waited for, and make a knot of the plan before.               *)
LEMMA SplitNoKnot ==
  ASSUME NEW p \in Plans, NoKnot(p), \A j \in InPlan(p) : p[j].deps \subseteq InPlan(p),
         NEW i \in InPlan(p), NEW draft, NEW size, NEW r, Replacements(p, r, size),
         \A k \in 1 .. size : draft[k] \cap 1 .. size \subseteq 1 .. k
  PROVE  NoKnot(Split(p, i, draft, r))
<1> DEFINE q    == Split(p, i, draft, r)
           news == {r[k] : k \in 1 .. size}
<1>1. Rewired(p, q, i, draft, r, size)
  BY SplitGraph
<1>2. news \cap InPlan(p) = {} /\ r[size] \in news
  BY DEF InPlan, InStatus, Replacements
<1> HIDE DEF q
<1>3. SUFFICES ASSUME NEW S \in SUBSET InPlan(q), S # {}
               PROVE  \E j \in S : q[j].deps \cap S = {}
  BY DEF NoKnot, q
<1>4. CASE S \cap news = {}
  <2>1. S \in SUBSET InPlan(p)
    BY <1>1, <1>4 DEF Rewired
  <2>2. PICK j \in S : p[j].deps \cap S = {}
    BY <1>3, <2>1 DEF NoKnot
  <2>3. q[j].deps \subseteq p[j].deps \cup {r[size]}
    BY <1>1, <2>1 DEF Rewired
  <2> QED
    BY <1>2, <1>4, <2>2, <2>3
<1>5. CASE S \cap news # {}
  <2> DEFINE before == (S \cap InPlan(p)) \cup {i}
  <2>1. before \in SUBSET InPlan(p) /\ before # {}
    OBVIOUS
  <2>2. PICK j \in before : p[j].deps \cap before = {}
    BY <2>1 DEF NoKnot
  <2>3. CASE j = i
    <3> DEFINE drawn == {k \in 1 .. size : r[k] \in S}
    <3>1. PICK k \in drawn : \A l \in drawn : k <= l
      <4>1. drawn \in SUBSET Nat /\ drawn # {}
        BY <1>5
      <4> HIDE DEF drawn
      <4> QED
        BY <4>1, LeastNumber
    <3>2. k \in 1 .. size /\ r[k] \in S
      OBVIOUS
    <3>3. ASSUME NEW n \in 1 .. size, n < k
          PROVE  r[n] \notin S
      BY <3>1, <3>2, <3>3
    <3>4. ASSUME NEW n \in (draft[k] \cap 1 .. size) \ {k}
          PROVE  r[n] \notin S
      <4>1. n \in 1 .. size /\ n \in 1 .. k /\ n # k
        BY <3>2
      <4> QED
        BY <3>2, <3>3, <4>1
    <3>5. k # 1 => r[k - 1] \notin S
      <4>1. k # 1 => k - 1 \in 1 .. size /\ k - 1 < k
        BY <3>2 DEF Replacements
      <4> QED
        BY <3>3, <4>1
    <3>6. p[i].deps \cap S = {}
      BY <1>2, <2>2, <2>3
    <3>7. q[r[k]].deps = {r[n] : n \in (draft[k] \cap 1 .. size) \ {k}}
                           \cup p[i].deps \cup (IF k = 1 THEN {} ELSE {r[k - 1]})
      BY <1>1, <3>2 DEF Rewired
    <3>8. q[r[k]].deps \cap S = {}
      BY <3>4, <3>5, <3>6, <3>7
    <3> QED
      BY <3>2, <3>8
  <2>4. CASE j # i
    <3>1. j \in S /\ j \in InPlan(p) \ {i} /\ i \notin p[j].deps
      BY <2>2, <2>4
    <3>2. q[j].deps = p[j].deps /\ p[j].deps \subseteq InPlan(p)
      BY <1>1, <3>1 DEF Rewired
    <3> QED
      BY <2>2, <3>1, <3>2
  <2> QED
    BY <2>3, <2>4
<1> QED
  BY <1>4, <1>5

=============================================================================
