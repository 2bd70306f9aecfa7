-------------------------- MODULE BuildWork_proofs --------------------------
(***************************************************************************)
(* What holds of the work in a plan, on disk and in the memory of a visit, *)
(* for every first plan, every report of triage, and any number of         *)
(* requests, questions and crashes.                                        *)
(***************************************************************************)
EXTENDS BuildPhase_proofs

-----------------------------------------------------------------------------
(* The invariant: what is true of either copy of the plan ...               *)

LiveIsWork(p)  == \A i \in Items : p[i].live => p[i].status = "in_progress"
OneUnderWay(p) == \A i, j \in InFlight(p) : i = j
Budgeted(p)    == \A i \in Items :
                    /\ p[i].fails <= MaxAttempts
                    /\ i \in InFlight(p) => p[i].fails < MaxAttempts
DepsKnown(p)   == \A i \in InPlan(p) : p[i].deps \subseteq InPlan(p)
DepsDone(p)    == \A i \in InFlight(p) : DepsSatisfied(p, i)

Sound(p) == LiveIsWork(p) /\ OneUnderWay(p) /\ Budgeted(p) /\ DepsKnown(p) /\ DepsDone(p)

(* ... how far the copy in memory is ahead of the one on disk ...           *)
Ahead ==
  {"saveGuidance", "saveBlocked", "saveItem", "saveCeiling", "verify", "integrate",
   "report", "saveTriage", "saveSignoff", "saveRevival"}

MemoryIsPlan ==
  /\ pc \notin Ahead => mem = plan
  /\ pc \in {"report", "saveTriage"} /\ ~acted => mem = plan
  /\ acted => pc \in {"report", "saveTriage", "triageAsk", "park"}

DoneIsKept == \A i \in Items : plan[i].status = "done" => mem[i].status = "done"

(* ... what the place of the visit says of the item it is about ...         *)
TriagePcs == {"triage", "report", "saveTriage"}

ItemAtWork ==
  /\ pc \notin WorkPcs \cup TriagePcs \cup {"triageAsk", "park"} => item = NoItem
  /\ pc \in {"tester", "implementer", "asked", "verify"} => mem[item].status = "in_progress"
  /\ pc \in {"reverify", "panel"} => mem[item].status = "review"
  /\ pc = "integrate" => mem[item].status \in {"in_progress", "review"}
  /\ pc \in {"verify", "integrate"} => ~mem[item].live
  /\ pc = "saveCeiling" => mem[item].status = "failed"
  /\ pc \in {"saveItem", "saveBlocked"} => mem[item].status \in {"todo", "blocked"}
  /\ pc = "dismiss" => plan[item].status = "done"
  /\ pc \in TriagePcs /\ item # NoItem /\ ~acted => mem[item].status = "failed"

(* ... and of what is under way, under triage, and finished.                *)
QuietPcs ==
  {"pick", "ask", "triage", "report", "saveTriage", "triageAsk", "park", "saveItem",
   "saveBlocked", "saveCeiling", "dismiss"}
WrapPcs == {"wrap", "wrapAnswers", "saveSignoff", "drops", "markDone"}

WorkUnderWay ==
  /\ pc \in {"guidance", "saveGuidance", "select"} => InFlight(mem) \subseteq InStatus(mem, "review")
  /\ pc \in QuietPcs => InFlight(mem) = {}
  /\ pc \in TriagePcs => \A i \in cands : mem[i].status = "failed"
  /\ pc \in WrapPcs => Complete(mem) /\ Complete(plan)
  /\ pc = "markDone" => UnconfirmedDrops(mem) = {}
  /\ pc = "saveRevival" => InFlight(mem) = {}
  /\ phase = "done" => pc \in {"idle", "route", "markDone"}

WorkInv ==
  /\ Sound(plan) /\ Sound(mem)
  /\ MemoryIsPlan /\ DoneIsKept
  /\ ItemAtWork /\ WorkUnderWay
  /\ ClosedIsSettled

-----------------------------------------------------------------------------
(* Rewrites keep a plan sound.                                              *)

(* One that lets nothing new under way, spends no budget it has not got and *)
(* leaves the graph alone does, as long as what is finished stays so for    *)
(* the work that goes on.                                                   *)
LEMMA SoundWithLess ==
  ASSUME NEW p \in Plans, NEW q \in Plans, Sound(p),
         \A i \in Items :
           /\ q[i].status = "absent" <=> p[i].status = "absent"
           /\ q[i].deps = p[i].deps
           /\ q[i].live => q[i].status = "in_progress"
           /\ q[i].fails <= MaxAttempts
           /\ i \in InFlight(q) => i \in InFlight(p) /\ q[i].fails = p[i].fails
           /\ InFlight(q) # {} /\ Terminal(p, i) => Terminal(q, i)
  PROVE  Sound(q)
<1>1. InFlight(q) \subseteq InFlight(p) /\ InPlan(q) = InPlan(p)
  BY DEF InFlight, InPlan
<1>2. LiveIsWork(q) /\ OneUnderWay(q) /\ Budgeted(q)
  BY <1>1 DEF Sound, LiveIsWork, OneUnderWay, Budgeted, InFlight
<1>3. DepsKnown(q)
  BY <1>1 DEF Sound, DepsKnown, InPlan
<1>4. DepsDone(q)
  <2>1. ASSUME NEW i \in InFlight(q), NEW d \in q[i].deps \cap InPlan(q)
        PROVE  Terminal(q, d)
    <3>1. i \in Items /\ i \in InFlight(p) /\ d \in p[i].deps \cap InPlan(p) /\ d \in Items
      BY <1>1 DEF InFlight, InPlan
    <3> QED
      BY <3>1 DEF Sound, DepsDone, DepsSatisfied
  <2> QED
    BY <2>1 DEF DepsDone, DepsSatisfied
<1> QED
  BY <1>2, <1>3, <1>4 DEF Sound

(* The cleanup: what is left under way is what is in review. *)
LEMMA CleanedSound ==
  ASSUME NEW p \in Plans, Sound(p)
  PROVE  /\ Sound(Cleaned(p))
         /\ InFlight(Cleaned(p)) \subseteq InStatus(Cleaned(p), "review")
         /\ \A i \in Items : p[i].status = "done" => Cleaned(p)[i].status = "done"
<1> DEFINE q == Cleaned(p)
<1>1. ASSUME NEW i \in Items
      PROVE  /\ q[i].status = IF p[i].status = "in_progress" THEN "todo" ELSE p[i].status
             /\ q[i].live = FALSE /\ q[i].fails = p[i].fails /\ q[i].deps = p[i].deps
  <2>1. q[i] = [p[i] EXCEPT !.live = FALSE,
                            !.status = IF @ = "in_progress" THEN "todo" ELSE @]
    BY DEF Cleaned
  <2>2. p[i] \in WorkItem
    BY DEF Plans
  <2> HIDE DEF q
  <2> QED
    BY <2>1, <2>2 DEF WorkItem
<1>2. q \in Plans
  BY CleanedType
<1> HIDE DEF q
<1>3. Sound(q)
  BY <1>1, <1>2, SoundWithLess
  DEF InFlight, Sound, Budgeted, Terminal, TerminalStatuses
<1>4. InFlight(q) \subseteq InStatus(q, "review")
  BY <1>1 DEF InFlight, InStatus
<1>5. \A i \in Items : p[i].status = "done" => q[i].status = "done"
  BY <1>1
<1> QED
  BY <1>3, <1>4, <1>5 DEF q

(* Revival takes items out of whatever they were in; only when nothing is   *)
(* under way may finished ones be among them.                               *)
LEMMA RevivedSound ==
  ASSUME NEW p \in Plans, Sound(p), NEW S \in SUBSET InPlan(p),
         InFlight(p) = {} \/ \A i \in S : ~Terminal(p, i)
  PROVE  /\ Sound(Revived(p, S))
         /\ InFlight(Revived(p, S)) = InFlight(p) \ S
         /\ \A i \in Items : Revived(p, S)[i].status = IF i \in S THEN "todo" ELSE p[i].status
<1> DEFINE q == Revived(p, S)
<1>1. ASSUME NEW i \in Items
      PROVE  /\ q[i].deps = p[i].deps
             /\ i \in S => q[i].status = "todo" /\ q[i].live = FALSE /\ q[i].fails = 0
             /\ i \notin S => q[i] = p[i]
  BY DEF Revived, Plans, WorkItem
<1>2. q \in Plans
  BY RevivedType
<1> HIDE DEF q
<1>3. InFlight(q) = InFlight(p) \ S
  BY <1>1 DEF InFlight
<1>4. Sound(q)
  <2>1. ASSUME NEW i \in Items
        PROVE  /\ q[i].status = "absent" <=> p[i].status = "absent"
               /\ q[i].live => q[i].status = "in_progress"
               /\ q[i].fails <= MaxAttempts
               /\ i \in InFlight(q) => i \in InFlight(p) /\ q[i].fails = p[i].fails
    <3>1. CASE i \in S
      <4>1. q[i].status = "todo" /\ q[i].live = FALSE /\ q[i].fails = 0
        BY <1>1, <3>1
      <4>2. p[i].status # "absent" /\ i \notin InFlight(q)
        BY <1>3, <3>1 DEF InPlan
      <4>3. 0 <= MaxAttempts
        BY WorkPlanAssumption
      <4> QED
        BY <4>1, <4>2, <4>3
    <3>2. CASE i \notin S
      BY <1>1, <1>3, <3>2 DEF Sound, Budgeted, LiveIsWork
    <3> QED
      BY <3>1, <3>2
  <2>2. ASSUME NEW i \in Items, InFlight(q) # {}, Terminal(p, i)
        PROVE  Terminal(q, i)
    BY <1>1, <1>3, <2>2 DEF Terminal
  <2> QED
    BY <1>1, <1>2, <2>1, <2>2, SoundWithLess
<1> QED
  BY <1>1, <1>3, <1>4 DEF q

(* A change of status, of items no attempt is on record for.                *)
LEMMA WithStatusSound ==
  ASSUME NEW p \in Plans, Sound(p), NEW S \in SUBSET InPlan(p),
         NEW status \in {"todo", "failed", "dropped", "done"},
         \A i \in S : ~p[i].live /\ ~Terminal(p, i)
  PROVE  /\ Sound(WithStatus(p, S, status))
         /\ InFlight(WithStatus(p, S, status)) = InFlight(p) \ S
         /\ \A i \in Items :
              WithStatus(p, S, status)[i].status = IF i \in S THEN status ELSE p[i].status
<1> DEFINE q == WithStatus(p, S, status)
<1>1. ASSUME NEW i \in Items
      PROVE  /\ q[i].deps = p[i].deps /\ q[i].live = p[i].live /\ q[i].fails = p[i].fails
             /\ q[i].status = IF i \in S THEN status ELSE p[i].status
  BY DEF WithStatus, Plans, WorkItem
<1>2. q \in Plans
  BY WithStatusType DEF Statuses, TerminalStatuses
<1> HIDE DEF q
<1>3. InFlight(q) = InFlight(p) \ S
  BY <1>1 DEF InFlight
<1>4. Sound(q)
  BY <1>1, <1>2, <1>3, SoundWithLess DEF InPlan, Sound, Budgeted, LiveIsWork, Terminal
<1> QED
  BY <1>1, <1>3, <1>4 DEF q

(* The end of an attempt without success: one failure more, and there was   *)
(* budget for it.                                                           *)
LEMMA FailedSound ==
  ASSUME NEW p \in Plans, Sound(p), NEW i \in InFlight(p),
         NEW status \in {"todo", "blocked", "failed"}
  PROVE  /\ Sound(Failed(p, i, status))
         /\ InFlight(Failed(p, i, status)) = {}
         /\ Failed(p, i, status)[i].status = status
         /\ \A j \in Items \ {i} : Failed(p, i, status)[j] = p[j]
<1> DEFINE q == Failed(p, i, status)
<1>1. i \in Items /\ p[i] \in WorkItem /\ p[i].fails < MaxAttempts
  BY DEF InFlight, Plans, Sound, Budgeted
<1>2. /\ q[i].status = status /\ q[i].live = FALSE
      /\ q[i].fails = p[i].fails + 1 /\ q[i].deps = p[i].deps
  BY <1>1 DEF Failed, Plans, WorkItem
<1>3. \A j \in Items \ {i} : q[j] = p[j]
  BY <1>1 DEF Failed, Plans
<1>4. q \in Plans
  BY <1>1, FailedType DEF Statuses
<1> HIDE DEF q
<1>5. InFlight(q) = {}
  BY <1>2, <1>3 DEF InFlight, Sound, OneUnderWay
<1>6. p[i].status # "absent"
  BY DEF InFlight, Sound, LiveIsWork
<1>7. p[i].fails + 1 <= MaxAttempts
  BY <1>1, WorkPlanAssumption DEF WorkItem
<1>8. Sound(q)
  BY <1>2, <1>3, <1>4, <1>5, <1>6, <1>7, SoundWithLess DEF Sound, Budgeted, LiveIsWork
<1> QED
  BY <1>2, <1>3, <1>5, <1>8 DEF q

(* Taking a new item up: it is the only one, within its budget, and what it *)
(* depends on is finished.                                                  *)
LEMMA StartedSound ==
  ASSUME NEW p \in Plans, Sound(p), NEW i \in Pickable(p), InFlight(p) = {},
         NEW q, \A j \in Items \ {i} : q[j] = p[j],
         q[i].status = "in_progress", q[i].live = TRUE,
         q[i].fails = p[i].fails, q[i].deps = p[i].deps
  PROVE  Sound(q)
<1>1. /\ i \in Items /\ p[i] \in WorkItem /\ p[i].fails < MaxAttempts
      /\ p[i].status \in {"todo", "failed"} /\ DepsSatisfied(p, i)
  BY DEF Pickable, Ready, Plans
<1>2. InFlight(q) = {i} /\ InPlan(q) = InPlan(p)
  BY <1>1 DEF InFlight, InPlan
<1>3. LiveIsWork(q) /\ OneUnderWay(q) /\ Budgeted(q)
  BY <1>1, <1>2 DEF Sound, LiveIsWork, OneUnderWay, Budgeted
<1>4. DepsKnown(q)
  BY <1>1, <1>2 DEF Sound, DepsKnown, InPlan
<1>5. DepsDone(q)
  <2>1. ASSUME NEW d \in q[i].deps \cap InPlan(q)
        PROVE  Terminal(q, d)
    <3>1. Terminal(p, d) /\ d # i
      BY <1>1, <1>2 DEF DepsSatisfied, Terminal, TerminalStatuses
    <3> QED
      BY <3>1 DEF Terminal, InPlan
  <2> QED
    BY <1>2, <2>1 DEF DepsDone, DepsSatisfied
<1> QED
  BY <1>3, <1>4, <1>5 DEF Sound

(* The end of an attempt that delivered, and the review stage.              *)
LEMMA SteppedSound ==
  ASSUME NEW p \in Plans, NEW q \in Plans, Sound(p), NEW i \in InFlight(p),
         \A j \in Items \ {i} : q[j] = p[j],
         q[i].status \in {"todo", "in_progress", "review", "done"}, ~q[i].live,
         q[i].fails = p[i].fails, q[i].deps = p[i].deps
  PROVE  /\ Sound(q)
         /\ InFlight(q) \subseteq {i}
         /\ q[i].status \in {"todo", "done"} => InFlight(q) = {}
<1>1. i \in Items /\ p[i].status # "absent" /\ ~Terminal(p, i)
  BY DEF InFlight, Sound, LiveIsWork, Terminal, TerminalStatuses
<1>2. InFlight(q) \subseteq {i}
  BY DEF InFlight, Sound, OneUnderWay
<1>3. ASSUME NEW j \in Items
      PROVE  /\ q[j].status = "absent" <=> p[j].status = "absent"
             /\ q[j].deps = p[j].deps
             /\ q[j].live => q[j].status = "in_progress"
             /\ q[j].fails <= MaxAttempts
             /\ j \in InFlight(q) => j \in InFlight(p) /\ q[j].fails = p[j].fails
             /\ Terminal(p, j) => Terminal(q, j)
  <2>1. CASE j = i
    BY <1>1, <2>1 DEF Sound, Budgeted
  <2>2. CASE j # i
    BY <1>1, <1>2, <2>2 DEF Sound, Budgeted, LiveIsWork, Terminal
  <2> QED
    BY <2>1, <2>2
<1>4. Sound(q)
  BY <1>3, SoundWithLess
<1> QED
  BY <1>1, <1>2, <1>4 DEF InFlight

(* A new item: nothing that is under way depends on it, because it was not  *)
(* in the plan.                                                             *)
LEMMA AddedSound ==
  ASSUME NEW p \in Plans, Sound(p), NEW n \in InStatus(p, "absent"), NEW fix \in BOOLEAN
  PROVE  LET q == [p EXCEPT ![n] = NewItem({}, fix)]
         IN  /\ Sound(q)
             /\ InFlight(q) = InFlight(p)
             /\ q[n].status = "todo"
             /\ \A j \in Items \ {n} : q[j] = p[j]
<1> DEFINE q == [p EXCEPT ![n] = NewItem({}, fix)]
<1>1. n \in Items /\ p[n].status = "absent"
  BY DEF InStatus
<1>2. /\ q[n].status = "todo" /\ q[n].live = FALSE /\ q[n].fails = 0 /\ q[n].deps = {}
      /\ \A j \in Items \ {n} : q[j] = p[j]
  BY <1>1 DEF NewItem, Plans
<1> HIDE DEF q
<1>3. InFlight(q) = InFlight(p) /\ n \notin InFlight(p) /\ InPlan(q) = InPlan(p) \cup {n}
  BY <1>1, <1>2 DEF InFlight, InPlan, Sound, LiveIsWork
<1>4. LiveIsWork(q) /\ OneUnderWay(q) /\ Budgeted(q)
  <2>1. 0 <= MaxAttempts
    BY WorkPlanAssumption
  <2> QED
    BY <1>2, <1>3, <2>1 DEF Sound, LiveIsWork, OneUnderWay, Budgeted
<1>5. DepsKnown(q)
  BY <1>2, <1>3 DEF Sound, DepsKnown, InPlan
<1>6. DepsDone(q)
  <2>1. ASSUME NEW i \in InFlight(q), NEW d \in q[i].deps \cap InPlan(q)
        PROVE  Terminal(q, d)
    <3>1. i \in InFlight(p) /\ i \in InPlan(p) /\ q[i] = p[i]
      BY <1>2, <1>3 DEF InFlight, InPlan, Sound, LiveIsWork
    <3>2. d \in InPlan(p) /\ d # n /\ d \in Items
      BY <1>1, <3>1 DEF Sound, DepsKnown, InPlan
    <3>3. Terminal(p, d)
      BY <3>1, <3>2 DEF Sound, DepsDone, DepsSatisfied
    <3> QED
      BY <1>2, <3>2, <3>3 DEF Terminal
  <2> QED
    BY <2>1 DEF DepsDone, DepsSatisfied
<1> QED
  BY <1>2, <1>3, <1>4, <1>5, <1>6 DEF Sound, q

(* The marker of a triage round, and the user's confirmation, change        *)
(* nothing of this.                                                         *)
LEMMA NotedSound ==
  ASSUME NEW p \in Plans, NEW q \in Plans, Sound(p),
         \A i \in Items :
           /\ q[i].status = p[i].status /\ q[i].deps = p[i].deps
           /\ q[i].live = p[i].live /\ q[i].fails = p[i].fails
  PROVE  Sound(q) /\ InFlight(q) = InFlight(p)
<1>1. InFlight(q) = InFlight(p)
  BY DEF InFlight
<1> QED
  BY <1>1, SoundWithLess DEF Sound, LiveIsWork, Budgeted, Terminal

(* A mark changes only notes: not the state of an item, nor what it waits   *)
(* for.                                                                     *)
LEMMA MarkedNotes ==
  ASSUME NEW p \in Plans, NEW i \in Items
  PROVE  \A j \in Items :
           /\ Marked(p, i)[j].status = p[j].status /\ Marked(p, i)[j].deps = p[j].deps
           /\ Marked(p, i)[j].live = p[j].live /\ Marked(p, i)[j].fails = p[j].fails
BY DEF Marked, Plans, WorkItem

(* A repaired dependency list, when nothing is under way.                   *)
LEMMA RewiredSound ==
  ASSUME NEW p \in Plans, Sound(p), InFlight(p) = {},
         NEW t \in InPlan(p), NEW deps \in SUBSET InPlan(p),
         NEW q, \A j \in Items \ {t} : q[j] = p[j],
         q[t].status = p[t].status, q[t].live = p[t].live, q[t].fails = p[t].fails,
         q[t].deps = deps
  PROVE  Sound(q) /\ InFlight(q) = {}
<1>1. InFlight(q) = {} /\ InPlan(q) = InPlan(p)
  BY DEF InFlight, InPlan
<1>2. LiveIsWork(q) /\ Budgeted(q) /\ DepsKnown(q)
  BY <1>1 DEF Sound, LiveIsWork, Budgeted, DepsKnown, InPlan
<1> QED
  BY <1>1, <1>2 DEF Sound, OneUnderWay, DepsDone

(* A split, when nothing is under way: the replacements are queued, the item *)
(* they replace is dropped, every other item keeps its status, and nobody    *)
(* depends on an item that is not in the plan.                               *)
LEMMA SplitSound ==
  ASSUME NEW p \in Plans, Sound(p), InFlight(p) = {},
         NEW i \in InStatus(p, "failed"), NEW draft \in Drafts,
         NEW r \in [DOMAIN draft -> InStatus(p, "absent")]
  PROVE  LET q == Split(p, i, draft, r)
         IN  /\ q \in Plans /\ Sound(q) /\ InFlight(q) = {}
             /\ \A j \in Items \ {i} : p[j].status # "absent" => q[j].status = p[j].status
<1> DEFINE q    == Split(p, i, draft, r)
           size == Cardinality(DOMAIN draft)
           news == {r[k] : k \in DOMAIN r}
<1>1. size \in Nat \ {0} /\ DOMAIN draft = 1 .. size
  BY BuildPhaseAssumption
<1>2. DOMAIN r = 1 .. size /\ Cardinality(DOMAIN r) = size
  BY <1>1
<1>3. r \in [1 .. size -> Items] /\ i \in Items /\ p[i].status = "failed"
  BY <1>1 DEF InStatus
<1>4. news \subseteq InStatus(p, "absent") /\ i \notin news /\ r[size] \in news
  <2>1. news \subseteq InStatus(p, "absent")
    OBVIOUS
  <2>2. size \in DOMAIN r
    <3> HIDE DEF size
    <3> QED
      BY <1>1, <1>2
  <2> QED
    BY <1>3, <2>1, <2>2 DEF InStatus
<1>5. q \in Plans
  <2> HIDE DEF size
  <2> QED
    BY <1>1, <1>2, <1>3, SplitType
<1>6. ASSUME NEW j \in news
      PROVE  /\ q[j].status = "todo" /\ q[j].live = FALSE /\ q[j].fails = 0
             /\ q[j].deps \subseteq news \cup p[i].deps
  <2> DEFINE k == CHOOSE n \in DOMAIN r : r[n] = j
  <2>1. k \in 1 .. size
    BY <1>2
  <2>2. j \in Items
    BY <1>4 DEF InStatus
  <2>3. q[j] = Replacement(p, i, draft, r, k)
    BY <2>2 DEF Split
  <2> HIDE DEF k, q, size
  <2>4. k # 1 => r[k - 1] \in news
    BY <1>1, <1>2, <2>1
  <2> QED
    BY <2>3, <2>4 DEF Replacement, NewItem
<1>7. /\ q[i].status = "dropped" /\ q[i].live = p[i].live /\ q[i].fails = p[i].fails
      /\ q[i].deps = p[i].deps
  <2>1. q[i] = [p[i] EXCEPT !.status = "dropped", !.triaged = OneMore(@)]
    BY <1>3, <1>4 DEF Split
  <2>2. p[i] \in WorkItem
    BY <1>3 DEF Plans
  <2> HIDE DEF q
  <2> QED
    BY <2>1, <2>2 DEF WorkItem
<1>8. ASSUME NEW j \in Items \ (news \cup {i})
      PROVE  /\ q[j].status = p[j].status /\ q[j].live = p[j].live /\ q[j].fails = p[j].fails
             /\ q[j].deps \subseteq p[j].deps \cup news
  <2>1. q[j] = IF i \in p[j].deps THEN [p[j] EXCEPT !.deps = (@ \ {i}) \cup {r[size]}]
                                  ELSE p[j]
    BY <1>2 DEF Split
  <2>2. p[j] \in WorkItem
    BY DEF Plans
  <2> HIDE DEF q, size
  <2> QED
    BY <1>4, <2>1, <2>2 DEF WorkItem
<1> HIDE DEF q, size, news
<1>9. ~p[i].live
  BY <1>3 DEF InFlight
<1>10. InFlight(q) = {}
  <2>1. ASSUME NEW j \in Items
        PROVE  j \notin InFlight(q)
    <3>1. CASE j \in news
      BY <1>6, <3>1 DEF InFlight
    <3>2. CASE j = i
      BY <1>7, <1>9, <3>2 DEF InFlight
    <3>3. CASE j \in Items \ (news \cup {i})
      BY <1>8, <3>3 DEF InFlight
    <3> QED
      BY <3>1, <3>2, <3>3
  <2> QED
    BY <2>1 DEF InFlight
<1>11. InPlan(p) \cup news \subseteq InPlan(q)
  <2>1. ASSUME NEW j \in InPlan(p) \cup news
        PROVE  j \in Items /\ q[j].status # "absent"
    BY <1>3, <1>4, <1>6, <1>7, <1>8, <2>1 DEF InPlan, InStatus
  <2> QED
    BY <2>1 DEF InPlan
<1>12. ASSUME NEW j \in Items
       PROVE  /\ q[j].live => q[j].status = "in_progress"
              /\ q[j].fails <= MaxAttempts
              /\ j \in InPlan(q) => q[j].deps \subseteq InPlan(q)
  <2>1. CASE j \in news
    <3>1. 0 <= MaxAttempts
      BY WorkPlanAssumption
    <3>2. p[i].deps \subseteq InPlan(p)
      BY <1>3 DEF Sound, DepsKnown, InPlan
    <3> QED
      BY <1>6, <1>11, <2>1, <3>1, <3>2
  <2>2. CASE j = i
    <3>1. p[i].deps \subseteq InPlan(p) /\ p[i].fails <= MaxAttempts
      BY <1>3 DEF Sound, DepsKnown, Budgeted, InPlan
    <3> QED
      BY <1>7, <1>9, <1>11, <2>2, <3>1
  <2>3. CASE j \in Items \ (news \cup {i})
    <3>1. /\ p[j].live => p[j].status = "in_progress"
          /\ p[j].fails <= MaxAttempts
          /\ j \in InPlan(p) => p[j].deps \subseteq InPlan(p)
      BY <2>3 DEF Sound, LiveIsWork, DepsKnown, Budgeted
    <3>2. j \in InPlan(q) => j \in InPlan(p)
      BY <1>8, <2>3 DEF InPlan
    <3> QED
      BY <1>8, <1>11, <2>3, <3>1, <3>2
  <2> QED
    BY <2>1, <2>2, <2>3
<1>13. Sound(q)
  BY <1>10, <1>12 DEF Sound, LiveIsWork, OneUnderWay, Budgeted, DepsKnown, DepsDone, InPlan
<1>14. \A j \in Items \ {i} : p[j].status # "absent" => q[j].status = p[j].status
  BY <1>4, <1>8 DEF InStatus
<1> QED
  BY <1>5, <1>10, <1>13, <1>14 DEF q

-----------------------------------------------------------------------------
(* The steps.  None of them takes an item out of done on disk, either.      *)

KeepsDone == \A i \in Items : plan[i].status = "done" => plan'[i].status = "done"

(* Outside a finished mission every visit that returns has only to leave a  *)
(* sound plan on disk.                                                      *)
LEMMA ReturnWorks ==
  ASSUME Return, Sound(plan'), phase' = "done" => ClosedIsSettled'
  PROVE  WorkInv'
<1>1. /\ pc' = "idle" /\ mem' = plan' /\ item' = NoItem /\ cands' = {} /\ acted' = FALSE
  BY DEF Return
<1>2. ClosedIsSettled'
  BY DEF ClosedIsSettled
<1> QED
  BY <1>1, <1>2
  DEF WorkInv, MemoryIsPlan, DoneIsKept, ItemAtWork, WorkUnderWay, Ahead, TriagePcs,
      QuietPcs, WrapPcs, WorkPcs

(* A step that leaves both copies alone and moves the visit on. *)
LEMMA MovesOn ==
  ASSUME WorkInv, plan' = plan, mem' = mem, phase' = phase,
         MemoryIsPlan', ItemAtWork', WorkUnderWay'
  PROVE  WorkInv' /\ KeepsDone
BY DEF WorkInv, DoneIsKept, ClosedIsSettled, KeepsDone

(* Taking the project up, routing it and parking it. *)
LEMMA RouteWorks ==
  ASSUME TypeOK, WorkInv, Begin \/ Route \/ Park
  PROVE  WorkInv' /\ KeepsDone
<1>1. CASE Begin
  <2>1. MemoryIsPlan' /\ ItemAtWork' /\ WorkUnderWay'
    BY <1>1
    DEF Begin, Goto, WorkInv, MemoryIsPlan, ItemAtWork, WorkUnderWay, Ahead, TriagePcs,
        QuietPcs, WrapPcs, WorkPcs
  <2> QED
    BY <1>1, <2>1, MovesOn DEF Begin
<1>2. ASSUME NEW ph \in PhasePcs, Enter(ph), ph = "wrap" => Complete(plan)
      PROVE  WorkInv' /\ KeepsDone
  <2>1. plan' = plan /\ mem' = mem /\ mem = plan /\ phase' # "done"
    BY <1>2 DEF Enter, WorkInv, MemoryIsPlan, Ahead, PhasePcs
  <2>2. MemoryIsPlan' /\ ItemAtWork' /\ WorkUnderWay'
    BY <1>2, <2>1
    DEF Enter, Goto, WorkInv, MemoryIsPlan, ItemAtWork, WorkUnderWay, Ahead, TriagePcs,
        QuietPcs, WrapPcs, WorkPcs, PhasePcs
  <2> QED
    BY <2>1, <2>2 DEF WorkInv, DoneIsKept, ClosedIsSettled, KeepsDone
<1>3. CASE RouteDone
  BY <1>3, ReturnWorks DEF RouteDone, disk, WorkInv, ClosedIsSettled, KeepsDone
<1>4. CASE Park
  BY <1>4, ReturnWorks DEF Park, WorkInv, ClosedIsSettled, KeepsDone
<1> QED
  BY <1>1, <1>2, <1>3, <1>4 DEF Route, RouteRequest, RouteWrap, RouteBuild, PhasePcs

(* The request phase adds at most one item to the plan. *)
LEMMA RequestWorks ==
  ASSUME TypeOK, WorkInv, RequestPhase
  PROVE  WorkInv' /\ KeepsDone
<1>1. CASE RequestRefused
  <2>1. MemoryIsPlan' /\ ItemAtWork' /\ WorkUnderWay'
    BY <1>1
    DEF RequestRefused, disk, Goto, WorkInv, MemoryIsPlan, ItemAtWork, WorkUnderWay, Ahead,
        TriagePcs, QuietPcs, WrapPcs, WorkPcs
  <2> QED
    BY <1>1, <2>1, MovesOn DEF RequestRefused, disk
<1>2. CASE RequestPlanned
  <2>1. PICK n \in InStatus(mem, "absent") :
          mem' = [mem EXCEPT ![n] = NewItem({}, FALSE)] /\ plan' = mem'
    BY <1>2 DEF RequestPlanned
  <2>2. Sound(mem') /\ mem'[n].status = "todo" /\ \A j \in Items \ {n} : mem'[j] = mem[j]
    <3>1. mem \in Plans /\ Sound(mem) /\ FALSE \in BOOLEAN
      BY DEF WorkInv, TypeOK
    <3> QED
      BY <2>1, <3>1, AddedSound
  <2>3. mem = plan /\ n \in Items /\ phase' # "done" /\ mem[n].status = "absent"
    BY <1>2, <2>1 DEF RequestPlanned, WorkInv, MemoryIsPlan, WorkUnderWay, Ahead, InStatus
  <2>4. KeepsDone
    BY <2>1, <2>2, <2>3 DEF KeepsDone
  <2>5. MemoryIsPlan' /\ ItemAtWork' /\ WorkUnderWay'
    BY <1>2, <2>1, <2>3
    DEF RequestPlanned, Goto, WorkInv, MemoryIsPlan, ItemAtWork, WorkUnderWay, Ahead,
        TriagePcs, QuietPcs, WrapPcs, WorkPcs
  <2> QED
    BY <2>1, <2>2, <2>3, <2>4, <2>5 DEF WorkInv, DoneIsKept, ClosedIsSettled
<1>3. CASE Reactivate
  <2>1. plan' = plan /\ mem' = mem /\ phase' # "done"
    BY <1>3 DEF Reactivate, WorkInv, WorkUnderWay
  <2>2. MemoryIsPlan' /\ ItemAtWork' /\ WorkUnderWay'
    BY <1>3, <2>1
    DEF Reactivate, Goto, WorkInv, MemoryIsPlan, ItemAtWork, WorkUnderWay, Ahead, TriagePcs,
        QuietPcs, WrapPcs, WorkPcs
  <2> QED
    BY <2>1, <2>2 DEF WorkInv, DoneIsKept, ClosedIsSettled, KeepsDone
<1>4. CASE CloseRequest
  BY <1>4, ReturnWorks DEF CloseRequest, WorkInv, ClosedIsSettled, KeepsDone
<1> QED
  BY <1>1, <1>2, <1>3, <1>4 DEF RequestPhase

(* What is in progress or in review, though no attempt is on record, may be *)
(* finished or queued again; what has failed may be queued.                 *)
LEMMA RestIsQuiet ==
  ASSUME NEW p \in Plans, Sound(p)
  PROVE  /\ \A i \in InStatus(p, "review") : i \in InFlight(p) /\ ~p[i].live /\ InFlight(p) = {i}
         /\ \A i \in Items : p[i].status = "in_progress" => i \in InFlight(p) /\ InFlight(p) = {i}
         /\ Complete(p) => InFlight(p) = {}
<1>1. \A i \in InFlight(p) : i \in Items /\ InFlight(p) = {i}
  BY DEF InFlight, Sound, OneUnderWay
<1>2. Complete(p) => InFlight(p) = {}
  BY DEF Complete, InPlan, InFlight, Sound, LiveIsWork, Terminal, TerminalStatuses
<1> QED
  BY <1>1, <1>2 DEF InStatus, InFlight, Sound, LiveIsWork

(* The steps before an attempt. *)
LEMMA PrepareWorks ==
  ASSUME TypeOK, WorkInv, Prepare
  PROVE  WorkInv' /\ KeepsDone
<1>1. mem \in Plans /\ plan \in Plans /\ Sound(mem) /\ Sound(plan) /\ NoItem \notin Items
  BY BuildPhaseAssumption DEF TypeOK, WorkInv
<1>2. phase # "done" /\ item = NoItem /\ acted = FALSE
  BY DEF Prepare, LoadPlan, AbsorbGuidance, SaveGuidance, ResumeReview, RequeueReview, NoReview,
         StartAttempt, MarkExhausted, AskForDirection, WorkInv, WorkUnderWay, ItemAtWork,
         MemoryIsPlan, TypeOK, WorkPcs, TriagePcs
<1>3. CASE LoadPlan
  <2>1. mem' = Cleaned(plan) /\ plan' = mem' /\ phase' = phase /\ pc' = "guidance"
    BY <1>3 DEF LoadPlan, Goto
  <2>2. /\ Sound(mem') /\ InFlight(mem') \subseteq InStatus(mem', "review") /\ KeepsDone
    BY <1>1, <2>1, CleanedSound DEF KeepsDone
  <2>3. MemoryIsPlan' /\ ItemAtWork' /\ WorkUnderWay'
    BY <1>2, <1>3, <2>1, <2>2
    DEF LoadPlan, MemoryIsPlan, ItemAtWork, WorkUnderWay, Ahead, TriagePcs, QuietPcs, WrapPcs,
        WorkPcs
  <2> QED
    BY <1>2, <2>1, <2>2, <2>3 DEF WorkInv, DoneIsKept, ClosedIsSettled
<1>4. CASE AbsorbGuidance
  <2>1. pc = "guidance" /\ mem = plan /\ plan' = plan /\ phase' = phase /\ item' = item /\ acted' = acted
    BY <1>4 DEF AbsorbGuidance, WorkInv, MemoryIsPlan, Ahead
  <2>2. InFlight(mem) \subseteq InStatus(mem, "review")
    BY <2>1 DEF WorkInv, WorkUnderWay
  <2>3. CASE Guidance = {} \/ InStatus(mem, "failed") = {}
    <3>1. Revived(mem, {}) = mem
      BY <1>1 DEF Revived, Plans
    <3>2. mem' = mem /\ pc' = "select"
      BY <1>4, <2>3, <3>1 DEF AbsorbGuidance, Goto
    <3>3. MemoryIsPlan' /\ ItemAtWork' /\ WorkUnderWay'
      BY <1>2, <2>1, <2>2, <3>2
      DEF MemoryIsPlan, ItemAtWork, WorkUnderWay, Ahead, TriagePcs, QuietPcs, WrapPcs, WorkPcs
    <3> QED
      BY <2>1, <3>2, <3>3, MovesOn
  <2>4. CASE Guidance # {} /\ InStatus(mem, "failed") # {}
    <3>1. mem' = Revived(mem, InStatus(mem, "failed")) /\ pc' = "saveGuidance"
      BY <1>4, <2>4 DEF AbsorbGuidance, Goto
    <3>2. InStatus(mem, "failed") \subseteq InPlan(mem)
          /\ \A i \in InStatus(mem, "failed") : ~Terminal(mem, i)
      BY DEF InStatus, InPlan, Terminal, TerminalStatuses
    <3>3. /\ Sound(mem') /\ InFlight(mem') \subseteq InFlight(mem)
          /\ \A i \in Items :
               mem'[i].status = IF i \in InStatus(mem, "failed") THEN "todo" ELSE mem[i].status
      BY <1>1, <3>1, <3>2, RevivedSound
    <3>4. InFlight(mem') \subseteq InStatus(mem', "review") /\ DoneIsKept'
      BY <2>1, <2>2, <3>3 DEF InStatus, DoneIsKept
    <3>5. MemoryIsPlan' /\ ItemAtWork' /\ WorkUnderWay'
      BY <1>2, <2>1, <3>1, <3>4
      DEF MemoryIsPlan, ItemAtWork, WorkUnderWay, Ahead, TriagePcs, QuietPcs, WrapPcs, WorkPcs
    <3> QED
      BY <1>2, <2>1, <3>3, <3>4, <3>5 DEF WorkInv, ClosedIsSettled, KeepsDone
  <2> QED
    BY <2>3, <2>4
<1>5. CASE SaveGuidance
  <2>1. plan' = mem /\ mem' = mem /\ phase' = phase /\ pc' = "select"
    BY <1>5 DEF SaveGuidance, Goto
  <2>2. MemoryIsPlan' /\ ItemAtWork' /\ WorkUnderWay'
    BY <1>2, <1>5, <2>1
    DEF SaveGuidance, WorkInv, MemoryIsPlan, ItemAtWork, WorkUnderWay, Ahead, TriagePcs,
        QuietPcs, WrapPcs, WorkPcs
  <2> QED
    BY <1>1, <1>2, <2>1, <2>2 DEF WorkInv, DoneIsKept, ClosedIsSettled, KeepsDone
<1>6. CASE ResumeReview
  <2>1. mem' = mem /\ plan' = plan /\ phase' = phase /\ pc' = "reverify" /\ mem = plan
        /\ mem[item'].status = "review" /\ acted' = FALSE
    BY <1>2, <1>6 DEF ResumeReview, Goto, disk, InStatus, WorkInv, MemoryIsPlan, Ahead
  <2>2. MemoryIsPlan' /\ ItemAtWork' /\ WorkUnderWay'
    BY <1>2, <2>1
    DEF MemoryIsPlan, ItemAtWork, WorkUnderWay, Ahead, TriagePcs, QuietPcs, WrapPcs, WorkPcs
  <2> QED
    BY <2>1, <2>2, MovesOn
<1>7. CASE RequeueReview
  <2>1. PICK i \in InStatus(mem, "review") :
          mem' = WithStatus(mem, {i}, "todo") /\ plan' = mem'
    BY <1>7 DEF RequeueReview
  <2>2. i \in Items /\ ~mem[i].live /\ InFlight(mem) = {i} /\ i \in InPlan(mem) /\ ~Terminal(mem, i)
    BY <1>1, RestIsQuiet DEF InStatus, InPlan, Terminal, TerminalStatuses
  <2>3. /\ Sound(mem') /\ InFlight(mem') = {}
        /\ \A j \in Items : mem'[j].status = IF j = i THEN "todo" ELSE mem[j].status
    BY <1>1, <2>1, <2>2, WithStatusSound
  <2>4. mem = plan /\ mem[i].status = "review"
    BY <1>7 DEF RequeueReview, WorkInv, MemoryIsPlan, Ahead, InStatus
  <2>5. KeepsDone
    BY <2>1, <2>3, <2>4 DEF KeepsDone
  <2>6. MemoryIsPlan' /\ ItemAtWork' /\ WorkUnderWay'
    BY <1>2, <1>7, <2>1, <2>3
    DEF RequeueReview, Goto, MemoryIsPlan, ItemAtWork, WorkUnderWay, Ahead, TriagePcs, QuietPcs,
        WrapPcs, WorkPcs
  <2>7. phase' = phase
    BY <1>7 DEF RequeueReview
  <2> QED
    BY <1>2, <2>1, <2>3, <2>5, <2>6, <2>7 DEF WorkInv, DoneIsKept, ClosedIsSettled
<1>8. CASE NoReview
  <2>1. mem' = mem /\ plan' = plan /\ phase' = phase /\ pc' = "pick" /\ mem = plan
        /\ InFlight(mem) = {}
    BY <1>8 DEF NoReview, Goto, disk, WorkInv, MemoryIsPlan, WorkUnderWay, Ahead
  <2>2. MemoryIsPlan' /\ ItemAtWork' /\ WorkUnderWay'
    BY <1>2, <1>8, <2>1
    DEF NoReview, MemoryIsPlan, ItemAtWork, WorkUnderWay, Ahead, TriagePcs, QuietPcs, WrapPcs,
        WorkPcs
  <2> QED
    BY <2>1, <2>2, MovesOn
<1>9. CASE StartAttempt
  <2>1. PICK i \in Pickable(mem) :
          /\ item' = i /\ plan' = mem'
          /\ mem' = [mem EXCEPT ![i].live = TRUE, ![i].status = "in_progress"]
    BY <1>9 DEF StartAttempt
  <2>2. mem = plan /\ InFlight(mem) = {} /\ phase' = phase /\ acted' = FALSE
        /\ pc' \in {"tester", "implementer"}
    BY <1>2, <1>9 DEF StartAttempt, Goto, WorkInv, MemoryIsPlan, WorkUnderWay, Ahead, QuietPcs
  <2>3. /\ i \in Items /\ \A j \in Items \ {i} : mem'[j] = mem[j]
        /\ mem'[i].status = "in_progress" /\ mem'[i].live = TRUE
        /\ mem'[i].fails = mem[i].fails /\ mem'[i].deps = mem[i].deps
    <3>1. i \in Items
      BY DEF Pickable, Ready
    <3> QED
      BY <1>1, <2>1, <3>1 DEF Plans, WorkItem
  <2>4. Sound(mem')
    BY <1>1, <2>2, <2>3, StartedSound
  <2>5. KeepsDone
    BY <2>1, <2>2, <2>3 DEF KeepsDone, Pickable, Ready
  <2>6. MemoryIsPlan' /\ ItemAtWork' /\ WorkUnderWay'
    BY <1>2, <2>1, <2>2, <2>3
    DEF MemoryIsPlan, ItemAtWork, WorkUnderWay, Ahead, TriagePcs, QuietPcs, WrapPcs, WorkPcs
  <2> QED
    BY <1>2, <2>1, <2>2, <2>3, <2>4, <2>5, <2>6 DEF WorkInv, DoneIsKept, ClosedIsSettled
<1>10. CASE MarkExhausted
  <2>1. /\ mem' = WithStatus(mem, Exhausted(mem), "failed") /\ plan' = mem' /\ phase' = phase
        /\ cands' \subseteq Exhausted(mem) /\ pc' \in {"ask", "triage"}
        /\ item' = item /\ acted' = acted
        /\ mem = plan /\ InFlight(mem) = {}
    BY <1>10 DEF MarkExhausted, Goto, WorkInv, MemoryIsPlan, WorkUnderWay, Ahead, QuietPcs
  <2>2. Exhausted(mem) \subseteq InPlan(mem)
        /\ \A i \in Exhausted(mem) : i \in Items /\ ~mem[i].live /\ ~Terminal(mem, i)
    BY <2>1 DEF Exhausted, InPlan, InFlight
  <2>3. /\ Sound(mem') /\ InFlight(mem') = {}
        /\ \A i \in Items :
             mem'[i].status = IF i \in Exhausted(mem) THEN "failed" ELSE mem[i].status
    BY <1>1, <2>1, <2>2, WithStatusSound
  <2>4. KeepsDone
    BY <2>1, <2>2, <2>3 DEF KeepsDone, Terminal, TerminalStatuses
  <2>5. \A i \in cands' : mem'[i].status = "failed"
    BY <2>1, <2>2, <2>3
  <2>6. MemoryIsPlan' /\ ItemAtWork' /\ WorkUnderWay'
    BY <1>2, <2>1, <2>3, <2>5
    DEF MemoryIsPlan, ItemAtWork, WorkUnderWay, Ahead, TriagePcs, QuietPcs, WrapPcs, WorkPcs
  <2> QED
    BY <1>2, <2>1, <2>3, <2>4, <2>6 DEF WorkInv, DoneIsKept, ClosedIsSettled
<1>11. CASE AskForDirection
  <2>1. plan' = plan /\ mem' = mem /\ phase' = phase /\ pc' = "park" /\ mem = plan
        /\ InFlight(mem) = {}
    BY <1>11
    DEF AskForDirection, Goto, WorkInv, MemoryIsPlan, WorkUnderWay, Ahead, QuietPcs
  <2>2. MemoryIsPlan' /\ ItemAtWork' /\ WorkUnderWay'
    BY <1>2, <1>11, <2>1
    DEF AskForDirection, MemoryIsPlan, ItemAtWork, WorkUnderWay, Ahead, TriagePcs, QuietPcs,
        WrapPcs, WorkPcs
  <2> QED
    BY <2>1, <2>2, MovesOn
<1> QED
  BY <1>3, <1>4, <1>5, <1>6, <1>7, <1>8, <1>9, <1>10, <1>11 DEF Prepare

(* An attempt, or the review, that turns the work down. *)
LEMMA TurnDownWorks ==
  ASSUME TypeOK, WorkHasItem, WorkInv, pc \in WorkPcs, phase # "done",
         item \in InFlight(mem), mem[item].status # "done",
         NEW status \in {"todo", "blocked", "failed"}, mem' = Failed(mem, item, status),
         plan' = plan, phase' = phase, item' = item, acted' = acted, acted = FALSE,
         \/ status = "todo" /\ pc' = "saveItem"
         \/ status = "blocked" /\ pc' = "saveBlocked"
         \/ status = "failed" /\ pc' = "saveCeiling"
  PROVE  WorkInv' /\ KeepsDone
<1>1. /\ Sound(mem') /\ InFlight(mem') = {} /\ mem'[item].status = status
      /\ \A j \in Items \ {item} : mem'[j] = mem[j]
  BY FailedSound DEF WorkInv, TypeOK
<1>2. DoneIsKept'
  BY <1>1 DEF WorkInv, DoneIsKept
<1>3. MemoryIsPlan' /\ ItemAtWork' /\ WorkUnderWay'
  BY <1>1
  DEF MemoryIsPlan, ItemAtWork, WorkUnderWay, Ahead, TriagePcs, QuietPcs, WrapPcs, WorkPcs
<1> QED
  BY <1>1, <1>2, <1>3 DEF WorkInv, ClosedIsSettled, KeepsDone

(* The attempt.  What it did is in memory until it is saved. *)
LEMMA AttemptWorks ==
  ASSUME TypeOK, WorkHasItem, WorkInv, Attempt
  PROVE  WorkInv' /\ KeepsDone
<1>1. /\ mem \in Plans /\ plan \in Plans /\ Sound(mem) /\ Sound(plan)
      /\ pc \in WorkPcs /\ item \in Items /\ phase # "done" /\ acted = FALSE
      /\ NoItem \notin Items
  BY BuildPhaseAssumption
  DEF Attempt, AgentAsks, LoopBlocked, LoopFailed, LoopHitCeiling, TestsDelivered,
      WorkDelivered, SaveBlocked, SaveItem, SaveCeiling, WorkInv, WorkUnderWay, MemoryIsPlan,
      WorkHasItem, WorkPcs, TypeOK
<1>2. CASE AgentAsks
  <2>1. MemoryIsPlan' /\ ItemAtWork' /\ WorkUnderWay'
    BY <1>1, <1>2
    DEF AgentAsks, Goto, WorkInv, MemoryIsPlan, ItemAtWork, WorkUnderWay, Ahead, TriagePcs,
        QuietPcs, WrapPcs, WorkPcs
  <2> QED
    BY <1>2, <2>1, MovesOn DEF AgentAsks
<1>3. CASE LoopBlocked \/ LoopFailed \/ LoopHitCeiling
  <2>1. mem[item].status = "in_progress"
    BY <1>3 DEF LoopBlocked, LoopFailed, LoopHitCeiling, WorkInv, ItemAtWork
  <2>2. item \in InFlight(mem)
    BY <1>1, <2>1, RestIsQuiet
  <2>3. CASE LoopBlocked
    BY <1>1, <2>1, <2>2, <2>3, TurnDownWorks DEF LoopBlocked, LoopReturns, Goto
  <2>4. CASE LoopFailed
    BY <1>1, <2>1, <2>2, <2>4, TurnDownWorks DEF LoopFailed, LoopReturns, Goto
  <2>5. CASE LoopHitCeiling
    BY <1>1, <2>1, <2>2, <2>5, TurnDownWorks DEF LoopHitCeiling, LoopReturns, Goto
  <2> QED
    BY <1>3, <2>3, <2>4, <2>5
<1>4. CASE TestsDelivered \/ WorkDelivered
  <2>1. /\ plan' = plan /\ phase' = phase /\ item' = item /\ acted' = acted
        /\ mem[item].status = "in_progress"
    BY <1>4 DEF TestsDelivered, WorkDelivered, LoopReturns, WorkInv, ItemAtWork
  <2>2. item \in InFlight(mem)
    BY <1>1, <2>1, RestIsQuiet
  <2>3. mem' \in Plans
    BY <1>4, AttemptType DEF Attempt, TypeOK
  <2>4. /\ \A j \in Items \ {item} : mem'[j] = mem[j]
        /\ ~mem'[item].live
        /\ mem'[item].fails = mem[item].fails /\ mem'[item].deps = mem[item].deps
        /\ \/ pc' = "saveItem" /\ mem'[item].status = "todo"
           \/ pc' = "verify" /\ mem'[item].status = "in_progress"
    BY <1>1, <1>4, <2>1
    DEF TestsDelivered, WorkDelivered, LoopReturns, Goto, Plans, WorkItem
  <2>5. /\ Sound(mem')
        /\ mem'[item].status = "todo" => InFlight(mem') = {}
    BY <1>1, <2>2, <2>3, <2>4, SteppedSound
  <2>6. DoneIsKept'
    BY <2>1, <2>4 DEF WorkInv, DoneIsKept
  <2>7. MemoryIsPlan' /\ ItemAtWork' /\ WorkUnderWay'
    BY <1>1, <2>1, <2>4, <2>5
    DEF MemoryIsPlan, ItemAtWork, WorkUnderWay, Ahead, TriagePcs, QuietPcs, WrapPcs, WorkPcs
  <2> QED
    BY <1>1, <2>1, <2>5, <2>6, <2>7 DEF WorkInv, ClosedIsSettled, KeepsDone
<1>5. CASE SaveBlocked \/ SaveCeiling
  <2>1. plan' = mem /\ mem' = mem /\ phase' = phase /\ item' = item /\ acted' = acted
    BY <1>5 DEF SaveBlocked, SaveCeiling
  <2>2. MemoryIsPlan' /\ ItemAtWork' /\ WorkUnderWay'
    BY <1>1, <1>5, <2>1
    DEF SaveBlocked, SaveCeiling, Goto, WorkInv, MemoryIsPlan, ItemAtWork, WorkUnderWay, Ahead,
        TriagePcs, QuietPcs, WrapPcs, WorkPcs
  <2> QED
    BY <1>1, <2>1, <2>2 DEF WorkInv, DoneIsKept, ClosedIsSettled, KeepsDone
<1>6. CASE SaveItem
  BY <1>1, <1>6, ReturnWorks DEF SaveItem, WorkInv, DoneIsKept, KeepsDone
<1> QED
  BY <1>2, <1>3, <1>4, <1>5, <1>6 DEF Attempt

(* Verification, review and integration. *)
LEMMA ReviewWorks ==
  ASSUME TypeOK, WorkHasItem, WorkInv, Review
  PROVE  WorkInv' /\ KeepsDone
<1>1. /\ mem \in Plans /\ plan \in Plans /\ Sound(mem) /\ Sound(plan)
      /\ pc \in WorkPcs /\ item \in Items /\ phase # "done" /\ acted = FALSE
      /\ NoItem \notin Items
  BY BuildPhaseAssumption
  DEF Review, TurnedDown, AlreadySatisfied, Verified, Reverified, PanelPassed, Integrate,
      DismissGates, WorkInv, WorkUnderWay, MemoryIsPlan, WorkHasItem, WorkPcs, TypeOK
<1>2. pc \in {"verify", "reverify", "panel"} =>
        /\ mem[item].status \in {"in_progress", "review"} /\ item \in InFlight(mem)
        /\ ~mem[item].live
  BY <1>1, RestIsQuiet DEF WorkInv, ItemAtWork, InStatus
<1>3. CASE TurnedDown
  BY <1>1, <1>2, <1>3, TurnDownWorks DEF TurnedDown, Goto, disk
<1>4. CASE AlreadySatisfied \/ Reverified \/ PanelPassed
  <2>1. plan' = plan /\ mem' = mem /\ phase' = phase /\ item' = item /\ acted' = acted
    BY <1>4 DEF AlreadySatisfied, Reverified, PanelPassed, disk
  <2>2. MemoryIsPlan' /\ ItemAtWork' /\ WorkUnderWay'
    BY <1>1, <1>2, <1>4, <2>1
    DEF AlreadySatisfied, Reverified, PanelPassed, Goto, WorkInv, MemoryIsPlan, ItemAtWork,
        WorkUnderWay, Ahead, TriagePcs, QuietPcs, WrapPcs, WorkPcs
  <2> QED
    BY <2>1, <2>2, MovesOn
<1>5. CASE Verified
  <2>1. /\ plan' = mem' /\ phase' = phase /\ item' = item /\ acted' = acted
        /\ pc' = "reverify" /\ pc = "verify"
    BY <1>5 DEF Verified, Goto
  <2>2. mem' \in Plans
    BY <1>5, ReviewType DEF Review, TypeOK
  <2>3. /\ \A j \in Items \ {item} : mem'[j] = mem[j]
        /\ mem'[item].status = "review" /\ mem'[item].live = mem[item].live
        /\ mem'[item].fails = mem[item].fails /\ mem'[item].deps = mem[item].deps
    BY <1>1, <1>5 DEF Verified, Plans, WorkItem
  <2>4. Sound(mem')
    BY <1>1, <1>2, <2>1, <2>2, <2>3, SteppedSound
  <2>5. KeepsDone
    BY <1>2, <2>1, <2>3 DEF WorkInv, DoneIsKept, KeepsDone
  <2>6. MemoryIsPlan' /\ ItemAtWork' /\ WorkUnderWay'
    BY <1>1, <2>1, <2>3
    DEF MemoryIsPlan, ItemAtWork, WorkUnderWay, Ahead, TriagePcs, QuietPcs, WrapPcs, WorkPcs
  <2> QED
    BY <1>1, <2>1, <2>4, <2>5, <2>6 DEF WorkInv, DoneIsKept, ClosedIsSettled
<1>6. CASE Integrate
  <2>1. /\ mem' = WithStatus(mem, {item}, "done") /\ plan' = mem' /\ phase' = phase
        /\ item' = item /\ acted' = acted /\ pc' = "dismiss"
    BY <1>6 DEF Integrate, Goto
  <2>2. mem[item].status \in {"in_progress", "review"} /\ ~mem[item].live
    BY <1>6 DEF Integrate, WorkInv, ItemAtWork
  <2>3. item \in InPlan(mem) /\ ~Terminal(mem, item) /\ InFlight(mem) = {item}
    BY <1>1, <2>2, RestIsQuiet DEF InPlan, Terminal, TerminalStatuses, InStatus
  <2>4. /\ Sound(mem') /\ InFlight(mem') = {}
        /\ \A j \in Items : mem'[j].status = IF j = item THEN "done" ELSE mem[j].status
    BY <1>1, <2>1, <2>2, <2>3, WithStatusSound
  <2>5. KeepsDone
    BY <2>1, <2>4 DEF WorkInv, DoneIsKept, KeepsDone
  <2>6. MemoryIsPlan' /\ ItemAtWork' /\ WorkUnderWay'
    BY <1>1, <2>1, <2>4
    DEF MemoryIsPlan, ItemAtWork, WorkUnderWay, Ahead, TriagePcs, QuietPcs, WrapPcs, WorkPcs
  <2> QED
    BY <1>1, <2>1, <2>4, <2>5, <2>6 DEF WorkInv, DoneIsKept, ClosedIsSettled
<1>7. CASE DismissGates
  BY <1>1, <1>7, ReturnWorks DEF DismissGates, WorkInv, KeepsDone
<1> QED
  BY <1>3, <1>4, <1>5, <1>6, <1>7 DEF Review

(* An entry of the report that rewrites the plan in memory: what it leaves   *)
(* to deal with has still failed, and nothing finished is touched.           *)
LEMMA ActWorks ==
  ASSUME TypeOK, WorkInv, NEW i \in Items, NEW verdict, NEW p, Act(i, verdict, p),
         Sound(p), InFlight(p) = {},
         \A j \in Items \ {i} : mem[j].status # "absent" => p[j].status = mem[j].status
  PROVE  WorkInv' /\ KeepsDone
<1>1. /\ pc = "report" /\ pc' = pc /\ mem' = p /\ plan' = plan /\ phase' = phase
      /\ item' = item /\ acted' = TRUE /\ cands' = cands \ {i} /\ i \in cands
      /\ cands \subseteq Items
  BY DEF Act, Entry, disk, TypeOK
<1>2. mem[i].status = "failed" /\ \A j \in cands : mem[j].status = "failed"
  BY <1>1 DEF WorkInv, WorkUnderWay, TriagePcs
<1>3. DoneIsKept'
  BY <1>1, <1>2 DEF WorkInv, DoneIsKept
<1>4. \A j \in cands' : mem'[j].status = "failed"
  BY <1>1, <1>2
<1>5. MemoryIsPlan' /\ ItemAtWork' /\ WorkUnderWay'
  BY <1>1, <1>4
  DEF WorkInv, MemoryIsPlan, ItemAtWork, WorkUnderWay, Ahead, TriagePcs, QuietPcs, WrapPcs,
      WorkPcs
<1> QED
  BY <1>1, <1>3, <1>5 DEF WorkInv, ClosedIsSettled, KeepsDone

(* The entries of a report. *)
LEMMA EntryWorks ==
  ASSUME TypeOK, WorkInv, NEW i \in Items,
         TriageRetry(i) \/ TriageDrop(i) \/ TriageSplit(i) \/ TriageQuestion(i)
  PROVE  WorkInv' /\ KeepsDone
<1>1. /\ mem \in Plans /\ Sound(mem) /\ pc = "report" /\ i \in cands
  BY DEF TriageRetry, TriageDrop, TriageSplit, TriageQuestion, Act, Entry, WorkInv, TypeOK
<1>2. InFlight(mem) = {} /\ mem[i].status = "failed" /\ phase # "done"
  BY <1>1 DEF WorkInv, WorkUnderWay, QuietPcs, TriagePcs
<1>3. i \in InPlan(mem) /\ {i} \in SUBSET InPlan(mem) /\ ~mem[i].live /\ ~Terminal(mem, i)
  BY <1>2 DEF InPlan, InFlight, Terminal, TerminalStatuses
<1>4. CASE TriageRetry(i)
  <2> DEFINE q == Revived(mem, {i})
  <2>1. /\ q \in Plans /\ Sound(q) /\ InFlight(q) = {}
        /\ \A j \in Items \ {i} : q[j].status = mem[j].status
    BY <1>1, <1>2, <1>3, RevivedType, RevivedSound
  <2> HIDE DEF q
  <2>2. /\ Marked(q, i) \in Plans /\ Sound(Marked(q, i)) /\ InFlight(Marked(q, i)) = {}
        /\ \A j \in Items \ {i} : Marked(q, i)[j].status = mem[j].status
    BY <2>1, MarkedType, MarkedNotes, NotedSound
  <2> QED
    BY <1>4, <2>2, ActWorks DEF TriageRetry, q
<1>5. CASE TriageDrop(i)
  <2> DEFINE q == WithStatus(mem, {i}, "dropped")
  <2>1. "dropped" \in Statuses
    BY DEF Statuses, TerminalStatuses
  <2>2. /\ q \in Plans /\ Sound(q) /\ InFlight(q) = {}
        /\ \A j \in Items \ {i} : q[j].status = mem[j].status
    BY <1>1, <1>2, <1>3, <2>1, WithStatusType, WithStatusSound
  <2> HIDE DEF q
  <2>3. /\ Marked(q, i) \in Plans /\ Sound(Marked(q, i)) /\ InFlight(Marked(q, i)) = {}
        /\ \A j \in Items \ {i} : Marked(q, i)[j].status = mem[j].status
    BY <2>2, MarkedType, MarkedNotes, NotedSound
  <2> QED
    BY <1>5, <2>3, ActWorks DEF TriageDrop, q
<1>6. CASE TriageSplit(i)
  <2>1. PICK draft \in Drafts : \E r \in [DOMAIN draft -> InStatus(mem, "absent")] :
          Act(i, "split", Split(mem, i, draft, r))
    BY <1>6 DEF TriageSplit
  <2>2. PICK r \in [DOMAIN draft -> InStatus(mem, "absent")] :
          Act(i, "split", Split(mem, i, draft, r))
    BY <2>1
  <2>3. i \in InStatus(mem, "failed")
    BY <1>2 DEF InStatus
  <2> DEFINE q == Split(mem, i, draft, r)
  <2>4. /\ Sound(q) /\ InFlight(q) = {}
        /\ \A j \in Items \ {i} : mem[j].status # "absent" => q[j].status = mem[j].status
    BY <1>1, <1>2, <2>3, SplitSound
  <2> HIDE DEF q
  <2>5. Act(i, "split", q)
    BY <2>2 DEF q
  <2> QED
    BY <2>4, <2>5, ActWorks
<1>7. CASE TriageQuestion(i)
  <2>1. /\ plan' = plan /\ mem' = mem /\ phase' = phase /\ item' = item /\ acted' = acted
        /\ pc' = pc /\ cands' \subseteq cands
    BY <1>7 DEF TriageQuestion, Entry, disk
  <2>2. MemoryIsPlan' /\ ItemAtWork' /\ WorkUnderWay'
    BY <1>1, <2>1
    DEF WorkInv, MemoryIsPlan, ItemAtWork, WorkUnderWay, Ahead, TriagePcs, QuietPcs, WrapPcs,
        WorkPcs
  <2> QED
    BY <2>1, <2>2, MovesOn
<1> QED
  BY <1>4, <1>5, <1>6, <1>7

(* Triage as a whole. *)
LEMMA TriageWorks ==
  ASSUME TypeOK, WorkInv, Triage
  PROVE  WorkInv' /\ KeepsDone
<1>1. /\ mem \in Plans /\ plan \in Plans /\ Sound(mem) /\ Sound(plan) /\ NoItem \notin Items
      /\ item \in Items \cup {NoItem} /\ acted \in BOOLEAN
  BY BuildPhaseAssumption DEF TypeOK, WorkInv
<1>2. pc \in TriagePcs \cup {"triageAsk"} => InFlight(mem) = {} /\ phase # "done"
  BY DEF WorkInv, WorkUnderWay, QuietPcs, TriagePcs
<1>3. CASE TriageReports \/ TriageCloses
  <2>1. /\ plan' = plan /\ mem' = mem /\ phase' = phase /\ item' = item /\ acted' = acted
        /\ cands' = cands
    BY <1>3 DEF TriageReports, TriageCloses, disk
  <2>2. MemoryIsPlan' /\ ItemAtWork' /\ WorkUnderWay'
    BY <1>2, <1>3, <2>1
    DEF TriageReports, TriageCloses, Goto, WorkInv, MemoryIsPlan, ItemAtWork, WorkUnderWay,
        Ahead, TriagePcs, QuietPcs, WrapPcs, WorkPcs
  <2> QED
    BY <2>1, <2>2, MovesOn
<1>4. CASE TriageRewire
  <2>1. PICK f \in Fixes :
          /\ f.item \in InPlan(mem)
          /\ mem' = [mem EXCEPT ![f.item].deps = (f.deps \cap InPlan(mem)) \ {f.item}]
    BY <1>4 DEF TriageRewire
  <2>2. /\ plan' = plan /\ phase' = phase /\ item' = item /\ acted' = TRUE /\ cands' = cands
        /\ pc = "report" /\ pc' = "saveTriage" /\ cands \subseteq Items
    BY <1>4 DEF TriageRewire, Goto, disk, TypeOK
  <2> DEFINE new == (f.deps \cap InPlan(mem)) \ {f.item}
  <2>3. new \in SUBSET InPlan(mem) /\ InFlight(mem) = {} /\ phase # "done"
    BY <1>2, <2>2 DEF TriagePcs
  <2>4. mem' = [mem EXCEPT ![f.item].deps = new]
    BY <2>1
  <2> HIDE DEF new
  <2>5. /\ f.item \in Items /\ \A j \in Items \ {f.item} : mem'[j] = mem[j]
        /\ mem'[f.item].status = mem[f.item].status /\ mem'[f.item].live = mem[f.item].live
        /\ mem'[f.item].fails = mem[f.item].fails /\ mem'[f.item].deps = new
    <3> DEFINE w == [mem[f.item] EXCEPT !.deps = new]
    <3>1. f.item \in Items /\ mem[f.item] \in WorkItem
      BY <1>1, <2>1 DEF InPlan, Plans
    <3>2. /\ w.status = mem[f.item].status /\ w.live = mem[f.item].live
          /\ w.fails = mem[f.item].fails /\ w.deps = new
      BY <3>1 DEF WorkItem
    <3>3. mem' = [mem EXCEPT ![f.item] = w]
      BY <2>4
    <3> HIDE DEF w
    <3> QED
      BY <1>1, <3>1, <3>2, <3>3 DEF Plans
  <2>6. Sound(mem') /\ InFlight(mem') = {}
    <3>1. f.item \in InPlan(mem)
      BY <2>1
    <3> QED
      BY <1>1, <2>3, <2>5, <3>1, RewiredSound
  <2>7. \A j \in Items : mem'[j].status = mem[j].status
    BY <2>5
  <2>8. DoneIsKept' /\ \A j \in cands' : mem'[j].status = "failed"
    BY <2>2, <2>7 DEF WorkInv, DoneIsKept, WorkUnderWay, TriagePcs
  <2>9. MemoryIsPlan' /\ ItemAtWork' /\ WorkUnderWay'
    BY <2>2, <2>3, <2>6, <2>8
    DEF WorkInv, MemoryIsPlan, ItemAtWork, WorkUnderWay, Ahead, TriagePcs, QuietPcs, WrapPcs,
        WorkPcs
  <2> QED
    BY <1>1, <2>2, <2>3, <2>6, <2>8, <2>9 DEF WorkInv, ClosedIsSettled, KeepsDone
<1>5. CASE SaveTriageAsk
  <2>1. /\ plan' = mem /\ mem' = mem /\ phase' = phase /\ item' = item /\ acted' = acted
        /\ pc = "saveTriage" /\ pc' = "triageAsk"
    BY <1>5 DEF SaveTriageAsk, Goto
  <2>2. MemoryIsPlan' /\ ItemAtWork' /\ WorkUnderWay'
    BY <1>2, <2>1
    DEF WorkInv, MemoryIsPlan, ItemAtWork, WorkUnderWay, Ahead, TriagePcs, QuietPcs, WrapPcs,
        WorkPcs
  <2> QED
    BY <1>1, <1>2, <2>1, <2>2 DEF WorkInv, DoneIsKept, ClosedIsSettled, KeepsDone, TriagePcs
<1>6. CASE SaveTriageActed
  BY <1>1, <1>2, <1>6, ReturnWorks
  DEF SaveTriageActed, WorkInv, DoneIsKept, KeepsDone, TriagePcs
<1>7. CASE TriageQuiet
  <2>1. /\ plan' = plan /\ phase' = phase /\ item' = item /\ acted' = acted
        /\ pc \in {"triage", "saveTriage"} /\ acted = FALSE
    BY <1>7 DEF TriageQuiet, disk, WorkInv, MemoryIsPlan
  <2>2. mem = plan /\ InFlight(mem) = {} /\ phase # "done"
    BY <1>2, <2>1 DEF WorkInv, MemoryIsPlan, TriagePcs, Ahead
  <2>3. CASE item = NoItem
    <3>1. mem' = mem /\ pc' = "ask"
      BY <1>7, <2>3 DEF TriageQuiet, Goto
    <3>2. MemoryIsPlan' /\ ItemAtWork' /\ WorkUnderWay'
      BY <2>1, <2>2, <2>3, <3>1
      DEF MemoryIsPlan, ItemAtWork, WorkUnderWay, Ahead, TriagePcs, QuietPcs, WrapPcs, WorkPcs
    <3> QED
      BY <2>1, <3>1, <3>2, MovesOn
  <2>4. CASE item # NoItem
    <3>1. mem' = WithStatus(mem, {item}, "todo") /\ pc' = "saveItem" /\ item \in Items
      BY <1>1, <1>7, <2>4 DEF TriageQuiet, Goto
    <3>2. mem[item].status = "failed"
      BY <2>1, <2>4 DEF WorkInv, ItemAtWork, TriagePcs
    <3>3. item \in InPlan(mem) /\ ~mem[item].live /\ ~Terminal(mem, item)
      BY <2>2, <3>1, <3>2 DEF InPlan, InFlight, Terminal, TerminalStatuses
    <3>4. /\ Sound(mem') /\ InFlight(mem') = {}
          /\ \A j \in Items : mem'[j].status = IF j = item THEN "todo" ELSE mem[j].status
      BY <1>1, <2>2, <3>1, <3>3, WithStatusSound
    <3>5. DoneIsKept'
      BY <2>1, <3>2, <3>4 DEF WorkInv, DoneIsKept
    <3>6. MemoryIsPlan' /\ ItemAtWork' /\ WorkUnderWay'
      BY <2>1, <2>2, <3>1, <3>4
      DEF MemoryIsPlan, ItemAtWork, WorkUnderWay, Ahead, TriagePcs, QuietPcs, WrapPcs, WorkPcs
    <3> QED
      BY <1>1, <2>1, <2>2, <3>4, <3>5, <3>6 DEF WorkInv, ClosedIsSettled, KeepsDone
  <2> QED
    BY <2>3, <2>4
<1>8. ASSUME NEW i \in Items, AskTriage(i)
      PROVE  WorkInv' /\ KeepsDone
  <2>1. /\ plan' = plan /\ mem' = mem /\ phase' = phase /\ item' = item /\ acted' = acted
        /\ pc = "triageAsk" /\ pc' \in {"park", "triageAsk"}
    BY <1>8 DEF AskTriage, Goto
  <2>2. MemoryIsPlan' /\ ItemAtWork' /\ WorkUnderWay'
    BY <1>2, <2>1
    DEF WorkInv, MemoryIsPlan, ItemAtWork, WorkUnderWay, Ahead, TriagePcs, QuietPcs, WrapPcs,
        WorkPcs
  <2> QED
    BY <2>1, <2>2, MovesOn
<1> QED
  BY <1>3, <1>4, <1>5, <1>6, <1>7, <1>8, EntryWorks DEF Triage

(* The wrap phase starts from a complete plan, so nothing is under way in    *)
(* it, and it closes the mission only when the drops are confirmed.          *)
LEMMA WrapWorks ==
  ASSUME TypeOK, WorkInv, Wrap
  PROVE  WorkInv' /\ KeepsDone
<1>1. /\ mem \in Plans /\ plan \in Plans /\ Sound(mem) /\ Sound(plan)
      /\ item = NoItem /\ acted = FALSE
  BY DEF Wrap, BuildPasses, QueueBuildFix, FixQueued, NoWrapAnswer, AbsorbSignoff, SaveSignoff,
         SaveRevival, AskSignoff, FinishWrap, MarkDone, WorkInv, ItemAtWork, MemoryIsPlan,
         TypeOK, WorkPcs, TriagePcs
<1>2. pc \in WrapPcs \cup {"saveRevival"} => InFlight(mem) = {}
  BY <1>1, RestIsQuiet DEF WorkInv, WorkUnderWay
<1>3. CASE BuildPasses \/ NoWrapAnswer
  <2>1. /\ plan' = plan /\ mem' = mem /\ phase' = phase /\ item' = item /\ acted' = acted
        /\ Complete(mem) /\ Complete(plan) /\ mem = plan /\ phase # "done"
    BY <1>3 DEF BuildPasses, NoWrapAnswer, disk, WorkInv, WorkUnderWay, MemoryIsPlan, WrapPcs,
                Ahead
  <2>2. MemoryIsPlan' /\ ItemAtWork' /\ WorkUnderWay'
    BY <1>1, <1>3, <2>1
    DEF BuildPasses, NoWrapAnswer, Goto, MemoryIsPlan, ItemAtWork, WorkUnderWay, Ahead,
        TriagePcs, QuietPcs, WrapPcs, WorkPcs
  <2> QED
    BY <2>1, <2>2, MovesOn
<1>4. CASE QueueBuildFix
  <2>1. PICK n \in InStatus(mem, "absent") : mem' = [mem EXCEPT ![n] = NewItem({}, TRUE)]
    BY <1>4 DEF QueueBuildFix
  <2>2. /\ plan' = mem' /\ phase' = phase /\ item' = item /\ acted' = acted
        /\ pc' = "fixQueued" /\ mem = plan /\ phase # "done"
        /\ n \in Items /\ mem[n].status = "absent"
    BY <1>4 DEF QueueBuildFix, Goto, WorkInv, WorkUnderWay, MemoryIsPlan, Ahead, InStatus
  <2>3. TRUE \in BOOLEAN
    OBVIOUS
  <2>4. Sound(mem') /\ \A j \in Items \ {n} : mem'[j] = mem[j]
    BY <1>1, <2>1, <2>3, AddedSound
  <2>5. KeepsDone
    BY <2>2, <2>4 DEF KeepsDone
  <2>6. MemoryIsPlan' /\ ItemAtWork' /\ WorkUnderWay'
    BY <1>1, <2>2
    DEF MemoryIsPlan, ItemAtWork, WorkUnderWay, Ahead, TriagePcs, QuietPcs, WrapPcs, WorkPcs
  <2> QED
    BY <2>2, <2>4, <2>5, <2>6 DEF WorkInv, DoneIsKept, ClosedIsSettled
<1>5. CASE FixQueued
  BY <1>1, <1>5, ReturnWorks DEF FixQueued, KeepsDone
<1>6. CASE AbsorbSignoff
  <2>1. /\ plan' = plan /\ phase' = phase /\ item' = item /\ acted' = acted
        /\ Complete(mem) /\ Complete(plan) /\ InFlight(mem) = {} /\ phase # "done"
    BY <1>2, <1>6 DEF AbsorbSignoff, WorkInv, WorkUnderWay, WrapPcs
  <2> DEFINE confirmed == [i \in Items |-> IF i \in UnconfirmedDrops(mem)
                                           THEN [mem[i] EXCEPT !.confirmed = TRUE]
                                           ELSE mem[i]]
  <2>2. /\ confirmed \in Plans
        /\ \A i \in Items :
             /\ confirmed[i].status = mem[i].status /\ confirmed[i].deps = mem[i].deps
             /\ confirmed[i].live = mem[i].live /\ confirmed[i].fails = mem[i].fails
    <3>1. ASSUME NEW i \in Items
          PROVE  LET c == [mem[i] EXCEPT !.confirmed = TRUE]
                 IN  /\ mem[i] \in WorkItem /\ c \in WorkItem
                     /\ c.status = mem[i].status /\ c.deps = mem[i].deps
                     /\ c.live = mem[i].live /\ c.fails = mem[i].fails
      <4>1. mem[i] \in WorkItem
        BY <1>1 DEF Plans
      <4> QED
        BY <4>1 DEF WorkItem
    <3> QED
      BY <3>1 DEF Plans
  <2> HIDE DEF confirmed
  <2>3. \/ mem' = confirmed /\ pc' = "saveSignoff"
        \/ mem' = Revived(mem, UnconfirmedDrops(mem)) /\ pc' = "saveRevival"
    BY <1>6 DEF AbsorbSignoff, Goto, confirmed
  <2>4. CASE mem' = confirmed /\ pc' = "saveSignoff"
    <3>1. Sound(mem') /\ Complete(mem') /\ DoneIsKept'
      BY <1>1, <2>1, <2>2, <2>4, NotedSound
      DEF Complete, InPlan, Terminal, WorkInv, DoneIsKept
    <3>2. MemoryIsPlan' /\ ItemAtWork' /\ WorkUnderWay'
      BY <1>1, <2>1, <2>4, <3>1
      DEF MemoryIsPlan, ItemAtWork, WorkUnderWay, Ahead, TriagePcs, QuietPcs, WrapPcs, WorkPcs
    <3> QED
      BY <1>1, <2>1, <3>1, <3>2 DEF WorkInv, ClosedIsSettled, KeepsDone
  <2>5. CASE mem' = Revived(mem, UnconfirmedDrops(mem)) /\ pc' = "saveRevival"
    <3>1. UnconfirmedDrops(mem) \in SUBSET InPlan(mem)
          /\ \A i \in UnconfirmedDrops(mem) : mem[i].status = "dropped"
      BY DEF UnconfirmedDrops, InPlan
    <3>2. /\ Sound(mem') /\ InFlight(mem') = {}
          /\ \A i \in Items :
               mem'[i].status = IF i \in UnconfirmedDrops(mem) THEN "todo" ELSE mem[i].status
      BY <1>1, <2>1, <2>5, <3>1, RevivedSound
    <3>3. DoneIsKept'
      BY <2>1, <3>1, <3>2 DEF WorkInv, DoneIsKept
    <3>4. MemoryIsPlan' /\ ItemAtWork' /\ WorkUnderWay'
      BY <1>1, <2>1, <2>5, <3>2
      DEF MemoryIsPlan, ItemAtWork, WorkUnderWay, Ahead, TriagePcs, QuietPcs, WrapPcs, WorkPcs
    <3> QED
      BY <1>1, <2>1, <3>2, <3>3, <3>4 DEF WorkInv, ClosedIsSettled, KeepsDone
  <2> QED
    BY <2>3, <2>4, <2>5
<1>7. CASE SaveSignoff
  <2>1. /\ plan' = mem /\ mem' = mem /\ phase' = phase /\ item' = item /\ acted' = acted
        /\ pc' = "drops" /\ Complete(mem) /\ phase # "done"
    BY <1>7 DEF SaveSignoff, Goto, WorkInv, WorkUnderWay, WrapPcs
  <2>2. MemoryIsPlan' /\ ItemAtWork' /\ WorkUnderWay'
    BY <1>1, <2>1
    DEF MemoryIsPlan, ItemAtWork, WorkUnderWay, Ahead, TriagePcs, QuietPcs, WrapPcs, WorkPcs
  <2> QED
    BY <1>1, <2>1, <2>2 DEF WorkInv, DoneIsKept, ClosedIsSettled, KeepsDone
<1>8. CASE SaveRevival
  <2>1. phase # "done"
    BY <1>8 DEF SaveRevival, WorkInv, WorkUnderWay
  <2> QED
    BY <1>1, <1>8, <2>1, ReturnWorks DEF SaveRevival, WorkInv, DoneIsKept, KeepsDone
<1>9. CASE AskSignoff
  <2>1. /\ plan' = plan /\ mem' = mem /\ phase' = phase /\ item' = item /\ acted' = acted
        /\ pc' = "park" /\ mem = plan /\ InFlight(mem) = {} /\ phase # "done"
    BY <1>2, <1>9 DEF AskSignoff, Goto, WorkInv, WorkUnderWay, MemoryIsPlan, WrapPcs, Ahead
  <2>2. MemoryIsPlan' /\ ItemAtWork' /\ WorkUnderWay'
    BY <1>1, <2>1
    DEF MemoryIsPlan, ItemAtWork, WorkUnderWay, Ahead, TriagePcs, QuietPcs, WrapPcs, WorkPcs
  <2> QED
    BY <2>1, <2>2, MovesOn
<1>10. CASE FinishWrap
  <2>1. /\ plan' = plan /\ mem' = mem /\ phase' = "done" /\ item' = item /\ acted' = acted
        /\ pc' = "markDone" /\ mem = plan /\ Complete(plan) /\ UnconfirmedDrops(plan) = {}
    BY <1>10 DEF FinishWrap, Goto, WorkInv, WorkUnderWay, MemoryIsPlan, WrapPcs, Ahead
  <2>2. MemoryIsPlan' /\ ItemAtWork' /\ WorkUnderWay'
    BY <1>1, <2>1
    DEF MemoryIsPlan, ItemAtWork, WorkUnderWay, Ahead, TriagePcs, QuietPcs, WrapPcs, WorkPcs
  <2> QED
    BY <2>1, <2>2 DEF WorkInv, DoneIsKept, ClosedIsSettled, KeepsDone
<1>11. CASE MarkDone
  <2>1. /\ plan' = plan /\ phase' = phase /\ mem = plan
        /\ Complete(plan) /\ UnconfirmedDrops(plan) = {}
    BY <1>11 DEF MarkDone, WorkInv, WorkUnderWay, MemoryIsPlan, WrapPcs, Ahead
  <2> QED
    BY <1>1, <1>11, <2>1, ReturnWorks DEF MarkDone, ClosedIsSettled, KeepsDone
<1> QED
  BY <1>3, <1>4, <1>5, <1>6, <1>7, <1>8, <1>9, <1>10, <1>11 DEF Wrap

(* The user and the death of the process touch neither copy of the plan but *)
(* by forgetting the one in memory.                                         *)
LEMMA OutsideWorks ==
  ASSUME TypeOK, WorkInv, User \/ Crash \/ UNCHANGED vars
  PROVE  WorkInv' /\ KeepsDone
<1>1. CASE Crash
  BY <1>1, ReturnWorks DEF Crash, disk, WorkInv, ClosedIsSettled, KeepsDone
<1>2. CASE User \/ UNCHANGED vars
  <2>1. plan' = plan /\ phase' = phase /\ UNCHANGED local
    BY <1>2 DEF User, QueueRequest, Answer, vars, disk
  <2>2. MemoryIsPlan' /\ ItemAtWork' /\ WorkUnderWay'
    BY <2>1 DEF local, WorkInv, MemoryIsPlan, ItemAtWork, WorkUnderWay
  <2> QED
    BY <2>1, <2>2, MovesOn DEF local
<1> QED
  BY <1>1, <1>2

-----------------------------------------------------------------------------
(* The theorems.                                                            *)

(* The first plan is sound: nothing in it has been started, and it knows    *)
(* the items it depends on (_draft_to_plan, validate_graph).                *)
LEMMA FirstPlanSound ==
  ASSUME Init
  PROVE  WorkInv
<1>1. plan \in InitialPlans /\ plan \in Plans /\ mem = plan
  BY BuildPhaseAssumption DEF Init
<1>2. ASSUME NEW i \in Items
      PROVE  plan[i].status \in {"todo", "absent"} /\ plan[i].live = FALSE /\ plan[i].fails = 0
  <2>1. plan[i] \in {NewItem(plan[i].deps, plan[i].fix), Absent}
    BY <1>1, InitialPlansAssumption
  <2> QED
    BY <2>1 DEF NewItem, Absent
<1>3. InFlight(plan) = {}
  BY <1>2 DEF InFlight
<1>4. LiveIsWork(plan) /\ Budgeted(plan)
  <2>1. 0 <= MaxAttempts
    BY WorkPlanAssumption
  <2> QED
    BY <1>2, <1>3, <2>1 DEF LiveIsWork, Budgeted
<1>5. DepsKnown(plan)
  BY <1>1, InitialPlansAssumption DEF ValidGraph, DepsKnown
<1>6. Sound(plan)
  BY <1>3, <1>4, <1>5 DEF Sound, OneUnderWay, DepsDone
<1> QED
  BY <1>1, <1>6
  DEF Init, WorkInv, MemoryIsPlan, DoneIsKept, ItemAtWork, WorkUnderWay, ClosedIsSettled, Ahead,
      TriagePcs, QuietPcs, WrapPcs, WorkPcs

(* Every step keeps the invariant, and what is done stays done. *)
LEMMA StepWorks ==
  ASSUME TypeOK, WorkHasItem, WorkInv, [Next]_vars
  PROVE  WorkInv' /\ KeepsDone
BY RouteWorks, RequestWorks, PrepareWorks, AttemptWorks, ReviewWorks, TriageWorks, WrapWorks,
   OutsideWorks
DEF Next, Runner

(* Throughout: what is under way is one item, with its budget, after its    *)
(* dependencies, and the visit's copy of the plan is the one on disk but    *)
(* for what the visit has still to save.                                    *)
THEOREM WorkCorrect == Spec => [](TypeOK /\ WorkHasItem /\ WorkInv)
<1>1. Init => WorkInv
  BY FirstPlanSound
<1>2. TypeOK /\ WorkHasItem /\ WorkInv /\ [Next]_vars => WorkInv'
  BY StepWorks
<1> QED
  BY <1>1, <1>2, TypeCorrect, PTL DEF Spec

(* The single coder works on one item at a time (phase_build, the resumed   *)
(* review, cleanup_dangling_attempts).                                      *)
THEOREM OneAtATime == Spec => []OneInFlight
<1>1. WorkInv => OneInFlight
  BY DEF WorkInv, Sound, OneUnderWay, OneInFlight
<1> QED
  BY <1>1, WorkCorrect, PTL

(* No item goes over max_attempts_per_item (pick_item, exhausted_items).    *)
THEOREM BudgetKept == Spec => []AttemptBudget
<1>1. WorkInv => AttemptBudget
  BY DEF WorkInv, Sound, Budgeted, AttemptBudget
<1> QED
  BY <1>1, WorkCorrect, PTL

(* No item is worked on before what it depends on is finished, however      *)
(* triage splits and rewires (Plan.ready_items, _run_triage).               *)
THEOREM DepsRespected == Spec => []WorkRespectsDeps
<1>1. WorkInv => WorkRespectsDeps
  BY DEF WorkInv, Sound, DepsDone, WorkRespectsDeps
<1> QED
  BY <1>1, WorkCorrect, PTL

(* A mission is closed only when it is finished and every drop confirmed    *)
(* (phase_wrap).                                                            *)
THEOREM ClosedSettled == Spec => []ClosedIsSettled
<1>1. WorkInv => ClosedIsSettled
  BY DEF WorkInv
<1> QED
  BY <1>1, WorkCorrect, PTL

(* Finished work stays finished, whatever a visit saves over the plan that  *)
(* it loaded (save_plan in every phase).                                    *)
THEOREM FinishedForGood == Spec => DoneIsFinal
<1>1. TypeOK /\ WorkHasItem /\ WorkInv /\ [Next]_vars
        => [\A i \in Items : plan[i].status = "done" => plan'[i].status = "done"]_vars
  BY StepWorks DEF KeepsDone
<1> QED
  BY <1>1, WorkCorrect, PTL DEF Spec, DoneIsFinal

-----------------------------------------------------------------------------
(* Questions that stop waiting.                                             *)

(* Asking frees no question. *)
LEMMA AskUserFreesNone ==
  ASSUME gates \in [Slots -> Gate], NEW from, NEW ph, NEW i, NEW about,
         AskUser(from, ph, i, about), NEW s \in Slots, gates'[s].status = "free"
  PROVE  gates[s].status = "free"
<1>1. PICK t \in Slots : gates' = [gates EXCEPT ![t] = NewGate(from, ph, i, about)]
  BY DEF AskUser
<1>2. gates'[t].status = "open" /\ \A u \in Slots \ {t} : gates'[u] = gates[u]
  BY <1>1 DEF NewGate
<1> QED
  BY <1>2

(* Who frees a question: the attempt whose brief held its answer, the        *)
(* absorption it was meant for, or the end of the item it was about.         *)
FreedBy(s) ==
  \/ s \in brief
  \/ s \in Guidance /\ \A i \in Items : mem'[i].status # "failed"
  \/ s \in WrapAnswers /\ UnconfirmedDrops(mem') = {}
  \/ s \in Open /\ gates[s].item \in Items /\ plan[gates[s].item].status = "done"

(* Guidance leaves no item failed, and a sign-off no drop unconfirmed. *)
LEMMA AbsorptionSettles ==
  ASSUME TypeOK, NEW s \in Slots, gates[s].status # "free", gates'[s].status = "free",
         AbsorbGuidance \/ AbsorbSignoff
  PROVE  FreedBy(s)
<1>1. mem \in Plans
  BY DEF TypeOK
<1>2. CASE AbsorbGuidance
  <2>1. gates' = Freed(Guidance) /\ mem' = Revived(mem, InStatus(mem, "failed"))
    BY <1>2 DEF AbsorbGuidance, Consume
  <2>2. s \in Guidance
    BY <2>1 DEF Freed
  <2>3. ASSUME NEW i \in Items
        PROVE  mem'[i].status # "failed"
    <3>1. mem[i] \in WorkItem
      BY <1>1 DEF Plans
    <3>2. mem'[i] = IF i \in InStatus(mem, "failed")
                      THEN [mem[i] EXCEPT !.status = "todo", !.fails = 0, !.live = FALSE,
                                          !.good = FALSE, !.tested = FALSE]
                      ELSE mem[i]
      BY <2>1 DEF Revived
    <3> QED
      BY <3>1, <3>2 DEF InStatus, WorkItem
  <2> QED
    BY <2>2, <2>3 DEF FreedBy
<1>3. CASE AbsorbSignoff
  <2>1. s \in WrapAnswers
    BY <1>3 DEF AbsorbSignoff, Consume, Freed
  <2>2. \/ mem' = [i \in Items |-> IF i \in UnconfirmedDrops(mem)
                                     THEN [mem[i] EXCEPT !.confirmed = TRUE] ELSE mem[i]]
        \/ mem' = Revived(mem, UnconfirmedDrops(mem))
    BY <1>3 DEF AbsorbSignoff
  <2>3. ASSUME NEW i \in Items
        PROVE  mem'[i].status = "dropped" => mem'[i].confirmed
    <3>1. mem[i] \in WorkItem
      BY <1>1 DEF Plans
    <3>2. CASE mem' = Revived(mem, UnconfirmedDrops(mem))
      BY <3>1, <3>2 DEF Revived, UnconfirmedDrops, WorkItem
    <3>3. CASE mem' = [j \in Items |-> IF j \in UnconfirmedDrops(mem)
                                        THEN [mem[j] EXCEPT !.confirmed = TRUE] ELSE mem[j]]
      <4>1. mem'[i] = IF i \in UnconfirmedDrops(mem)
                        THEN [mem[i] EXCEPT !.confirmed = TRUE] ELSE mem[i]
        BY <3>3
      <4> QED
        BY <3>1, <4>1 DEF UnconfirmedDrops, WorkItem
    <3> QED
      BY <2>2, <3>2, <3>3
  <2> QED
    BY <2>1, <2>3 DEF FreedBy, UnconfirmedDrops
<1> QED
  BY <1>2, <1>3

(* The same of every step. *)
LEMMA StepFrees ==
  ASSUME IInv, WorkInv, [Next]_vars, NEW s \in Slots,
         gates[s].status # "free", gates'[s].status = "free"
  PROVE  FreedBy(s)
<1>1. TypeOK /\ gates \in [Slots -> Gate] /\ gates' # gates
  BY DEF IInv, TypeOK
<1>2. CASE Begin \/ Route \/ Park \/ RequestPhase
  BY <1>1, <1>2
  DEF Begin, Route, RouteRequest, RouteWrap, RouteBuild, RouteDone, Enter, Park, RequestPhase,
      RequestRefused, RequestPlanned, Reactivate, CloseRequest, disk
<1>3. CASE Prepare
  BY <1>1, <1>3, AskUserFreesNone, AbsorptionSettles
  DEF Prepare, LoadPlan, SaveGuidance, ResumeReview, RequeueReview, NoReview, StartAttempt,
      MarkExhausted, AskForDirection, disk
<1>4. CASE Attempt
  <2>1. CASE LoopBlocked \/ LoopFailed \/ LoopHitCeiling \/ TestsDelivered \/ WorkDelivered
    <3>1. gates' = Freed(brief)
      BY <2>1 DEF LoopBlocked, LoopFailed, LoopHitCeiling, TestsDelivered, WorkDelivered,
                  LoopReturns, Consume
    <3> QED
      BY <3>1 DEF Freed, FreedBy
  <2>2. CASE AgentAsks \/ SaveBlocked \/ SaveItem \/ SaveCeiling
    BY <1>1, <2>2, AskUserFreesNone DEF AgentAsks, SaveBlocked, SaveItem, SaveCeiling
  <2> QED
    BY <1>4, <2>1, <2>2 DEF Attempt
<1>5. CASE Review
  <2>1. CASE DismissGates
    <3>1. gates' = Freed({t \in Open : gates[t].item = item}) /\ pc = "dismiss"
      BY <2>1 DEF DismissGates
    <3>2. s \in Open /\ gates[s].item = item
      BY <3>1 DEF Freed
    <3>3. item \in Items /\ plan[item].status = "done"
      BY <3>1 DEF IInv, WorkHasItem, WorkPcs, WorkInv, ItemAtWork
    <3> QED
      BY <3>2, <3>3 DEF FreedBy
  <2>2. CASE \/ TurnedDown \/ AlreadySatisfied \/ Verified \/ Reverified \/ PanelPassed
             \/ Integrate
    BY <1>1, <2>2
    DEF TurnedDown, AlreadySatisfied, Verified, Reverified, PanelPassed, Integrate, disk
  <2> QED
    BY <1>5, <2>1, <2>2 DEF Review
<1>6. CASE Triage
  <2>1. ASSUME NEW i \in Items, AskTriage(i)
        PROVE  FreedBy(s)
    BY <1>1, <2>1, AskUserFreesNone DEF AskTriage
  <2>2. ASSUME NEW i \in Items,
               TriageRetry(i) \/ TriageDrop(i) \/ TriageSplit(i) \/ TriageQuestion(i)
        PROVE  FreedBy(s)
    BY <1>1, <2>2 DEF TriageRetry, TriageDrop, TriageSplit, TriageQuestion, Act, Entry, disk
  <2> QED
    BY <1>1, <1>6, <2>1, <2>2
    DEF Triage, TriageReports, TriageRewire, TriageCloses, SaveTriageAsk, SaveTriageActed,
        TriageQuiet, disk
<1>7. CASE Wrap
  BY <1>1, <1>7, AskUserFreesNone, AbsorptionSettles
  DEF Wrap, BuildPasses, QueueBuildFix, FixQueued, NoWrapAnswer, SaveSignoff, SaveRevival,
      AskSignoff, FinishWrap, MarkDone, disk
<1>8. CASE User
  <2>1. ASSUME NEW t \in Slots, Answer(t)
        PROVE  gates'[s].status = "free" => gates[s].status = "free"
    <3>1. PICK yes \in BOOLEAN :
            gates' = [gates EXCEPT ![t].status = "answered", ![t].yes = yes]
      BY <2>1 DEF Answer
    <3>2. gates'[t].status = "answered" /\ \A u \in Slots \ {t} : gates'[u] = gates[u]
      BY <1>1, <3>1 DEF Gate
    <3> QED
      BY <3>2
  <2> QED
    BY <1>1, <1>8, <2>1 DEF User, QueueRequest
<1>9. CASE Crash \/ UNCHANGED vars
  BY <1>1, <1>9 DEF Crash, vars, disk
<1> QED
  BY <1>2, <1>3, <1>4, <1>5, <1>6, <1>7, <1>8, <1>9 DEF Next, Runner

(* A question the user has not answered is withdrawn only because the item  *)
(* it is about is done (_integrate_item, GateBook.dismiss).                 *)
THEOREM QuestionsKept == Spec => QuestionsPersist
<1>1. IInv /\ WorkInv /\ [Next]_vars
        => [\A s \in Open : gates'[s].status = "free" =>
              /\ gates[s].item \in Items
              /\ plan[gates[s].item].status = "done"]_vars
  <2> SUFFICES ASSUME IInv, WorkInv, [Next]_vars, NEW s \in Open, gates'[s].status = "free"
               PROVE  gates[s].item \in Items /\ plan[gates[s].item].status = "done"
    OBVIOUS
  <2>1. s \in Slots /\ gates[s].status = "open"
    BY DEF Open
  <2>2. FreedBy(s)
    BY <2>1, StepFrees
  <2>3. s \notin Answered /\ brief \subseteq Answered
    BY <2>1 DEF Answered, IInv, BriefIsKept
  <2> QED
    BY <2>2, <2>3 DEF FreedBy, Guidance, WrapAnswers
<1> QED
  BY <1>1, WorkCorrect, QuestionsCorrect, PTL DEF Spec, QuestionsPersist

(* An answer is marked consumed only by a reader that had it                *)
(* (mark_gates_consumed in the phases).                                     *)
THEOREM AnswersAreRead == Spec => ConsumedWasRead
<1>1. IInv /\ WorkInv /\ [Next]_vars
        => [\A s \in Answered : gates'[s].status = "free" =>
              \/ s \in brief
              \/ s \in Guidance /\ \A i \in Items : mem'[i].status # "failed"
              \/ s \in WrapAnswers /\ UnconfirmedDrops(mem') = {}]_vars
  <2> SUFFICES ASSUME IInv, WorkInv, [Next]_vars, NEW s \in Answered, gates'[s].status = "free"
               PROVE  \/ s \in brief
                      \/ s \in Guidance /\ \A i \in Items : mem'[i].status # "failed"
                      \/ s \in WrapAnswers /\ UnconfirmedDrops(mem') = {}
    OBVIOUS
  <2>1. s \in Slots /\ gates[s].status = "answered"
    BY DEF Answered
  <2>2. FreedBy(s) /\ s \notin Open
    BY <2>1, StepFrees DEF Open
  <2> QED
    BY <2>2 DEF FreedBy
<1> QED
  BY <1>1, WorkCorrect, QuestionsCorrect, PTL DEF Spec, ConsumedWasRead

-----------------------------------------------------------------------------
(* What a split item was waited for by waits for all of its replacements.   *)

(* What is waited for, one step further. *)
Nearer(p, near) == near \cup UNION {p[d].deps : d \in near}

(* The rounds of Before. *)
LEMMA BeforeRounds ==
  ASSUME NEW p \in Plans, NEW j \in Items
  PROVE  \E before \in [0 .. Cardinality(Items) -> SUBSET Items] :
            /\ before[0] = p[j].deps
            /\ \A n \in 1 .. Cardinality(Items) : before[n] = Nearer(p, before[n - 1])
            /\ Before(p, j) = before[Cardinality(Items)]
<1> DEFINE m == Cardinality(Items)
           D == SUBSET Items
           step == [S \in D |-> Nearer(p, S)]
           F == CHOOSE f : f = [n \in 0 .. Cardinality(Items) |->
                                  IF n = 0 THEN p[j].deps ELSE Nearer(p, f[n - 1])]
<1>1. m \in Nat
  BY WorkPlanAssumption, FS_CardinalityType
<1>2. \A i \in Items : p[i].deps \in D
  BY DEF Plans, WorkItem
<1>3. ASSUME NEW S \in D
      PROVE  Nearer(p, S) \in D
  BY <1>2 DEF Nearer
<1>4. step \in [D -> D]
  BY <1>3
<1>5. PICK g : Iterates(g, m, D, p[j].deps, step)
  <2> DEFINE first == p[j].deps
  <2>1. first \in D
    BY <1>2
  <2> HIDE DEF m, D, step, first
  <2>2. \E g : Iterates(g, m, D, first, step)
    BY <1>1, <1>4, <2>1, IterationExists
  <2> QED
    BY <2>2 DEF first
<1>6. g = [n \in 0 .. m |-> IF n = 0 THEN p[j].deps ELSE Nearer(p, g[n - 1])]
  <2>1. ASSUME NEW n \in 0 .. m
        PROVE  g[n] = IF n = 0 THEN p[j].deps ELSE Nearer(p, g[n - 1])
    <3> HIDE DEF m, D, F
    <3>1. CASE n = 0
      BY <1>5, <3>1 DEF Iterates
    <3>2. CASE n # 0
      <4>1. n \in 1 .. m /\ n - 1 \in 0 .. m
        BY <1>1, <3>2
      <4>2. g[n - 1] \in D /\ g[n] = step[g[n - 1]]
        BY <1>5, <4>1 DEF Iterates
      <4> QED
        BY <3>2, <4>2
    <3> QED
      BY <3>1, <3>2
  <2> QED
    BY <1>5, <2>1 DEF Iterates
<1>7. F = [n \in 0 .. Cardinality(Items) |->
             IF n = 0 THEN p[j].deps ELSE Nearer(p, F[n - 1])]
  BY <1>6
<1>8. Before(p, j) = F[Cardinality(Items)]
  BY DEF Before, Nearer
<1> HIDE DEF F
<1>9. ASSUME NEW n \in 1 .. m
      PROVE  F[n] = Nearer(p, F[n - 1])
  <2>1. n \in 0 .. m /\ n # 0
    BY <1>1
  <2> QED
    BY <1>7, <2>1
<1>10. F[0] = p[j].deps
  BY <1>1, <1>7
<1>11. F = g
  <2> DEFINE differ == {n \in 0 .. m : F[n] # g[n]}
  <2>1. SUFFICES ASSUME differ # {} PROVE FALSE
    BY <1>5, <1>7 DEF Iterates
  <2>2. PICK n \in differ : \A k \in differ : n <= k
    <3>1. differ \in SUBSET Nat
      BY <1>1
    <3> HIDE DEF differ
    <3> QED
      BY <2>1, <3>1, LeastNumber
  <2>3. n # 0
    BY <1>5, <1>10 DEF Iterates
  <2>4. n \in 1 .. m /\ n - 1 \in 0 .. m
    BY <1>1, <2>3
  <2>5. F[n - 1] = g[n - 1]
    <3>1. n - 1 \notin differ
      <4> HIDE DEF differ, m, F
      <4> QED
        BY <1>1, <2>2, <2>4
    <3> QED
      BY <2>4, <3>1
  <2>6. g[n] = Nearer(p, g[n - 1])
    BY <1>5, <2>4 DEF Iterates
  <2> QED
    BY <1>9, <2>4, <2>5, <2>6
<1>12. F \in [0 .. m -> D]
  BY <1>5, <1>11 DEF Iterates
<1> QED
  BY <1>8, <1>9, <1>10, <1>12

(* The replacements of a split can be reached from the last one, which is   *)
(* what everybody waits for who waited for the split item.                  *)
LEMMA SplitOrder ==
  ASSUME NEW p \in Plans, NEW i \in InPlan(p), NEW j \in InPlan(p) \ {i}, i \in p[j].deps,
         NEW draft, NEW size, NEW r, Replacements(p, r, size),
         Split(p, i, draft, r) \in Plans
  PROVE  {r[k] : k \in 1 .. size} \subseteq Before(Split(p, i, draft, r), j)
<1> DEFINE q == Split(p, i, draft, r)
           m == Cardinality(Items)
<1>1. Rewired(p, q, i, draft, r, size)
  BY SplitGraph
<1>2. q \in Plans /\ j \in Items
  BY DEF InPlan
<1> HIDE DEF q
<1>3. size \in Nat \ {0} /\ r \in [1 .. size -> Items] /\ m \in Nat
  BY WorkPlanAssumption, FS_CardinalityType DEF Replacements, InStatus
<1>4. size <= m
  <2>1. SUFFICES ASSUME m < size PROVE FALSE
    BY <1>3
  <2>2. IsFiniteSet(1 .. size) /\ Cardinality(1 .. size) = size
    <3>1. 1 \in Int /\ size \in Int
      BY <1>3
    <3> QED
      BY <3>1, FS_Interval DEF Replacements
  <2> DEFINE places == 1 .. size
  <2>3. r \in [places -> Items] /\ IsFiniteSet(places) /\ Cardinality(Items) < Cardinality(places)
    BY <1>3, <2>1, <2>2
  <2>4. PICK x \in places, y \in places : x # y /\ r[x] = r[y]
    <3> HIDE DEF places
    <3> QED
      BY <2>3, WorkPlanAssumption, FS_PigeonHole
  <2>5. x < y \/ y < x
    BY <1>3, <2>4
  <2> QED
    BY <2>4, <2>5 DEF Replacements
<1>5. PICK before \in [0 .. m -> SUBSET Items] :
        /\ before[0] = q[j].deps
        /\ \A n \in 1 .. m : before[n] = Nearer(q, before[n - 1])
        /\ Before(q, j) = before[m]
  BY <1>2, BeforeRounds
<1> HIDE DEF m
<1> DEFINE missed == {n \in 0 .. size - 1 : r[size - n] \notin before[n]}
<1>6. missed = {}
  <2>1. SUFFICES ASSUME missed # {} PROVE FALSE
    OBVIOUS
  <2>2. PICK n \in missed : \A k \in missed : n <= k
    <3>1. missed \in SUBSET Nat
      BY <1>3
    <3> HIDE DEF missed
    <3> QED
      BY <2>1, <3>1, LeastNumber
  <2>3. n \in 0 .. size - 1 /\ r[size - n] \notin before[n]
    OBVIOUS
  <2>4. CASE n = 0
    <3>1. q[j].deps = (p[j].deps \ {i}) \cup {r[size]}
      BY <1>1 DEF Rewired
    <3>2. size - n = size
      BY <1>3, <2>4
    <3> QED
      BY <1>5, <2>3, <2>4, <3>1, <3>2
  <2>5. CASE n # 0
    <3>1. n - 1 \in 0 .. size - 1 /\ n \in 1 .. m /\ size - n \in 1 .. size
      BY <1>3, <1>4, <2>3, <2>5
    <3> DEFINE k == size - (n - 1)
    <3>2. k \in 1 .. size /\ k # 1 /\ k - 1 = size - n
      BY <1>3, <2>3, <2>5
    <3>3. r[k] \in before[n - 1]
      <4>1. n - 1 \notin missed
        <5> HIDE DEF missed
        <5> QED
          BY <2>2, <2>3, <3>1
      <4> QED
        BY <3>1, <4>1
    <3>4. r[k - 1] \in q[r[k]].deps
      <4> HIDE DEF k
      <4>1. q[r[k]].deps = {r[l] : l \in (draft[k] \cap 1 .. size) \ {k}}
                             \cup p[i].deps \cup (IF k = 1 THEN {} ELSE {r[k - 1]})
        BY <1>1, <3>2 DEF Rewired
      <4> QED
        BY <3>2, <4>1
    <3>5. r[k - 1] \in Nearer(q, before[n - 1])
      BY <3>3, <3>4 DEF Nearer
    <3> QED
      BY <1>5, <2>3, <3>1, <3>2, <3>5
  <2> QED
    BY <2>4, <2>5
<1>7. ASSUME NEW k \in 1 .. size
      PROVE  r[k] \in before[m]
  <2>1. size - k \in 0 .. size - 1 /\ size - k <= m /\ size - (size - k) = k
    BY <1>3, <1>4
  <2>2. r[k] \in before[size - k]
    BY <1>6, <2>1
  <2> DEFINE lost == {n \in 0 .. m : size - k <= n /\ r[k] \notin before[n]}
  <2>3. SUFFICES ASSUME lost # {} PROVE FALSE
    BY <1>3, <2>1
  <2>4. PICK n \in lost : \A l \in lost : n <= l
    <3>1. lost \in SUBSET Nat
      BY <1>3
    <3> HIDE DEF lost
    <3> QED
      BY <2>3, <3>1, LeastNumber
  <2>5. n \in 0 .. m /\ size - k <= n /\ r[k] \notin before[n] /\ n # size - k
    BY <2>2
  <2>6. n \in 1 .. m /\ n - 1 \in 0 .. m /\ size - k <= n - 1
    BY <1>3, <2>1, <2>5
  <2>7. r[k] \in before[n - 1]
    <3>1. n - 1 \notin lost
      <4> HIDE DEF lost
      <4> QED
        BY <1>3, <2>4, <2>5
    <3> QED
      BY <2>6, <3>1
  <2> QED
    BY <1>5, <2>5, <2>6, <2>7 DEF Nearer
<1> QED
  BY <1>5, <1>7 DEF q

-----------------------------------------------------------------------------
(* What a step does to the two copies of the graph.                         *)

(* It changes neither, but may save one over the other or forget it; *)
Settles ==
  /\ plan' \in {plan, mem}
  /\ mem' = mem \/ mem' = plan'

(* or rewrites the one in memory, or adds to it, ... *)
Rewrites ==
  /\ plan' \in {plan, mem'} /\ NoNewWaits(mem, mem')
  /\ \/ InPlan(mem') = InPlan(mem)
     \/ /\ InPlan(mem) \subseteq InPlan(mem')
        /\ \A i \in InPlan(mem) : mem'[i].status = mem[i].status

(* ... repairs it, ... *)
Repairs ==
  /\ plan' = plan /\ InPlan(mem') = InPlan(mem)
  /\ ValidGraph(mem')

(* ... or splits an item of it. *)
Splits ==
  /\ plan' = plan
  /\ \E i \in InPlan(mem), draft \in Drafts :
       \E r : /\ Replacements(mem, r, Cardinality(DOMAIN draft))
              /\ mem' = Split(mem, i, draft, r)

(* The copy in memory is rewritten in place. *)
LEMMA SameGraphRewrites ==
  ASSUME SameGraph(mem, mem'), plan' \in {plan, mem'}
  PROVE  Rewrites
BY SameGraphWaits DEF Rewrites

(* The loading of a plan, and what goes on before an attempt. *)
LEMMA PrepareRewrites ==
  ASSUME TypeOK, WorkInv, Prepare
  PROVE  Settles \/ Rewrites
<1>1. plan \in Plans /\ mem \in Plans
  BY DEF TypeOK
<1>2. CASE LoadPlan
  <2>1. mem = plan /\ mem' = Cleaned(mem) /\ plan' = mem'
    BY <1>2 DEF LoadPlan, WorkInv, MemoryIsPlan, Ahead
  <2> QED
    BY <1>1, <2>1, CleanedGraph, SameGraphRewrites
<1>3. CASE AbsorbGuidance
  <2>1. plan' = plan /\ (mem' = mem \/ mem' = Revived(mem, InStatus(mem, "failed")))
    BY <1>3 DEF AbsorbGuidance
  <2>2. InStatus(mem, "failed") \in SUBSET InPlan(mem)
    BY DEF InStatus, InPlan
  <2> QED
    BY <1>1, <2>1, <2>2, RevivedGraph, SameGraphRewrites DEF Settles
<1>4. CASE SaveGuidance \/ ResumeReview \/ NoReview \/ AskForDirection
  BY <1>4 DEF SaveGuidance, ResumeReview, NoReview, AskForDirection, Settles, disk
<1>5. CASE RequeueReview
  <2>1. PICK i \in InStatus(mem, "review") : mem' = WithStatus(mem, {i}, "todo") /\ plan' = mem'
    BY <1>5 DEF RequeueReview
  <2>2. {i} \in SUBSET InPlan(mem)
    BY <2>1 DEF InStatus, InPlan
  <2> QED
    BY <1>1, <2>1, <2>2, WithStatusGraph, SameGraphRewrites
<1>6. CASE StartAttempt
  <2>1. PICK i \in Pickable(mem) :
          mem' = [mem EXCEPT ![i].live = TRUE, ![i].status = "in_progress"] /\ plan' = mem'
    BY <1>6 DEF StartAttempt
  <2>2. i \in Items /\ mem[i].status \in {"todo", "failed"} /\ mem[i] \in WorkItem
    BY <1>1 DEF Pickable, Ready, Plans
  <2>3. /\ mem'[i].deps = mem[i].deps /\ mem'[i].status = "in_progress"
        /\ \A j \in Items \ {i} : mem'[j] = mem[j]
    BY <1>1, <2>1, <2>2 DEF Plans, WorkItem
  <2>4. SameGraph(mem, mem')
    BY <2>2, <2>3 DEF SameGraph
  <2> QED
    BY <2>1, <2>4, SameGraphRewrites
<1>7. CASE MarkExhausted
  <2>1. mem' = WithStatus(mem, Exhausted(mem), "failed") /\ plan' = mem'
    BY <1>7 DEF MarkExhausted
  <2>2. Exhausted(mem) \in SUBSET InPlan(mem)
    BY DEF Exhausted
  <2> QED
    BY <1>1, <2>1, <2>2, WithStatusGraph, SameGraphRewrites
<1> QED
  BY <1>2, <1>3, <1>4, <1>5, <1>6, <1>7 DEF Prepare

(* The attempt, and the review of what it delivered. *)
LEMMA WorkRewrites ==
  ASSUME TypeOK, WorkHasItem, WorkInv, Attempt \/ Review
  PROVE  Settles \/ Rewrites
<1>1. mem \in Plans
  BY DEF TypeOK
<1>2. pc \in {"tester", "implementer", "asked", "verify", "reverify", "panel", "integrate"}
        => item \in InPlan(mem) /\ item \in Items /\ mem[item] \in WorkItem
  BY <1>1 DEF WorkHasItem, WorkPcs, WorkInv, ItemAtWork, InPlan, Plans
<1>3. CASE LoopBlocked \/ LoopFailed \/ LoopHitCeiling \/ TurnedDown
  <2>1. PICK status \in {"blocked", "todo", "failed"} : mem' = Failed(mem, item, status)
    BY <1>3 DEF LoopBlocked, LoopFailed, LoopHitCeiling, TurnedDown, LoopReturns
  <2>2. plan' = plan /\ item \in InPlan(mem)
    BY <1>2, <1>3 DEF LoopBlocked, LoopFailed, LoopHitCeiling, TurnedDown, LoopReturns, disk
  <2>3. status # "absent"
    BY <2>1
  <2> QED
    BY <1>1, <2>1, <2>2, <2>3, FailedGraph, SameGraphRewrites
<1>4. CASE TestsDelivered \/ WorkDelivered \/ Verified
  <2>1. item \in InPlan(mem) /\ item \in Items /\ mem[item] \in WorkItem
    BY <1>2, <1>4 DEF TestsDelivered, WorkDelivered, Verified
  <2>2. plan' \in {plan, mem'}
    BY <1>4 DEF TestsDelivered, WorkDelivered, Verified, LoopReturns
  <2>3. /\ mem'[item].deps = mem[item].deps
        /\ mem'[item].status # "absent"
        /\ \A j \in Items \ {item} : mem'[j] = mem[j]
    <3>1. mem[item].status # "absent" /\ mem \in [Items -> WorkItem]
      BY <1>1, <2>1 DEF InPlan, Plans
    <3>2. CASE TestsDelivered
      BY <2>1, <3>1, <3>2 DEF TestsDelivered, LoopReturns, WorkItem
    <3>3. CASE WorkDelivered
      BY <2>1, <3>1, <3>3 DEF WorkDelivered, LoopReturns, WorkItem
    <3>4. CASE Verified
      <4>1. PICK born \in HeadBorn :
              mem' = [mem EXCEPT ![item].good = born, ![item].status = "review"]
        BY <3>4 DEF Verified
      <4> QED
        BY <2>1, <3>1, <4>1 DEF WorkItem
    <3> QED
      BY <1>4, <3>2, <3>3, <3>4
  <2>4. SameGraph(mem, mem')
    BY <2>1, <2>3 DEF SameGraph, InPlan
  <2> QED
    BY <2>2, <2>4, SameGraphRewrites
<1>5. CASE Integrate
  <2>1. mem' = WithStatus(mem, {item}, "done") /\ plan' = mem' /\ {item} \in SUBSET InPlan(mem)
    BY <1>2, <1>5 DEF Integrate
  <2> QED
    BY <1>1, <2>1, WithStatusGraph, SameGraphRewrites
<1>6. CASE \/ AgentAsks \/ SaveBlocked \/ SaveItem \/ SaveCeiling \/ AlreadySatisfied
           \/ Reverified \/ PanelPassed \/ DismissGates
  BY <1>6 DEF AgentAsks, SaveBlocked, SaveItem, SaveCeiling, AlreadySatisfied, Reverified,
              PanelPassed, DismissGates, Return, Settles, disk
<1> QED
  BY <1>3, <1>4, <1>5, <1>6 DEF Attempt, Review

(* Triage. *)
LEMMA TriageRewrites ==
  ASSUME TypeOK, WorkInv, Triage
  PROVE  Settles \/ Rewrites \/ Repairs \/ Splits
<1>1. mem \in Plans
  BY DEF TypeOK
<1>2. ASSUME NEW i \in Items, pc = "report", i \in cands
      PROVE  {i} \in SUBSET InPlan(mem) /\ i \in InPlan(mem)
  BY <1>2 DEF WorkInv, WorkUnderWay, TriagePcs, InPlan
<1>3. ASSUME NEW i \in Items, TriageRetry(i) \/ TriageDrop(i)
      PROVE  Rewrites
  <2>1. PICK q \in {Revived(mem, {i}), WithStatus(mem, {i}, "dropped")} :
          plan' = plan /\ pc = "report" /\ i \in cands /\ mem' = Marked(q, i)
    BY <1>3 DEF TriageRetry, TriageDrop, Act, Entry, disk
  <2>2. SameGraph(mem, q)
    BY <1>1, <1>2, <2>1, RevivedGraph, WithStatusGraph
  <2>3. q \in Plans
    <3>1. "dropped" \in Statuses
      BY DEF Statuses, TerminalStatuses
    <3> QED
      BY <1>1, <2>1, <3>1, RevivedType, WithStatusType
  <2>4. SameGraph(mem, mem')
    BY <2>1, <2>2, <2>3, MarkedGraph
  <2> QED
    BY <2>1, <2>4, SameGraphRewrites
<1>4. ASSUME NEW i \in Items, TriageSplit(i)
      PROVE  Splits
  <2>1. PICK draft \in Drafts : \E r \in [DOMAIN draft -> InStatus(mem, "absent")] :
          /\ \A j, k \in DOMAIN r : j < k => r[j] # r[k]
          /\ Act(i, "split", Split(mem, i, draft, r))
    BY <1>4 DEF TriageSplit
  <2>2. PICK r \in [DOMAIN draft -> InStatus(mem, "absent")] :
          /\ \A j, k \in DOMAIN r : j < k => r[j] # r[k]
          /\ Act(i, "split", Split(mem, i, draft, r))
    BY <2>1
  <2> DEFINE size == Cardinality(DOMAIN draft)
             q    == Split(mem, i, draft, r)
  <2>3. size \in Nat \ {0} /\ DOMAIN draft = 1 .. size /\ Cardinality(1 .. size) = size
    BY BuildPhaseAssumption
  <2>4. Replacements(mem, r, size)
    <3> HIDE DEF size
    <3> QED
      BY <2>2, <2>3 DEF Replacements
  <2>5. plan' = plan /\ mem' = q /\ i \in InPlan(mem)
    <3> HIDE DEF q
    <3>1. Act(i, "split", q)
      BY <2>2 DEF q
    <3> QED
      BY <1>2, <3>1 DEF Act, Entry, disk
  <2> QED
    BY <2>4, <2>5 DEF Splits
<1>5. ASSUME NEW i \in Items, TriageQuestion(i) \/ AskTriage(i)
      PROVE  Settles
  BY <1>5 DEF TriageQuestion, AskTriage, Entry, Settles, disk
<1>6. CASE TriageRewire
  <2>1. PICK f \in Fixes :
          /\ f.item \in InPlan(mem)
          /\ mem' = [mem EXCEPT ![f.item].deps = (f.deps \cap InPlan(mem)) \ {f.item}]
          /\ ValidGraph(mem')
    BY <1>6 DEF TriageRewire
  <2>2. plan' = plan
    BY <1>6 DEF TriageRewire, disk
  <2>3. \A j \in Items : mem'[j].status = mem[j].status
    BY <1>1, <2>1 DEF Plans, WorkItem
  <2>4. InPlan(mem') = InPlan(mem)
    BY <2>3 DEF InPlan
  <2> QED
    BY <2>1, <2>2, <2>4 DEF Repairs
<1>7. CASE TriageReports \/ TriageCloses \/ SaveTriageAsk \/ SaveTriageActed
  BY <1>7 DEF TriageReports, TriageCloses, SaveTriageAsk, SaveTriageActed, Return, Settles, disk
<1>8. CASE TriageQuiet
  <2>1. /\ plan' = plan
        /\ item = NoItem => mem' = mem
        /\ item # NoItem => mem' = WithStatus(mem, {item}, "todo")
    BY <1>8 DEF TriageQuiet, disk
  <2>2. item # NoItem => {item} \in SUBSET InPlan(mem)
    BY <1>8 DEF TriageQuiet, TypeOK, WorkInv, MemoryIsPlan, ItemAtWork, TriagePcs, InPlan
  <2> QED
    BY <1>1, <2>1, <2>2, WithStatusGraph, SameGraphRewrites DEF Settles
<1> QED
  BY <1>3, <1>4, <1>5, <1>6, <1>7, <1>8 DEF Triage

(* The wrap phase and requests. *)
LEMMA WrapRewrites ==
  ASSUME TypeOK, Wrap \/ RequestPhase
  PROVE  Settles \/ Rewrites
<1>1. mem \in Plans
  BY DEF TypeOK
<1>2. CASE QueueBuildFix \/ RequestPlanned
  <2>1. PICK n \in InStatus(mem, "absent"), fix \in BOOLEAN :
          mem' = [mem EXCEPT ![n] = NewItem({}, fix)] /\ plan' = mem'
    BY <1>2 DEF QueueBuildFix, RequestPlanned
  <2>2. /\ NoNewWaits(mem, mem') /\ InPlan(mem) \subseteq InPlan(mem')
        /\ \A i \in InPlan(mem) : mem'[i] = mem[i]
    <3> DEFINE q == [mem EXCEPT ![n] = NewItem({}, fix)]
    <3>1. /\ NoNewWaits(mem, q) /\ InPlan(mem) \subseteq InPlan(q)
          /\ \A i \in InPlan(mem) : q[i] = mem[i]
      BY <1>1, AddedGraph
    <3>2. mem' = q
      BY <2>1
    <3> HIDE DEF q
    <3> QED
      BY <3>1, <3>2
  <2> QED
    BY <2>1, <2>2 DEF Rewrites
<1>3. CASE AbsorbSignoff
  <2>1. /\ plan' = plan
        /\ \/ mem' = Revived(mem, UnconfirmedDrops(mem))
           \/ mem' = [i \in Items |-> IF i \in UnconfirmedDrops(mem)
                                        THEN [mem[i] EXCEPT !.confirmed = TRUE] ELSE mem[i]]
    BY <1>3 DEF AbsorbSignoff
  <2>2. CASE mem' = Revived(mem, UnconfirmedDrops(mem))
    <3>1. UnconfirmedDrops(mem) \in SUBSET InPlan(mem)
      BY DEF UnconfirmedDrops, InPlan
    <3> QED
      BY <1>1, <2>1, <2>2, <3>1, RevivedGraph, SameGraphRewrites
  <2>3. CASE mem' = [i \in Items |-> IF i \in UnconfirmedDrops(mem)
                                       THEN [mem[i] EXCEPT !.confirmed = TRUE] ELSE mem[i]]
    <3>1. SameGraph(mem, mem')
      BY <1>1, <2>3 DEF SameGraph, Plans, WorkItem
    <3> QED
      BY <2>1, <3>1, SameGraphRewrites
  <2> QED
    BY <2>1, <2>2, <2>3
<1>4. CASE \/ BuildPasses \/ FixQueued \/ NoWrapAnswer \/ SaveSignoff \/ SaveRevival
           \/ AskSignoff \/ FinishWrap \/ MarkDone
           \/ RequestRefused \/ Reactivate \/ CloseRequest
  BY <1>4 DEF BuildPasses, FixQueued, NoWrapAnswer, SaveSignoff, SaveRevival, AskSignoff,
              FinishWrap, MarkDone, RequestRefused, Reactivate, CloseRequest, Return, Settles,
              disk
<1> QED
  BY <1>2, <1>3, <1>4 DEF Wrap, RequestPhase

(* Every step. *)
LEMMA StepRewrites ==
  ASSUME TypeOK, WorkHasItem, WorkInv, [Next]_vars
  PROVE  Settles \/ Rewrites \/ Repairs \/ Splits
<1>1. CASE Begin \/ Route \/ Park \/ User \/ Crash \/ UNCHANGED vars
  BY <1>1 DEF Begin, Route, RouteRequest, RouteWrap, RouteBuild, RouteDone, Enter, Park, User,
              QueueRequest, Answer, Crash, Return, Settles, vars, disk, local
<1> QED
  BY <1>1, PrepareRewrites, WorkRewrites, TriageRewrites, WrapRewrites DEF Next, Runner

-----------------------------------------------------------------------------
(* Nothing waits for itself, and the copy in memory lacks no item of the    *)
(* plan on disk.                                                            *)

NoSelf(p) == \A i \in InPlan(p) : i \notin p[i].deps

GraphInv == NoSelf(plan) /\ NoSelf(mem) /\ InPlan(plan) \subseteq InPlan(mem)

(* The replacements of an item wait for what it waited for and for each     *)
(* other, and what waited for it for another item than itself.              *)
LEMMA SplitNoSelf ==
  ASSUME NEW p \in Plans, NoSelf(p), DepsKnown(p),
         NEW i \in InPlan(p), NEW draft, NEW size, NEW r, Replacements(p, r, size)
  PROVE  NoSelf(Split(p, i, draft, r)) /\ InPlan(p) \subseteq InPlan(Split(p, i, draft, r))
<1> DEFINE q == Split(p, i, draft, r)
<1>1. Rewired(p, q, i, draft, r, size)
  BY SplitGraph
<1> HIDE DEF q
<1>2. /\ size \in Nat \ {0}
      /\ \A k \in 1 .. size : r[k] \notin InPlan(p)
      /\ \A j, k \in 1 .. size : r[j] = r[k] => j = k
  BY DEF Replacements, InStatus, InPlan
<1>3. ASSUME NEW k \in 1 .. size
      PROVE  r[k] \notin q[r[k]].deps
  <2>1. q[r[k]].deps = {r[n] : n \in (draft[k] \cap 1 .. size) \ {k}}
                         \cup p[i].deps \cup (IF k = 1 THEN {} ELSE {r[k - 1]})
    BY <1>1 DEF Rewired
  <2>2. r[k] \notin {r[n] : n \in (draft[k] \cap 1 .. size) \ {k}}
    BY <1>2
  <2>3. r[k] \notin p[i].deps
    BY <1>2 DEF DepsKnown
  <2>4. k # 1 => r[k] # r[k - 1]
    <3>1. k # 1 => k - 1 \in 1 .. size /\ k - 1 # k
      BY <1>2
    <3> QED
      BY <1>2, <3>1
  <2> QED
    BY <2>1, <2>2, <2>3, <2>4
<1>4. i \notin q[i].deps
  BY <1>1 DEF Rewired, NoSelf
<1>5. ASSUME NEW j \in InPlan(p) \ {i}
      PROVE  j \notin q[j].deps
  <2>1. j # r[size]
    BY <1>2
  <2>2. q[j].deps = (IF i \in p[j].deps THEN (p[j].deps \ {i}) \cup {r[size]} ELSE p[j].deps)
    BY <1>1 DEF Rewired
  <2> QED
    BY <2>1, <2>2 DEF NoSelf
<1>6. InPlan(q) = InPlan(p) \cup {r[k] : k \in 1 .. size}
  BY <1>1 DEF Rewired
<1>7. NoSelf(q) /\ InPlan(p) \subseteq InPlan(q)
  BY <1>3, <1>4, <1>5, <1>6 DEF NoSelf
<1> QED
  BY <1>7 DEF q

(* Every step keeps this. *)
LEMMA StepGraph ==
  ASSUME TypeOK, WorkHasItem, WorkInv, GraphInv, [Next]_vars
  PROVE  GraphInv'
<1>1. mem \in Plans /\ DepsKnown(mem)
  BY DEF TypeOK, WorkInv, Sound
<1>2. CASE Settles
  BY <1>2 DEF Settles, GraphInv
<1>3. CASE Rewrites
  <2>1. NoSelf(mem')
    BY <1>3 DEF Rewrites, NoNewWaits, GraphInv, NoSelf
  <2> QED
    BY <1>3, <2>1 DEF Rewrites, GraphInv
<1>4. CASE Repairs
  BY <1>4 DEF Repairs, ValidGraph, GraphInv, NoSelf
<1>5. CASE Splits
  <2>1. PICK i \in InPlan(mem), draft \in Drafts :
          \E r : /\ Replacements(mem, r, Cardinality(DOMAIN draft))
                 /\ mem' = Split(mem, i, draft, r)
    BY <1>5 DEF Splits
  <2>2. NoSelf(mem') /\ InPlan(mem) \subseteq InPlan(mem')
    BY <1>1, <2>1, SplitNoSelf DEF GraphInv
  <2> QED
    BY <1>5, <2>2 DEF Splits, GraphInv
<1> QED
  BY <1>2, <1>3, <1>4, <1>5, StepRewrites

(* The first plan is a valid graph (validate_graph in phase_plan). *)
THEOREM GraphCorrect == Spec => []GraphInv
<1>1. Init => GraphInv
  BY InitialPlansAssumption DEF Init, GraphInv, NoSelf, ValidGraph
<1>2. TypeOK /\ WorkHasItem /\ WorkInv /\ GraphInv /\ [Next]_vars => GraphInv'
  BY StepGraph
<1> QED
  BY <1>1, <1>2, WorkCorrect, PTL DEF Spec

(* What waited for an item that triage splits waits, directly or through    *)
(* others, for every part of it, however the parts were drafted             *)
(* (_run_triage rewires onto the last of them).                             *)
THEOREM SplitsKeepOrder == Spec => SplitKeepsOrder
<1> DEFINE Kept ==
             LET new == InPlan(mem') \ InPlan(mem)
             IN  \A i, j \in InPlan(mem) :
                   /\ i \in mem[j].deps
                   /\ mem[i].status # "dropped" /\ mem'[i].status = "dropped"
                   => new \subseteq Before(mem', j)
<1>1. ASSUME TypeOK, WorkHasItem, WorkInv, GraphInv, TypeOK', [Next]_vars
      PROVE  Kept
  <2>1. CASE InPlan(mem') \subseteq InPlan(mem)
    BY <2>1
  <2>2. CASE \A i \in InPlan(mem) : mem'[i].status = mem[i].status
    BY <2>2
  <2>3. CASE Splits
    <3>1. PICK i \in InPlan(mem), draft \in Drafts :
            \E r : /\ Replacements(mem, r, Cardinality(DOMAIN draft))
                   /\ mem' = Split(mem, i, draft, r)
      BY <2>3 DEF Splits
    <3> DEFINE size == Cardinality(DOMAIN draft)
    <3>2. PICK r : Replacements(mem, r, size) /\ mem' = Split(mem, i, draft, r)
      BY <3>1
    <3> HIDE DEF size
    <3>3. mem \in Plans /\ mem' \in Plans
      BY <1>1 DEF TypeOK
    <3>4. Rewired(mem, mem', i, draft, r, size)
      BY <3>2, <3>3, SplitGraph
    <3>5. InPlan(mem') \ InPlan(mem) \subseteq {r[k] : k \in 1 .. size}
      BY <3>4 DEF Rewired
    <3>6. ASSUME NEW k \in InPlan(mem), NEW j \in InPlan(mem), k \in mem[j].deps,
                 mem[k].status # "dropped", mem'[k].status = "dropped"
          PROVE  {r[l] : l \in 1 .. size} \subseteq Before(mem', j)
      <4>1. k = i
        BY <3>4, <3>6 DEF Rewired
      <4>2. j \in InPlan(mem) \ {i}
        BY <1>1, <3>6, <4>1 DEF GraphInv, NoSelf
      <4> QED
        BY <3>2, <3>3, <3>6, <4>1, <4>2, SplitOrder
    <3> QED
      BY <3>5, <3>6
  <2>4. \/ InPlan(mem') \subseteq InPlan(mem)
        \/ \A i \in InPlan(mem) : mem'[i].status = mem[i].status
        \/ Splits
    BY <1>1, StepRewrites DEF Settles, Rewrites, Repairs, GraphInv
  <2> QED
    BY <2>1, <2>2, <2>3, <2>4
<1>2. TypeOK /\ WorkHasItem /\ WorkInv /\ GraphInv /\ TypeOK' /\ [Next]_vars => [Kept]_vars
  BY <1>1
<1> HIDE DEF Kept
<1>3. Spec => [][Kept]_vars
  BY <1>2, WorkCorrect, GraphCorrect, PTL DEF Spec
<1> QED
  BY <1>3 DEF SplitKeepsOrder, Kept

-----------------------------------------------------------------------------
(* No cycles.                                                               *)

(* Both copies of the plan are free of knots.                               *)
KnotInv == NoKnot(plan) /\ NoKnot(mem)

(* Every step keeps them so, but a split with a draft that is out of order. *)
LEMMA StepKnots ==
  ASSUME ~Tangles, TypeOK, WorkHasItem, WorkInv, KnotInv, [Next]_vars
  PROVE  KnotInv'
<1>1. mem \in Plans /\ DepsKnown(mem)
  BY DEF TypeOK, WorkInv, Sound
<1>2. CASE Settles
  BY <1>2 DEF Settles, KnotInv
<1>3. CASE Rewrites
  BY <1>3, NoNewKnot DEF Rewrites, KnotInv
<1>4. CASE Repairs
  BY <1>4, AcyclicNoKnot DEF Repairs, ValidGraph, KnotInv
<1>5. CASE Splits
  <2>1. PICK i \in InPlan(mem), draft \in Drafts :
          \E r : /\ Replacements(mem, r, Cardinality(DOMAIN draft))
                 /\ mem' = Split(mem, i, draft, r)
    BY <1>5 DEF Splits
  <2> DEFINE size == Cardinality(DOMAIN draft)
  <2>2. PICK r : Replacements(mem, r, size) /\ mem' = Split(mem, i, draft, r)
    BY <2>1
  <2>3. \A k \in 1 .. size : draft[k] \cap 1 .. size \subseteq 1 .. k
    <3>1. DOMAIN draft = 1 .. size
      BY BuildPhaseAssumption
    <3>2. r \in [DOMAIN draft -> InStatus(mem, "absent")]
      BY <2>2, <3>1 DEF Replacements
    <3>3. ~OutOfOrder(draft)
      BY <2>2, <3>2 DEF Tangles, InPlan
    <3> HIDE DEF size
    <3>4. size \in Nat
      BY <2>2 DEF Replacements
    <3> QED
      BY <3>1, <3>3, <3>4 DEF OutOfOrder
  <2>4. NoKnot(mem) /\ \A j \in InPlan(mem) : mem[j].deps \subseteq InPlan(mem)
    BY <1>1 DEF KnotInv, DepsKnown
  <2> HIDE DEF size
  <2>5. NoKnot(mem')
    BY <1>1, <2>2, <2>3, <2>4, SplitNoKnot
  <2> QED
    BY <1>5, <2>5 DEF Splits, KnotInv
<1> QED
  BY <1>2, <1>3, <1>4, <1>5, StepRewrites

(* A plan without a cycle gets one only from the split of an item whose     *)
(* parts were drafted to follow later ones; nothing checks a draft, so this *)
(* is as far as validate_graph and _run_triage keep the plan a DAG.         *)
THEOREM CyclesComeFromSplits == Spec => OnlySplitsTangle
<1> DEFINE Kept == HasCycle(plan') \/ HasCycle(mem') => HasCycle(plan) \/ HasCycle(mem) \/ Tangles
<1>1. ASSUME TypeOK, WorkHasItem, WorkInv, [Next]_vars
      PROVE  Kept
  <2> SUFFICES ASSUME ~HasCycle(plan), ~HasCycle(mem), ~Tangles
               PROVE  ~HasCycle(plan') /\ ~HasCycle(mem')
    OBVIOUS
  <2>1. KnotInv
    BY AcyclicNoKnot DEF KnotInv
  <2>2. KnotInv'
    BY <1>1, <2>1, StepKnots
  <2>3. NoKnot(plan') /\ NoKnot(mem')
    BY <2>2 DEF KnotInv, NoKnot, InPlan
  <2> QED
    BY <2>3, NoKnotAcyclic
<1>2. TypeOK /\ WorkHasItem /\ WorkInv /\ [Next]_vars => [Kept]_vars
  BY <1>1
<1> HIDE DEF Kept
<1>3. Spec => [][Kept]_vars
  BY <1>2, WorkCorrect, PTL DEF Spec
<1> QED
  BY <1>3 DEF OnlySplitsTangle, Kept

=============================================================================
