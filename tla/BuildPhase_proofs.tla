------------------------- MODULE BuildPhase_proofs -------------------------
(***************************************************************************)
(* What holds of the build, wrap and request phases for every plan, every  *)
(* number of items, questions, requests and crashes.                       *)
(***************************************************************************)
EXTENDS BuildPhase, WorkPlan_proofs

(* The type of what the program keeps on disk, and of what it holds. *)
DiskOK ==
  /\ plan \in Plans
  /\ gates \in [Slots -> Gate]
  /\ phase \in PhasePcs \cup {"done"}
  /\ state \in {"active", "blocked_on_user", "done"}
  /\ requests \in [queued : Nat, done : Nat]

LocalOK ==
  /\ mem \in Plans
  /\ pc \in Pcs
  /\ item \in Items \cup {NoItem}
  /\ brief \subseteq Slots
  /\ cands \subseteq Items /\ asks \subseteq Items
  /\ acted \in BOOLEAN

(* The two together, and the crash counter, are the type invariant. *)
LEMMA TypeParts == TypeOK <=> DiskOK /\ LocalOK /\ crashes \in Nat
BY DEF TypeOK, DiskOK, LocalOK

(* A visit that returns leaves well-formed memory, and is about no item. *)
LEMMA ReturnType ==
  ASSUME Return, plan' \in Plans
  PROVE  LocalOK' /\ WorkHasItem'
BY DEF Return, LocalOK, Pcs, WorkHasItem, WorkPcs

(* A question asked of the user is well formed, *)
LEMMA AskUserType ==
  ASSUME gates \in [Slots -> Gate], NEW from \in {"supervisor", "agent"},
         NEW ph \in {"build", "wrap"}, NEW i \in Items \cup {NoItem},
         NEW about \in SUBSET Items, AskUser(from, ph, i, about)
  PROVE  gates' \in [Slots -> Gate]
<1>1. NewGate(from, ph, i, about) \in Gate
  BY DEF NewGate, Gate
<1> QED
  BY <1>1 DEF AskUser

(* and freeing questions keeps the rest. *)
LEMMA FreedType ==
  ASSUME gates \in [Slots -> Gate], NEW S
  PROVE  Freed(S) \in [Slots -> Gate]
<1>1. FreeGate \in Gate
  BY DEF FreeGate, Gate
<1> QED
  BY <1>1 DEF Freed

(* Entering a phase and leaving a finished mission alone keep the types. *)
LEMMA RouteType ==
  ASSUME TypeOK, WorkHasItem, Route
  PROVE  TypeOK' /\ WorkHasItem'
<1>1. CASE RouteRequest
  BY <1>1
  DEF RouteRequest, TypeOK, WorkHasItem, WorkPcs, Goto, PhasePcs, Pcs, disk, local, Enter
<1>2. CASE RouteWrap
  BY <1>2
  DEF RouteWrap, TypeOK, WorkHasItem, WorkPcs, Goto, PhasePcs, Pcs, disk, local, Enter
<1>3. CASE RouteBuild
  BY <1>3
  DEF RouteBuild, TypeOK, WorkHasItem, WorkPcs, Goto, PhasePcs, Pcs, disk, local, Enter
<1>4. CASE RouteDone
  BY <1>4, ReturnType, TypeParts
  DEF RouteDone, TypeOK, DiskOK, LocalOK, PhasePcs, disk
<1> QED
  BY <1>1, <1>2, <1>3, <1>4 DEF Route

(* The request phase keeps the types. *)
LEMMA RequestType ==
  ASSUME TypeOK, WorkHasItem, RequestPhase
  PROVE  TypeOK' /\ WorkHasItem'
<1>1. CASE RequestRefused
  BY <1>1
  DEF RequestRefused, TypeOK, WorkHasItem, WorkPcs, Goto, PhasePcs, Pcs, disk, local
<1>2. CASE RequestPlanned
  <2>1. PICK n \in Items : mem' = [mem EXCEPT ![n] = NewItem({}, FALSE)] /\ plan' = mem'
    BY <1>2 DEF RequestPlanned, InStatus
  <2>2. mem' \in Plans
    BY <2>1, NewItemType, ReplacedType DEF TypeOK
  <2> QED
    BY <1>2, <2>1, <2>2 DEF RequestPlanned, TypeOK, WorkHasItem, WorkPcs, Goto, Pcs, PhasePcs
<1>3. CASE Reactivate
  BY <1>3
  DEF Reactivate, TypeOK, WorkHasItem, WorkPcs, Goto, PhasePcs, Pcs, disk, local
<1>4. CASE CloseRequest
  BY <1>4, ReturnType, TypeParts
  DEF CloseRequest, TypeOK, DiskOK, LocalOK, PhasePcs, disk
<1> QED
  BY <1>1, <1>2, <1>3, <1>4 DEF RequestPhase

(* So do the steps before an attempt, *)
LEMMA PrepareType ==
  ASSUME TypeOK, WorkHasItem, Prepare
  PROVE  TypeOK' /\ WorkHasItem'
<1>1. CASE LoadPlan
  BY <1>1, CleanedType
  DEF LoadPlan, TypeOK, WorkHasItem, WorkPcs, Goto, PhasePcs, Pcs, disk, local
<1>2. CASE AbsorbGuidance
  BY <1>2, RevivedType, FreedType
  DEF AbsorbGuidance, TypeOK, WorkHasItem, WorkPcs, Goto, PhasePcs, Pcs, disk, local, Consume
<1>3. CASE SaveGuidance
  BY <1>3
  DEF SaveGuidance, TypeOK, WorkHasItem, WorkPcs, Goto, PhasePcs, Pcs, disk, local
<1>4. CASE ResumeReview
  BY <1>4
  DEF ResumeReview, TypeOK, WorkHasItem, WorkPcs, Goto, PhasePcs, Pcs, disk, local, InStatus
<1>5. CASE RequeueReview
  BY <1>5, WithStatusType
  DEF RequeueReview, TypeOK, WorkHasItem, WorkPcs, Goto, PhasePcs, Pcs, disk, local, Statuses
<1>6. CASE NoReview
  BY <1>6
  DEF NoReview, TypeOK, WorkHasItem, WorkPcs, Goto, PhasePcs, Pcs, disk, local
<1>7. CASE StartAttempt
  BY <1>7
  DEF StartAttempt, TypeOK, WorkHasItem, WorkPcs, Goto, PhasePcs, Pcs, disk, local,
        Pickable, Ready, Answered, Plans, WorkItem, Statuses
<1>8. CASE MarkExhausted
  BY <1>8, WithStatusType
  DEF MarkExhausted, TypeOK, WorkHasItem, WorkPcs, Goto, PhasePcs, Pcs, disk, local,
        Statuses, Exhausted, InPlan
<1>9. CASE AskForDirection
  BY <1>9, AskUserType
  DEF AskForDirection, TypeOK, WorkHasItem, WorkPcs, Goto, PhasePcs, Pcs, disk, local
<1> QED
  BY <1>1, <1>2, <1>3, <1>4, <1>5, <1>6, <1>7, <1>8, <1>9 DEF Prepare

(* the attempt, *)
LEMMA AttemptType ==
  ASSUME TypeOK, WorkHasItem, Attempt
  PROVE  TypeOK' /\ WorkHasItem'
<1>1. CASE AgentAsks
  BY <1>1, AskUserType
  DEF AgentAsks, TypeOK, WorkHasItem, WorkPcs, Goto, PhasePcs, Pcs, disk, local
<1>2. CASE LoopBlocked
  BY <1>2, FailedType, FreedType
  DEF LoopBlocked, TypeOK, WorkHasItem, WorkPcs, Goto, PhasePcs, Pcs, disk, local,
        LoopReturns, Consume, Statuses
<1>3. CASE LoopFailed
  BY <1>3, FailedType, FreedType
  DEF LoopFailed, TypeOK, WorkHasItem, WorkPcs, Goto, PhasePcs, Pcs, disk, local,
        LoopReturns, Consume, Statuses
<1>4. CASE LoopHitCeiling
  BY <1>4, FailedType, FreedType
  DEF LoopHitCeiling, TypeOK, WorkHasItem, WorkPcs, Goto, PhasePcs, Pcs, disk, local,
        LoopReturns, Consume, Statuses
<1>5. CASE TestsDelivered
  <2> DEFINE w == [mem[item] EXCEPT !.status = "todo", !.live = FALSE, !.tested = TRUE]
  <2>1. mem[item] \in WorkItem
    BY <1>5 DEF TestsDelivered, TypeOK, WorkHasItem, WorkPcs, Plans
  <2>2. w \in WorkItem
    BY <2>1 DEF WorkItem, Statuses
  <2>3. mem' = [mem EXCEPT ![item] = w]
    BY <1>5 DEF TestsDelivered, LoopReturns, TypeOK, Plans
  <2> HIDE DEF w
  <2>4. mem' \in Plans
    BY <2>2, <2>3, ReplacedType DEF TypeOK
  <2> QED
    BY <1>5, <2>4, FreedType
    DEF TestsDelivered, LoopReturns, Consume, TypeOK, WorkHasItem, WorkPcs, Goto, Pcs
<1>6. CASE WorkDelivered
  BY <1>6, FreedType
  DEF WorkDelivered, TypeOK, WorkHasItem, WorkPcs, Goto, PhasePcs, Pcs, disk, local,
        LoopReturns, Consume, Plans, WorkItem
<1>7. CASE SaveBlocked
  BY <1>7
  DEF SaveBlocked, TypeOK, WorkHasItem, WorkPcs, Goto, PhasePcs, Pcs, disk, local
<1>8. CASE SaveItem
  BY <1>8, ReturnType, TypeParts
  DEF SaveItem, TypeOK, DiskOK, LocalOK, PhasePcs, disk
<1>9. CASE SaveCeiling
  BY <1>9
  DEF SaveCeiling, TypeOK, WorkHasItem, WorkPcs, Goto, PhasePcs, Pcs, disk, local
<1> QED
  BY <1>1, <1>2, <1>3, <1>4, <1>5, <1>6, <1>7, <1>8, <1>9 DEF Attempt

(* the review, *)
LEMMA ReviewType ==
  ASSUME TypeOK, WorkHasItem, Review
  PROVE  TypeOK' /\ WorkHasItem'
<1>1. CASE TurnedDown
  BY <1>1, FailedType
  DEF TurnedDown, TypeOK, WorkHasItem, WorkPcs, Goto, PhasePcs, Pcs, disk, local, Statuses
<1>2. CASE AlreadySatisfied
  BY <1>2
  DEF AlreadySatisfied, TypeOK, WorkHasItem, WorkPcs, Goto, PhasePcs, Pcs, disk, local
<1>3. CASE Verified
  <2>1. PICK born \in HeadBorn :
          mem' = [mem EXCEPT ![item].good = born, ![item].status = "review"]
    BY <1>3 DEF Verified
  <2> DEFINE w == [mem[item] EXCEPT !.good = born, !.status = "review"]
  <2>2. mem[item] \in WorkItem
    BY <1>3 DEF Verified, TypeOK, WorkHasItem, WorkPcs, Plans
  <2>3. born \in BOOLEAN
    BY <2>1, BuildPhaseAssumption
  <2>4. w \in WorkItem
    BY <2>2, <2>3 DEF WorkItem, Statuses
  <2>5. mem' = [mem EXCEPT ![item] = w]
    BY <2>1 DEF TypeOK, Plans
  <2> HIDE DEF w
  <2>6. mem' \in Plans
    BY <2>4, <2>5, ReplacedType DEF TypeOK
  <2> QED
    BY <1>3, <2>6 DEF Verified, TypeOK, WorkHasItem, WorkPcs, Goto, Pcs
<1>4. CASE Reverified
  BY <1>4
  DEF Reverified, TypeOK, WorkHasItem, WorkPcs, Goto, PhasePcs, Pcs, disk, local
<1>5. CASE PanelPassed
  BY <1>5
  DEF PanelPassed, TypeOK, WorkHasItem, WorkPcs, Goto, PhasePcs, Pcs, disk, local
<1>6. CASE Integrate
  BY <1>6, WithStatusType
  DEF Integrate, TypeOK, WorkHasItem, WorkPcs, Goto, PhasePcs, Pcs, disk, local, Statuses,
        TerminalStatuses
<1>7. CASE DismissGates
  BY <1>7, FreedType, ReturnType, TypeParts
  DEF DismissGates, TypeOK, DiskOK, LocalOK, PhasePcs, disk
<1> QED
  BY <1>1, <1>2, <1>3, <1>4, <1>5, <1>6, <1>7 DEF Review

(* and the wrap phase. *)
LEMMA WrapType ==
  ASSUME TypeOK, WorkHasItem, Wrap
  PROVE  TypeOK' /\ WorkHasItem'
<1>1. CASE BuildPasses
  BY <1>1
  DEF BuildPasses, TypeOK, WorkHasItem, WorkPcs, Goto, PhasePcs, Pcs, disk, local
<1>2. CASE QueueBuildFix
  <2>1. PICK n \in Items : mem' = [mem EXCEPT ![n] = NewItem({}, TRUE)]
    BY <1>2 DEF QueueBuildFix, InStatus
  <2>2. mem' \in Plans
    BY <2>1, NewItemType, ReplacedType DEF TypeOK
  <2> QED
    BY <1>2, <2>2 DEF QueueBuildFix, TypeOK, WorkHasItem, WorkPcs, Goto, Pcs, PhasePcs
<1>3. CASE FixQueued
  BY <1>3, ReturnType, TypeParts
  DEF FixQueued, TypeOK, DiskOK, LocalOK, PhasePcs, disk
<1>4. CASE NoWrapAnswer
  BY <1>4
  DEF NoWrapAnswer, TypeOK, WorkHasItem, WorkPcs, Goto, PhasePcs, Pcs, disk, local
<1>5. CASE AbsorbSignoff
  <2> DEFINE confirmed == [i \in Items |-> IF i \in UnconfirmedDrops(mem)
                                           THEN [mem[i] EXCEPT !.confirmed = TRUE]
                                           ELSE mem[i]]
  <2>1. confirmed \in Plans
    <3>1. ASSUME NEW i \in Items
          PROVE  mem[i] \in WorkItem /\ [mem[i] EXCEPT !.confirmed = TRUE] \in WorkItem
      <4>1. mem[i] \in WorkItem
        BY DEF TypeOK, Plans
      <4> QED
        BY <4>1 DEF WorkItem
    <3> QED
      BY <3>1 DEF Plans
  <2> HIDE DEF confirmed
  <2>2. \/ mem' = confirmed /\ Goto("saveSignoff")
        \/ mem' = Revived(mem, UnconfirmedDrops(mem)) /\ Goto("saveRevival")
    BY <1>5 DEF AbsorbSignoff, confirmed
  <2>3. mem' \in Plans /\ pc' \in {"saveSignoff", "saveRevival"}
    BY <2>1, <2>2, RevivedType DEF TypeOK, Goto
  <2> QED
    BY <1>5, <2>3, FreedType
    DEF AbsorbSignoff, Consume, TypeOK, WorkHasItem, WorkPcs, Pcs
<1>6. CASE SaveSignoff
  BY <1>6
  DEF SaveSignoff, TypeOK, WorkHasItem, WorkPcs, Goto, PhasePcs, Pcs, disk, local
<1>7. CASE SaveRevival
  BY <1>7, ReturnType, TypeParts
  DEF SaveRevival, TypeOK, DiskOK, LocalOK, PhasePcs, disk
<1>8. CASE AskSignoff
  BY <1>8, AskUserType
  DEF AskSignoff, TypeOK, WorkHasItem, WorkPcs, Goto, PhasePcs, Pcs, disk, local,
        UnconfirmedDrops
<1>9. CASE FinishWrap
  BY <1>9
  DEF FinishWrap, TypeOK, WorkHasItem, WorkPcs, Goto, PhasePcs, Pcs, disk, local
<1>10. CASE MarkDone
  BY <1>10, ReturnType, TypeParts
  DEF MarkDone, TypeOK, DiskOK, LocalOK, PhasePcs, disk
<1> QED
  BY <1>1, <1>2, <1>3, <1>4, <1>5, <1>6, <1>7, <1>8, <1>9, <1>10 DEF Wrap

(* So does triage, *)
LEMMA TriageType ==
  ASSUME TypeOK, WorkHasItem, Triage
  PROVE  TypeOK' /\ WorkHasItem'
<1>1. CASE TriageReports
  BY <1>1
  DEF TriageReports, TypeOK, WorkHasItem, WorkPcs, Goto, PhasePcs, Pcs, disk, local
<1>2. CASE TriageRewire
  <2>1. PICK f \in Fixes :
          /\ f.item \in InPlan(mem)
          /\ mem' = [mem EXCEPT ![f.item].deps = (f.deps \cap InPlan(mem)) \ {f.item}]
    BY <1>2 DEF TriageRewire
  <2> DEFINE new == (f.deps \cap InPlan(mem)) \ {f.item}
  <2>2. f.item \in Items /\ new \in SUBSET Items
    BY <2>1 DEF InPlan
  <2>3. mem[f.item] \in WorkItem
    BY <2>2 DEF TypeOK, Plans
  <2>4. [mem[f.item] EXCEPT !.deps = new] \in WorkItem
    BY <2>2, <2>3, RewiredType
  <2>5. mem' \in Plans
    BY <2>1, <2>4, ReplacedType DEF TypeOK
  <2> QED
    BY <1>2, <2>5 DEF TriageRewire, TypeOK, WorkHasItem, WorkPcs, Goto, Pcs, disk
<1>3. CASE TriageCloses
  BY <1>3
  DEF TriageCloses, TypeOK, WorkHasItem, WorkPcs, Goto, PhasePcs, Pcs, disk, local
<1>4. CASE SaveTriageAsk
  BY <1>4
  DEF SaveTriageAsk, TypeOK, WorkHasItem, WorkPcs, Goto, PhasePcs, Pcs, disk, local
<1>5. CASE SaveTriageActed
  BY <1>5, ReturnType, TypeParts
  DEF SaveTriageActed, TypeOK, DiskOK, LocalOK, PhasePcs, disk
<1>6. CASE TriageQuiet
  BY <1>6, WithStatusType
  DEF TriageQuiet, TypeOK, WorkHasItem, WorkPcs, Goto, PhasePcs, Pcs, disk, local, Statuses
<1>7. ASSUME NEW i \in Items,
             TriageRetry(i) \/ TriageDrop(i) \/ TriageSplit(i) \/ TriageQuestion(i)
               \/ AskTriage(i)
      PROVE  TypeOK' /\ WorkHasItem'
  <2>1. ASSUME NEW verdict, NEW p \in Plans, Act(i, verdict, p)
        PROVE  TypeOK' /\ WorkHasItem'
    BY <2>1 DEF Act, Entry, TypeOK, WorkHasItem, WorkPcs, disk
  <2>2. CASE TriageRetry(i)
    BY <2>1, <2>2, RevivedType, MarkedType DEF TriageRetry, TypeOK
  <2>3. CASE TriageDrop(i)
    BY <2>1, <2>3, WithStatusType, MarkedType
    DEF TriageDrop, TypeOK, Statuses, TerminalStatuses
  <2>4. CASE TriageSplit(i)
    <3>0. PICK draft \in Drafts : \E r \in [DOMAIN draft -> InStatus(mem, "absent")] :
            Act(i, "split", Split(mem, i, draft, r))
      BY <2>4 DEF TriageSplit
    <3>1. PICK r \in [DOMAIN draft -> InStatus(mem, "absent")] :
            Act(i, "split", Split(mem, i, draft, r))
      BY <3>0
    <3> DEFINE size == Cardinality(DOMAIN draft)
    <3>2. size \in Nat \ {0} /\ DOMAIN draft = 1 .. size
      BY <3>1, BuildPhaseAssumption
    <3>3. r \in [1 .. size -> Items] /\ Cardinality(DOMAIN r) = size
      BY <3>1, <3>2 DEF InStatus
    <3> HIDE DEF size
    <3>4. Split(mem, i, draft, r) \in Plans
      BY <3>2, <3>3, SplitType DEF TypeOK
    <3> QED
      BY <2>1, <3>1, <3>4
  <2>5. CASE TriageQuestion(i)
    BY <2>5 DEF TriageQuestion, Entry, TypeOK, WorkHasItem, WorkPcs, disk
  <2>6. CASE AskTriage(i)
    BY <2>6, AskUserType DEF AskTriage, TypeOK, WorkHasItem, WorkPcs, Goto, Pcs
  <2> QED
    BY <1>7, <2>2, <2>3, <2>4, <2>5, <2>6
<1> QED
  BY <1>1, <1>2, <1>3, <1>4, <1>5, <1>6, <1>7 DEF Triage

(* Every variable has its type throughout, and a visit that is past the     *)
(* choice of an item has one.                                               *)
THEOREM TypeCorrect == Spec => [](TypeOK /\ WorkHasItem)
<1>1. Init => TypeOK /\ WorkHasItem
  <2> SUFFICES ASSUME Init
               PROVE  TypeOK /\ WorkHasItem
    OBVIOUS
  <2>1. FreeGate \in Gate
    BY DEF FreeGate, Gate
  <2>2. gates \in [Slots -> Gate]
    BY <2>1 DEF Init
  <2>3. plan \in Plans /\ mem \in Plans
    BY BuildPhaseAssumption DEF Init
  <2>4. requests \in [queued : Nat, done : Nat]
    BY DEF Init
  <2> QED
    BY <2>2, <2>3, <2>4 DEF Init, TypeOK, WorkHasItem, WorkPcs, Pcs, PhasePcs
<1>2. TypeOK /\ WorkHasItem /\ [Next]_vars => TypeOK' /\ WorkHasItem'
  <2> SUFFICES ASSUME TypeOK, WorkHasItem, [Next]_vars
               PROVE  TypeOK' /\ WorkHasItem'
    OBVIOUS
  <2>1. CASE Begin
    BY <2>1 DEF Begin, TypeOK, WorkHasItem, WorkPcs, Goto, Pcs
  <2>2. CASE Route
    BY <2>2, RouteType
  <2>3. CASE Park
    BY <2>3, ReturnType, TypeParts DEF Park, TypeOK, DiskOK, LocalOK
  <2>4. CASE RequestPhase
    BY <2>4, RequestType
  <2>5. CASE Prepare
    BY <2>5, PrepareType
  <2>6. CASE Attempt
    BY <2>6, AttemptType
  <2>7. CASE Review
    BY <2>7, ReviewType
  <2>8. CASE Triage
    BY <2>8, TriageType
  <2>9. CASE Wrap
    BY <2>9, WrapType
  <2>10. CASE QueueRequest
    BY <2>10 DEF QueueRequest, TypeOK, WorkHasItem, local
  <2>11. ASSUME NEW s \in Slots, Answer(s)
         PROVE  TypeOK' /\ WorkHasItem'
    <3>1. PICK yes \in BOOLEAN :
            gates' = [gates EXCEPT ![s].status = "answered", ![s].yes = yes]
      BY <2>11 DEF Answer
    <3> DEFINE g == [gates[s] EXCEPT !.status = "answered", !.yes = yes]
    <3>2. g \in Gate
      BY DEF TypeOK, Gate
    <3>3. gates' = [gates EXCEPT ![s] = g]
      BY <3>1 DEF TypeOK
    <3> HIDE DEF g
    <3> QED
      BY <2>11, <3>2, <3>3 DEF Answer, TypeOK, WorkHasItem, local
  <2>12. CASE Crash
    BY <2>12, ReturnType, TypeParts DEF Crash, TypeOK, DiskOK, LocalOK, disk
  <2>13. CASE UNCHANGED vars
    BY <2>13 DEF vars, disk, local, TypeOK, WorkHasItem
  <2> QED
    BY <2>1, <2>2, <2>3, <2>4, <2>5, <2>6, <2>7, <2>8, <2>9, <2>10, <2>11, <2>12, <2>13
    DEF Next, Runner, User
<1> QED
  BY <1>1, <1>2, PTL DEF Spec

-----------------------------------------------------------------------------
(* The questions part of the inductive invariant. *)
QuestionInv == BriefIsKept /\ QuestionWaits /\ ParkedHasQuestion

(* Asking opens a question that waits, and leaves every answer as it was. *)
LEMMA AskUserOpens ==
  ASSUME gates \in [Slots -> Gate], NEW from, NEW ph, NEW i, NEW about,
         AskUser(from, ph, i, about)
  PROVE  /\ Answered' = Answered
         /\ Open' \ Open # {}
         /\ Open' \cap Answered = {}
<1>1. PICK s \in Slots :
        NextSlot(s) /\ gates' = [gates EXCEPT ![s] = NewGate(from, ph, i, about)]
  BY DEF AskUser
<1>2. gates[s].status = "free"
  BY <1>1 DEF NextSlot
<1>3. gates'[s].status = "open" /\ \A t \in Slots \ {s} : gates'[t] = gates[t]
  BY <1>1 DEF NewGate
<1>4. Answered' = Answered
  BY <1>2, <1>3 DEF Answered
<1>5. s \in Open' /\ s \notin Open
  BY <1>2, <1>3 DEF Open
<1>6. Open' \cap Answered = {}
  BY <1>2, <1>3 DEF Open, Answered
<1> QED
  BY <1>4, <1>5, <1>6

(* A step inside a visit that neither asks nor parks, and that leaves the   *)
(* brief of an agent at work to its return, disturbs no question: whatever  *)
(* it does to the questions themselves, nothing is parked on them yet.      *)
LEMMA CalmStep ==
  ASSUME QuestionInv,
         pc # "idle", pc' \notin {"asked", "saveBlocked", "park"},
         \/ brief' = {}
         \/ pc \notin {"tester", "implementer", "asked"} /\ brief' = brief,
         state' \in {state, "active", "done"}
  PROVE  QuestionInv'
<1>1. state' # "blocked_on_user"
  BY DEF QuestionInv, QuestionWaits
<1>2. brief' = {}
  BY DEF QuestionInv, BriefIsKept
<1> QED
  BY <1>1, <1>2 DEF QuestionInv, BriefIsKept, QuestionWaits, ParkedHasQuestion

(* Routing, the request phase and the returns of a visit are such steps. *)
LEMMA RouteAsksNothing ==
  ASSUME QuestionInv, Route
  PROVE  QuestionInv'
<1>1. ASSUME NEW ph \in PhasePcs, Enter(ph)
      PROVE  QuestionInv'
  BY <1>1, CalmStep DEF Enter, Goto, PhasePcs
<1>2. CASE RouteDone
  BY <1>2, CalmStep DEF RouteDone, Return, disk
<1> QED
  BY <1>1, <1>2 DEF Route, RouteRequest, RouteWrap, RouteBuild, PhasePcs

(* A visit to the request phase never parks and never writes a brief.      *)
LEMMA RequestAsksNothing ==
  ASSUME QuestionInv, RequestPhase
  PROVE  QuestionInv'
BY CalmStep
DEF RequestPhase, RequestRefused, RequestPlanned, Reactivate, CloseRequest, Goto, Return, disk

(* Of the steps before an attempt, one puts the answers into the brief and  *)
(* one asks for direction.                                                  *)
LEMMA PrepareQuestions ==
  ASSUME TypeOK, QuestionInv, Prepare
  PROVE  QuestionInv'
<1>1. CASE StartAttempt
  <2>1. brief' = Answered /\ Answered' = Answered
    BY <1>1 DEF StartAttempt, Answered
  <2>2. pc' \in {"tester", "implementer"} /\ state' = state /\ pc # "idle"
    BY <1>1 DEF StartAttempt, Goto
  <2>3. state' # "blocked_on_user"
    BY <2>2 DEF QuestionInv, QuestionWaits
  <2> QED
    BY <2>1, <2>2, <2>3 DEF QuestionInv, BriefIsKept, QuestionWaits, ParkedHasQuestion
<1>2. CASE AskForDirection
  <2>1. Open' # {}
    <3>1. CASE Open = {}
      BY <1>2, <3>1, AskUserOpens DEF AskForDirection, TypeOK
    <3>2. CASE Open # {}
      BY <1>2, <3>2 DEF AskForDirection, Open
    <3> QED
      BY <3>1, <3>2
  <2>2. brief' = {} /\ pc' = "park" /\ state' # "blocked_on_user"
    BY <1>2 DEF AskForDirection, Goto, QuestionInv, BriefIsKept, QuestionWaits
  <2> QED
    BY <2>1, <2>2
    DEF QuestionInv, BriefIsKept, QuestionWaits, ParkedHasQuestion, Waiting
<1>3. CASE LoadPlan \/ SaveGuidance \/ ResumeReview \/ RequeueReview \/ NoReview
  BY <1>3, CalmStep
  DEF LoadPlan, SaveGuidance, ResumeReview, RequeueReview, NoReview, Goto, Return,
      disk
<1>4. CASE AbsorbGuidance \/ MarkExhausted
  BY <1>4, CalmStep DEF AbsorbGuidance, MarkExhausted, Goto
<1> QED
  BY <1>1, <1>2, <1>3, <1>4 DEF Prepare

(* An agent's question is not one its brief answered, so freeing the brief  *)
(* leaves it for the project to park on.                                    *)
LEMMA AttemptQuestions ==
  ASSUME TypeOK, QuestionInv, Attempt
  PROVE  QuestionInv'
<1>1. CASE AgentAsks
  <2>1. /\ Answered' = Answered
        /\ Open' \ Open # {}
        /\ Open' \cap Answered = {}
    BY <1>1, AskUserOpens DEF AgentAsks, TypeOK
  <2>2. brief' = brief /\ brief \subseteq Answered
    BY <1>1 DEF AgentAsks, QuestionInv, BriefIsKept
  <2>3. Waiting' \ brief' # {}
    BY <2>1, <2>2 DEF Waiting
  <2>4. pc' = "asked" /\ state' # "blocked_on_user"
    BY <1>1 DEF AgentAsks, Goto, QuestionInv, QuestionWaits
  <2> QED
    BY <2>1, <2>2, <2>3, <2>4
    DEF QuestionInv, BriefIsKept, QuestionWaits, ParkedHasQuestion
<1>2. CASE LoopBlocked
  <2>1. gates' = Freed(brief) /\ brief' = {} /\ pc' = "saveBlocked" /\ state' = state
    BY <1>2 DEF LoopBlocked, LoopReturns, Consume, Goto
  <2>2. Waiting \ brief # {} /\ state # "blocked_on_user"
    BY <1>2 DEF LoopBlocked, QuestionInv, QuestionWaits
  <2>3. Waiting \ brief \subseteq Waiting'
    BY <2>1 DEF Freed, Waiting, Open, Answered
  <2> QED
    BY <2>1, <2>2, <2>3 DEF QuestionInv, BriefIsKept, QuestionWaits, ParkedHasQuestion
<1>3. CASE SaveBlocked
  <2>1. Waiting # {} /\ Waiting' = Waiting
    BY <1>3 DEF SaveBlocked, QuestionInv, QuestionWaits, Waiting, Open, Answered
  <2>2. brief' = {} /\ pc' = "park" /\ state' # "blocked_on_user"
    BY <1>3 DEF SaveBlocked, Goto, QuestionInv, BriefIsKept, QuestionWaits
  <2> QED
    BY <2>1, <2>2 DEF QuestionInv, BriefIsKept, QuestionWaits, ParkedHasQuestion
<1>4. CASE LoopFailed \/ LoopHitCeiling \/ TestsDelivered \/ WorkDelivered
  BY <1>4, CalmStep
  DEF LoopFailed, LoopHitCeiling, TestsDelivered, WorkDelivered, LoopReturns, Goto
<1>5. CASE SaveItem \/ SaveCeiling
  BY <1>5, CalmStep DEF SaveItem, SaveCeiling, Goto, Return
<1> QED
  BY <1>1, <1>2, <1>3, <1>4, <1>5 DEF Attempt

(* Reviewing ends on the item and on its open questions, and asks nothing.  *)
LEMMA ReviewAsksNothing ==
  ASSUME QuestionInv, Review
  PROVE  QuestionInv'
BY CalmStep
DEF Review, TurnedDown, AlreadySatisfied, Verified, Reverified, PanelPassed, Integrate,
    DismissGates, Goto, Return, disk

(* A visit that parks on triage's questions, or on a sign-off, has opened   *)
(* one or found one open.                                                   *)
LEMMA TriageQuestions ==
  ASSUME TypeOK, QuestionInv, Triage
  PROVE  QuestionInv'
<1>1. ASSUME NEW i \in Items, AskTriage(i)
      PROVE  QuestionInv'
  <2>1. Waiting' # {}
    BY <1>1, AskUserOpens DEF AskTriage, TypeOK, Waiting
  <2>2. brief' = {} /\ pc' \in {"park", "triageAsk"} /\ state' # "blocked_on_user"
    BY <1>1 DEF AskTriage, Goto, QuestionInv, BriefIsKept, QuestionWaits
  <2> QED
    BY <2>1, <2>2 DEF QuestionInv, BriefIsKept, QuestionWaits, ParkedHasQuestion
<1>2. ASSUME NEW i \in Items,
             TriageRetry(i) \/ TriageDrop(i) \/ TriageSplit(i) \/ TriageQuestion(i)
      PROVE  QuestionInv'
  <2>1. \E verdict : Entry(i, verdict)
    BY <1>2 DEF TriageRetry, TriageDrop, TriageSplit, TriageQuestion, Act
  <2> QED
    BY <2>1, CalmStep DEF Entry, disk
<1>3. CASE \/ TriageReports \/ TriageRewire \/ TriageCloses
           \/ SaveTriageAsk \/ SaveTriageActed \/ TriageQuiet
  BY <1>3, CalmStep
  DEF TriageReports, TriageRewire, TriageCloses, SaveTriageAsk, SaveTriageActed,
      TriageQuiet, Goto, Return, disk
<1> QED
  BY <1>1, <1>2, <1>3 DEF Triage

(* The wrap phase parks only behind a sign-off it opened or found open.     *)
LEMMA WrapQuestions ==
  ASSUME TypeOK, QuestionInv, Wrap
  PROVE  QuestionInv'
<1>1. CASE AskSignoff
  <2>1. Waiting' # {}
    <3>1. CASE OpenSignoff = {}
      BY <1>1, <3>1, AskUserOpens DEF AskSignoff, TypeOK, Waiting
    <3>2. CASE OpenSignoff # {}
      BY <1>1, <3>2 DEF AskSignoff, OpenSignoff, Open, Waiting
    <3> QED
      BY <3>1, <3>2
  <2>2. brief' = {} /\ pc' = "park" /\ state' # "blocked_on_user"
    BY <1>1 DEF AskSignoff, Goto, QuestionInv, BriefIsKept, QuestionWaits
  <2> QED
    BY <2>1, <2>2 DEF QuestionInv, BriefIsKept, QuestionWaits, ParkedHasQuestion
<1>2. CASE \/ BuildPasses \/ QueueBuildFix \/ FixQueued \/ NoWrapAnswer \/ SaveSignoff
           \/ SaveRevival \/ FinishWrap \/ MarkDone
  BY <1>2, CalmStep
  DEF BuildPasses, QueueBuildFix, FixQueued, NoWrapAnswer, SaveSignoff, SaveRevival,
      FinishWrap, MarkDone, Goto, Return, disk
<1>3. CASE AbsorbSignoff
  <2>1. pc' \in {"saveSignoff", "saveRevival"}
    BY <1>3 DEF AbsorbSignoff, Goto
  <2> QED
    BY <1>3, <2>1, CalmStep DEF AbsorbSignoff
<1> QED
  BY <1>1, <1>2, <1>3 DEF Wrap

(* A project never sits parked without a question, for any plan, number of  *)
(* questions, requests and crashes: the invariant a run of the scheduler    *)
(* starts from is kept by every step of the runner, the user and a crash.   *)
THEOREM QuestionsCorrect == Spec => []IInv
<1>1. Init => QuestionInv
  BY DEF Init, QuestionInv, BriefIsKept, QuestionWaits, ParkedHasQuestion
<1>2. TypeOK /\ WorkHasItem /\ QuestionInv /\ [Next]_vars => QuestionInv'
  <2> SUFFICES ASSUME TypeOK, WorkHasItem, QuestionInv, [Next]_vars
               PROVE  QuestionInv'
    OBVIOUS
  <2>1. CASE Begin
    <3>1. brief' = {} /\ pc' = "route" /\ state' = "active"
      BY <2>1 DEF Begin, Goto, QuestionInv, BriefIsKept
    <3> QED
      BY <3>1 DEF QuestionInv, BriefIsKept, QuestionWaits, ParkedHasQuestion
  <2>2. CASE Park
    <3>1. Waiting # {} /\ Waiting' = Waiting
      BY <2>2 DEF Park, QuestionInv, QuestionWaits, Waiting, Open, Answered
    <3>2. brief' = {} /\ pc' = "idle"
      BY <2>2 DEF Park, Return
    <3> QED
      BY <3>1, <3>2 DEF QuestionInv, BriefIsKept, QuestionWaits, ParkedHasQuestion
  <2>3. CASE Route \/ RequestPhase \/ Review
    BY <2>3, RouteAsksNothing, RequestAsksNothing, ReviewAsksNothing
  <2>4. CASE Prepare \/ Attempt \/ Triage \/ Wrap
    BY <2>4, PrepareQuestions, AttemptQuestions, TriageQuestions, WrapQuestions
  <2>5. ASSUME NEW s \in Slots, Answer(s)
        PROVE  QuestionInv'
    <3>1. PICK yes \in BOOLEAN :
            gates' = [gates EXCEPT ![s].status = "answered", ![s].yes = yes]
      BY <2>5 DEF Answer
    <3>2. gates'[s].status = "answered" /\ \A t \in Slots \ {s} : gates'[t] = gates[t]
      BY <3>1 DEF TypeOK, Gate
    <3>3. Answered \subseteq Answered' /\ Waiting' = Waiting
      BY <2>5, <3>2 DEF Answer, Answered, Open, Waiting
    <3>4. brief' = brief /\ pc' = pc /\ state' = state
      BY <2>5 DEF Answer, local
    <3> QED
      BY <3>3, <3>4 DEF QuestionInv, BriefIsKept, QuestionWaits, ParkedHasQuestion
  <2>6. CASE QueueRequest
    <3>1. Answered' = Answered /\ Waiting' = Waiting
      BY <2>6 DEF QueueRequest, Answered, Open, Waiting
    <3>2. brief' = brief /\ pc' = pc /\ state' = "active"
      BY <2>6 DEF QueueRequest, local
    <3> QED
      BY <3>1, <3>2 DEF QuestionInv, BriefIsKept, QuestionWaits, ParkedHasQuestion
  <2>7. CASE Crash
    BY <2>7, CalmStep DEF Crash, Return, disk
  <2>8. CASE UNCHANGED vars
    BY <2>8 DEF vars, disk, local, QuestionInv, BriefIsKept, QuestionWaits,
                ParkedHasQuestion, Waiting, Open, Answered
  <2> QED
    BY <2>1, <2>2, <2>3, <2>4, <2>5, <2>6, <2>7, <2>8 DEF Next, Runner, User
<1>3. TypeOK /\ WorkHasItem /\ QuestionInv => IInv
  BY DEF IInv, QuestionInv
<1> QED
  BY <1>1, <1>2, <1>3, TypeCorrect, PTL DEF Spec

(* In particular: parked means a question is open, or answered and not yet  *)
(* consumed.                                                                *)
THEOREM ParkedCorrect == Spec => []ParkedHasQuestion
<1>1. IInv => ParkedHasQuestion
  BY DEF IInv
<1> QED
  BY <1>1, QuestionsCorrect, PTL

=============================================================================
