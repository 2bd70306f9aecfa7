----------------------------- MODULE BuildPhase -----------------------------
(***************************************************************************)
(* The working life of one project, from the saved plan to the wrapped     *)
(* mission: the build, wrap and request phases of                          *)
(* src/engorc/orchestrator/phases.py, entered as graph.py and scheduler.py *)
(* enter them, with the user answering questions and queueing requests,    *)
(* and with the orc process killed between any two durable writes.         *)
(*                                                                         *)
(* One action is what happens between two points where the rest of the     *)
(* world may intervene: a durable write, or the return of a model, a tool  *)
(* loop or a verification run.  What a visit holds in memory is lost when  *)
(* the process dies; the next visit starts again from the disk.            *)
(***************************************************************************)
EXTENDS WorkPlan

CONSTANTS
  NoItem,         \* the absence of a work item
  InitialPlans,   \* the plans the plan phase may have saved
  TestFirst,      \* the items planned with test_first
  TriageVerdicts, \* the actions a triage report may ask for
  Drafts,         \* the split_items drafts a triage report may hold
  Fixes,          \* the dependency_fixes a triage report may hold
  Askers,         \* bound: the items whose agents may ask the user
  HeadBorn,       \* whether git rev-parse HEAD answers when an attempt starts
  MaxGates,       \* bound: questions that are open or whose answer is unconsumed
  MaxRequests,    \* bound: change requests ever queued
  MaxCrashes      \* bound: times the process is killed

ASSUME BuildPhaseAssumption ==
  /\ NoItem \notin Items
  /\ InitialPlans \subseteq Plans
  /\ TestFirst \subseteq Items
  /\ TriageVerdicts \subseteq {"retry", "drop", "split", "ask_user"}
  /\ \A d \in Drafts : /\ Cardinality(DOMAIN d) \in Nat \ {0}
                        /\ DOMAIN d = 1 .. Cardinality(DOMAIN d)
  /\ Fixes \subseteq [item : Items, deps : SUBSET Items]
  /\ Askers \subseteq Items /\ HeadBorn \subseteq BOOLEAN
  /\ MaxGates \in Nat /\ MaxRequests \in Nat /\ MaxCrashes \in Nat

(* phase_plan saves items as they are created (_draft_to_plan), and only    *)
(* when validate_graph finds no fault.                                      *)
ASSUME InitialPlansAssumption ==
  \A p \in InitialPlans :
    /\ \A i \in Items : p[i] \in {NewItem(p[i].deps, p[i].fix), Absent}
    /\ ValidGraph(p)

VARIABLES
  (* on disk *)
  plan,      \* plan.yaml
  gates,     \* gates.jsonl folded, less the marks of consumed_gates.json
  phase,     \* project.json: phase
  state,     \* project.json: state
  requests,  \* requests.jsonl: how many were queued, how many are done
  (* in the memory of the orc process *)
  pc,        \* where the visit stands; "idle" between visits
  mem,       \* the plan object of the visit
  item,      \* the work item the visit is about
  brief,     \* the answers that were put into the agent's brief
  cands,     \* the items under triage that the report has not dealt with
  asks,      \* the triaged items whose question is still to be opened
  acted,     \* whether triage changed the plan
  (* counted, never read by the program *)
  crashes    \* how often the process was killed

disk  == <<plan, gates, phase, state, requests>>
local == <<pc, mem, item, brief, cands, asks, acted>>
vars  == <<disk, local, crashes>>

-----------------------------------------------------------------------------
(* Questions to the user *)

Slots == 1 .. MaxGates

Gate ==
  [ status : {"free", "open", "answered"},  \* free: none, dismissed or consumed
    from   : {"none", "supervisor", "agent"},
    phase  : {"none", "build", "wrap"},
    item   : Items \cup {NoItem},
    about  : SUBSET Items,                  \* the items a sign-off question lists
    yes    : BOOLEAN ]                      \* the answer is affirmative

FreeGate ==
  [ status |-> "free", from |-> "none", phase |-> "none", item |-> NoItem,
    about |-> {}, yes |-> FALSE ]

(* A slip: the phase of the question is left out. *)
NewGateNoPhase(from, ph, i, about) ==
  [ status |-> "open", from |-> from, phase |-> "", item |-> i, about |-> about,
    yes |-> FALSE ]

NewGate(from, ph, i, about) ==
  [ status |-> "open", from |-> from, phase |-> ph, item |-> i, about |-> about,
    yes |-> FALSE ]

Open     == {s \in Slots : gates[s].status = "open"}
Answered == {s \in Slots : gates[s].status = "answered"}
Waiting  == Open \cup Answered

Guidance    == {s \in Answered : gates[s].from = "supervisor" /\ gates[s].phase # "wrap"}
WrapAnswers == {s \in Answered : gates[s].from = "supervisor" /\ gates[s].phase = "wrap"}
OpenSignoff == {s \in Open : gates[s].from = "supervisor" /\ gates[s].phase = "wrap"}

(* The least free slot takes the next question. *)
NextSlot(s) ==
  /\ gates[s].status = "free"
  /\ \A t \in Slots : t < s => gates[t].status # "free"

AskUser(from, ph, i, about) ==
  \E s \in Slots :
    /\ NextSlot(s)
    /\ gates' = [gates EXCEPT ![s] = NewGate(from, ph, i, about)]

(* Dismissed questions and consumed answers are never looked at again. *)
Freed(S) == [s \in Slots |-> IF s \in S THEN FreeGate ELSE gates[s]]

Consume(S) == gates' = Freed(S)

-----------------------------------------------------------------------------
(* Visits *)

PhasePcs == {"request", "build", "wrap"}

Pcs ==
  {"idle", "route", "reactivate", "closeRequest", "guidance", "saveGuidance", "select",
   "pick", "tester", "implementer", "asked", "saveBlocked", "saveItem", "saveCeiling",
   "verify", "reverify", "panel", "integrate", "dismiss", "triage", "report",
   "saveTriage", "triageAsk", "ask", "park", "fixQueued", "wrapAnswers", "saveSignoff",
   "saveRevival", "drops", "markDone"} \cup PhasePcs

Goto(l) == pc' = l

(* The visit is over: nothing of it stays in memory. *)
Return ==
  /\ pc' = "idle" /\ mem' = plan' /\ item' = NoItem
  /\ brief' = {} /\ cands' = {} /\ asks' = {} /\ acted' = FALSE

Pending  == requests.queued > requests.done
Runnable == state = "active" \/ (state = "blocked_on_user" /\ Answered # {})

Init ==
  /\ plan \in InitialPlans
  /\ gates = [s \in Slots |-> FreeGate]
  /\ phase = "build" /\ state = "active"
  /\ requests = [queued |-> 0, done |-> 0]
  /\ pc = "idle" /\ mem = plan /\ item = NoItem
  /\ brief = {} /\ cands = {} /\ asks = {} /\ acted = FALSE
  /\ crashes = 0

(* Scheduler.step picks the project up; an answered question unparks it. *)
Begin ==
  /\ pc = "idle" /\ Runnable
  /\ state' = "active"
  /\ Goto("route")
  /\ UNCHANGED <<plan, gates, phase, requests, mem, item, brief, cands, asks, acted, crashes>>

(* The graph routes on what the disk says and records the phase it enters. *)
Enter(ph) ==
  /\ pc = "route"
  /\ phase' = ph /\ Goto(ph)
  /\ UNCHANGED <<plan, gates, state, requests, mem, item, brief, cands, asks, acted, crashes>>

RouteRequest == Pending /\ Enter("request")
RouteWrap    == ~Pending /\ phase # "done" /\ Complete(plan) /\ Enter("wrap")
RouteBuild   == ~Pending /\ phase # "done" /\ ~Complete(plan) /\ Enter("build")

(* A finished mission has no phase to run: "(nothing to do)". *)
RouteDone ==
  /\ pc = "route" /\ ~Pending /\ phase = "done"
  /\ UNCHANGED <<disk, crashes>> /\ Return

Route == RouteRequest \/ RouteWrap \/ RouteBuild \/ RouteDone

(* The visit ends with the project parked on a question. *)
Park ==
  /\ pc = "park"
  /\ state' = "blocked_on_user"
  /\ UNCHANGED <<plan, gates, phase, requests, crashes>> /\ Return

-----------------------------------------------------------------------------
(* The request phase *)

(* The planner failed, or what it planned is not a valid extension. *)
RequestRefused ==
  /\ pc = "request"
  /\ Goto("closeRequest")
  /\ UNCHANGED <<disk, mem, item, brief, cands, asks, acted, crashes>>

(* Bound: a request is planned as one item.  The extended plan has to be a  *)
(* valid graph as a whole.                                                  *)
RequestPlanned ==
  /\ pc = "request"
  /\ \E n \in InStatus(mem, "absent") :
       /\ mem' = [mem EXCEPT ![n] = NewItem({}, FALSE)]
       /\ plan' = mem'
  /\ ValidGraph(mem')
  /\ Goto("reactivate")
  /\ UNCHANGED <<gates, phase, state, requests, item, brief, cands, asks, acted, crashes>>

Reactivate ==
  /\ pc = "reactivate"
  /\ phase' = IF phase \in {"wrap", "done"} \/ state = "done" THEN "build" ELSE phase
  /\ state' = "active"
  /\ Goto("closeRequest")
  /\ UNCHANGED <<plan, gates, requests, mem, item, brief, cands, asks, acted, crashes>>

CloseRequest ==
  /\ pc = "closeRequest"
  /\ requests' = [requests EXCEPT !.done = @ + 1]
  /\ UNCHANGED <<plan, gates, phase, state, crashes>> /\ Return

RequestPhase == RequestRefused \/ RequestPlanned \/ Reactivate \/ CloseRequest

-----------------------------------------------------------------------------
(* The build phase: before the attempt *)

(* The plan is loaded, cleaned of interrupted attempts and saved if it was  *)
(* not clean.                                                               *)
LoadPlan ==
  /\ pc = "build"
  /\ mem' = Cleaned(plan) /\ plan' = mem'
  /\ Goto("guidance")
  /\ UNCHANGED <<gates, phase, state, requests, item, brief, cands, asks, acted, crashes>>

(* A slip: every waiting answer is taken for guidance. *)
AbsorbGuidanceAny ==
  /\ pc = "guidance"
  /\ IF Answered = {}
       THEN /\ Goto("select") /\ UNCHANGED <<gates, mem>>
       ELSE /\ Consume(Answered)
            /\ mem' = Revived(mem, InStatus(mem, "failed"))
            /\ Goto(IF InStatus(mem, "failed") = {} THEN "select" ELSE "saveGuidance")
  /\ UNCHANGED <<plan, phase, state, requests, item, brief, cands, asks, acted, crashes>>

(* Answers to the supervisor revive every failed item; they are marked      *)
(* consumed before the plan is saved.                                       *)
AbsorbGuidance ==
  /\ pc = "guidance"
  /\ IF Guidance = {}
       THEN /\ Goto("select") /\ UNCHANGED <<gates, mem>>
       ELSE /\ Consume(Guidance)
            /\ mem' = Revived(mem, InStatus(mem, "failed"))
            /\ Goto(IF InStatus(mem, "failed") = {} THEN "select" ELSE "saveGuidance")
  /\ UNCHANGED <<plan, phase, state, requests, item, brief, cands, asks, acted, crashes>>

SaveGuidance ==
  /\ pc = "saveGuidance"
  /\ plan' = mem
  /\ Goto("select")
  /\ UNCHANGED <<gates, phase, state, requests, mem, item, brief, cands, asks, acted, crashes>>

(* An item whose review was interrupted is taken up where it stood.  The    *)
(* code's return for a complete plan has no action: RouteBuild is only taken *)
(* with an incomplete one, which neither cleaning nor guidance completes.    *)
(* VisitsEnd would fail if a visit could get here with a complete plan.      *)
ResumeReview ==
  /\ pc = "select" /\ ~Complete(mem)
  /\ \E i \in InStatus(mem, "review") : mem[i].good /\ item' = i
  /\ Goto("reverify")
  /\ UNCHANGED <<disk, mem, brief, cands, asks, acted, crashes>>

(* Without a finished attempt to review it goes back to the queue. *)
RequeueReview ==
  /\ pc = "select" /\ ~Complete(mem)
  /\ \E i \in InStatus(mem, "review") :
       ~mem[i].good /\ mem' = WithStatus(mem, {i}, "todo") /\ plan' = mem'
  /\ Goto("pick")
  /\ UNCHANGED <<gates, phase, state, requests, item, brief, cands, asks, acted, crashes>>

(* A slip: a review under way does not keep another item from being picked. *)
NoReviewUnchecked ==
  /\ pc = "select" /\ ~Complete(mem)
  /\ Goto("pick")
  /\ UNCHANGED <<disk, mem, item, brief, cands, asks, acted, crashes>>

NoReview ==
  /\ pc = "select" /\ ~Complete(mem) /\ InStatus(mem, "review") = {}
  /\ Goto("pick")
  /\ UNCHANGED <<disk, mem, item, brief, cands, asks, acted, crashes>>

(* Some item of those that may be picked (the code takes the first by       *)
(* priority and age).  The attempt is on record before the agent runs, and  *)
(* the brief holds every answer that waits, whichever item it was asked for.*)
StartAttempt ==
  /\ pc = "pick"
  /\ \E i \in Pickable(mem) :
       /\ item' = i
       /\ mem' = [mem EXCEPT ![i].live = TRUE, ![i].status = "in_progress"]
       /\ plan' = mem'
       /\ Goto(IF i \in TestFirst /\ ~mem[i].tested THEN "tester" ELSE "implementer")
  /\ brief' = Answered
  /\ UNCHANGED <<gates, phase, state, requests, cands, asks, acted, crashes>>

(* Nothing can be picked: spent items fail, and those with triage rounds    *)
(* left are triaged.                                                        *)
MarkExhausted ==
  /\ pc = "pick" /\ Pickable(mem) = {}
  /\ mem' = WithStatus(mem, Exhausted(mem), "failed") /\ plan' = mem'
  /\ cands' = {i \in Exhausted(mem) : mem[i].triaged < TriageRounds}
  /\ Goto(IF cands' = {} THEN "ask" ELSE "triage")
  /\ UNCHANGED <<gates, phase, state, requests, item, brief, asks, acted, crashes>>

(* A question about the spent items, or about a plan nothing can run of,    *)
(* unless one is open already.                                              *)
AskForDirection ==
  /\ pc = "ask"
  /\ IF Open = {} THEN AskUser("supervisor", "build", NoItem, {}) ELSE UNCHANGED gates
  /\ Goto("park")
  /\ UNCHANGED <<plan, phase, state, requests, mem, item, brief, cands, asks, acted, crashes>>

Prepare ==
  \/ LoadPlan \/ AbsorbGuidance \/ SaveGuidance \/ ResumeReview
  \/ RequeueReview \/ NoReview \/ StartAttempt \/ MarkExhausted \/ AskForDirection

-----------------------------------------------------------------------------
(* The build phase: the attempt *)

AgentAsks ==
  /\ pc \in {"tester", "implementer"} /\ item \in Askers
  /\ AskUser("agent", "build", item, {})
  /\ Goto("asked")
  /\ UNCHANGED <<plan, phase, state, requests, mem, item, brief, cands, asks, acted, crashes>>

(* A slip: what is answered by now is consumed, not what the brief held. *)
LoopReturnsAll(l, p) ==
  /\ Consume(Answered) /\ brief' = {}
  /\ mem' = p /\ Goto(l)
  /\ UNCHANGED <<plan, phase, state, requests, item, cands, asks, acted, crashes>>

(* The tool loop returned: the answers of its brief are consumed, and the   *)
(* outcome of the attempt is known in memory only.                          *)
LoopReturns(l, p) ==
  /\ Consume(brief) /\ brief' = {}
  /\ mem' = p /\ Goto(l)
  /\ UNCHANGED <<plan, phase, state, requests, item, cands, asks, acted, crashes>>

LoopBlocked ==
  /\ pc = "asked"
  /\ LoopReturns("saveBlocked", Failed(mem, item, "blocked"))

(* It failed, stuck or errored; or the tests it wrote were turned down. *)
LoopFailed ==
  /\ pc \in {"tester", "implementer"}
  /\ LoopReturns("saveItem", Failed(mem, item, "todo"))

LoopHitCeiling ==
  /\ pc \in {"tester", "implementer"}
  /\ LoopReturns("saveCeiling", Failed(mem, item, "failed"))

TestsDelivered ==
  /\ pc = "tester"
  /\ LoopReturns("saveItem", [mem EXCEPT ![item].status = "todo", ![item].live = FALSE,
                                         ![item].tested = TRUE])

WorkDelivered ==
  /\ pc = "implementer"
  /\ LoopReturns("verify", [mem EXCEPT ![item].live = FALSE])

SaveBlocked ==
  /\ pc = "saveBlocked"
  /\ plan' = mem
  /\ Goto("park")
  /\ UNCHANGED <<gates, phase, state, requests, mem, item, brief, cands, asks, acted, crashes>>

SaveItem ==
  /\ pc = "saveItem"
  /\ plan' = mem
  /\ UNCHANGED <<gates, phase, state, requests, crashes>> /\ Return

(* Progress up to the turn ceiling sends the item to triage at once,        *)
(* whatever its number of triage rounds.                                    *)
SaveCeiling ==
  /\ pc = "saveCeiling"
  /\ plan' = mem
  /\ cands' = {item}
  /\ Goto("triage")
  /\ UNCHANGED <<gates, phase, state, requests, mem, item, brief, asks, acted, crashes>>

Attempt ==
  \/ AgentAsks \/ LoopBlocked \/ LoopFailed \/ LoopHitCeiling \/ TestsDelivered
  \/ WorkDelivered \/ SaveBlocked \/ SaveItem \/ SaveCeiling

-----------------------------------------------------------------------------
(* The build phase: verification, review, integration *)

(* The verification run, before review or again when review is taken up, or *)
(* the review panel, turns the work down.                                   *)
TurnedDown ==
  /\ pc \in {"verify", "reverify", "panel"}
  /\ mem' = Failed(mem, item, "todo")
  /\ Goto("saveItem")
  /\ UNCHANGED <<disk, item, brief, cands, asks, acted, crashes>>

(* Verified, and the workroom shows no change to review. *)
AlreadySatisfied ==
  /\ pc \in {"verify", "reverify"}
  /\ Goto("integrate")
  /\ UNCHANGED <<disk, mem, item, brief, cands, asks, acted, crashes>>

(* The review stage is on disk before any panel seat runs. *)
Verified ==
  /\ pc = "verify"
  /\ \E born \in HeadBorn :
       mem' = [mem EXCEPT ![item].good = born, ![item].status = "review"]
  /\ plan' = mem'
  /\ Goto("reverify")
  /\ UNCHANGED <<gates, phase, state, requests, item, brief, cands, asks, acted, crashes>>

Reverified ==
  /\ pc = "reverify"
  /\ Goto("panel")
  /\ UNCHANGED <<disk, mem, item, brief, cands, asks, acted, crashes>>

(* Every seat that could be reached approved, or none could be reached. *)
PanelPassed ==
  /\ pc = "panel"
  /\ Goto("integrate")
  /\ UNCHANGED <<disk, mem, item, brief, cands, asks, acted, crashes>>

Integrate ==
  /\ pc = "integrate"
  /\ mem' = WithStatus(mem, {item}, "done") /\ plan' = mem'
  /\ Goto("dismiss")
  /\ UNCHANGED <<gates, phase, state, requests, item, brief, cands, asks, acted, crashes>>

(* A slip: finished work withdraws every open question. *)
DismissAllGates ==
  /\ pc = "dismiss"
  /\ gates' = Freed(Open)
  /\ UNCHANGED <<plan, phase, state, requests, crashes>> /\ Return

(* A completed item answers its own open questions. *)
DismissGates ==
  /\ pc = "dismiss"
  /\ gates' = Freed({s \in Open : gates[s].item = item})
  /\ UNCHANGED <<plan, phase, state, requests, crashes>> /\ Return

Review ==
  \/ TurnedDown \/ AlreadySatisfied \/ Verified \/ Reverified \/ PanelPassed
  \/ Integrate \/ DismissGates

-----------------------------------------------------------------------------
(* Triage.  The report deals with some of the candidates, then may repair   *)
(* dependency lists; all of it happens in memory.  Bounds: a report holds   *)
(* at most one entry for an item, and at most one repair.                   *)
(* The visit is about an item when the turn ceiling led here, and about     *)
(* none when spent items did.                                               *)

TriageReports ==
  /\ pc = "triage"
  /\ Goto("report")
  /\ UNCHANGED <<disk, mem, item, brief, cands, asks, acted, crashes>>

Entry(i, verdict) ==
  /\ pc = "report" /\ i \in cands /\ verdict \in TriageVerdicts
  /\ cands' = cands \ {i}
  /\ UNCHANGED <<disk, pc, item, brief, crashes>>

Act(i, verdict, p) ==
  /\ Entry(i, verdict)
  /\ mem' = p /\ acted' = TRUE
  /\ UNCHANGED asks

TriageRetry(i) == Act(i, "retry", Marked(Revived(mem, {i}), i))
TriageDrop(i)  == Act(i, "drop", Marked(WithStatus(mem, {i}, "dropped"), i))

TriageSplit(i) ==
  \E draft \in Drafts :
    \E r \in [DOMAIN draft -> InStatus(mem, "absent")] :
      /\ \A j, k \in DOMAIN r : j < k => r[j] # r[k]
      /\ Act(i, "split", Split(mem, i, draft, r))

TriageQuestion(i) ==
  /\ Entry(i, "ask_user")
  /\ asks' = asks \cup {i}
  /\ UNCHANGED <<mem, acted>>

(* A slip: the repaired plan is not validated. *)
TriageRewireUnchecked ==
  /\ pc = "report"
  /\ \E f \in Fixes :
       LET t   == f.item
           new == (f.deps \cap InPlan(mem)) \ {t}
       IN  /\ t \in InPlan(mem) /\ ~Terminal(mem, t)
           /\ new # mem[t].deps
           /\ mem' = [mem EXCEPT ![t].deps = new]
  /\ acted' = TRUE
  /\ Goto("saveTriage")
  /\ UNCHANGED <<disk, item, brief, cands, asks, crashes>>

(* A repair of an unfinished item is kept only if the whole plan is valid   *)
(* with it.                                                                 *)
TriageRewire ==
  /\ pc = "report"
  /\ \E f \in Fixes :
       LET t   == f.item
           new == (f.deps \cap InPlan(mem)) \ {t}
           p   == [mem EXCEPT ![t].deps = new]
       IN  /\ t \in InPlan(mem) /\ ~Terminal(mem, t)
           /\ new # mem[t].deps
           /\ ValidGraph(p)
           /\ mem' = p
  /\ acted' = TRUE
  /\ Goto("saveTriage")
  /\ UNCHANGED <<disk, item, brief, cands, asks, crashes>>

TriageCloses ==
  /\ pc = "report"
  /\ Goto("saveTriage")
  /\ UNCHANGED <<disk, mem, item, brief, cands, asks, acted, crashes>>

SaveTriageAsk ==
  /\ pc = "saveTriage" /\ asks # {}
  /\ plan' = mem
  /\ Goto("triageAsk")
  /\ UNCHANGED <<gates, phase, state, requests, mem, item, brief, cands, asks, acted, crashes>>

SaveTriageActed ==
  /\ pc = "saveTriage" /\ asks = {} /\ acted
  /\ plan' = mem
  /\ UNCHANGED <<gates, phase, state, requests, crashes>> /\ Return

(* A slip: an item that hit the ceiling stays with triage until it reports. *)
TriageInsists ==
  /\ \/ pc = "triage"
     \/ pc = "saveTriage" /\ asks = {} /\ ~acted
  /\ Goto(IF item = NoItem THEN "ask" ELSE "triage")
  /\ UNCHANGED <<disk, mem, item, brief, cands, asks, acted, crashes>>

(* No report, or one that changed nothing: the caller carries on, with a    *)
(* question to the user or with the plain retry.                            *)
TriageQuiet ==
  /\ \/ pc = "triage"
     \/ pc = "saveTriage" /\ asks = {} /\ ~acted
  /\ IF item = NoItem
       THEN Goto("ask") /\ UNCHANGED mem
       ELSE Goto("saveItem") /\ mem' = WithStatus(mem, {item}, "todo")
  /\ UNCHANGED <<disk, item, brief, cands, asks, acted, crashes>>

AskTriage(i) ==
  /\ pc = "triageAsk" /\ i \in asks
  /\ AskUser("supervisor", "build", i, {})
  /\ asks' = asks \ {i}
  /\ Goto(IF asks' = {} THEN "park" ELSE "triageAsk")
  /\ UNCHANGED <<plan, phase, state, requests, mem, item, brief, cands, acted, crashes>>

Triage ==
  \/ TriageReports \/ TriageRewire \/ TriageCloses
  \/ SaveTriageAsk \/ SaveTriageActed \/ TriageQuiet
  \/ \E i \in Items :
       TriageRetry(i) \/ TriageDrop(i) \/ TriageSplit(i) \/ TriageQuestion(i) \/ AskTriage(i)

-----------------------------------------------------------------------------
(* The wrap phase *)

(* The shipped artifacts are rebuilt, unless there are none or the fix for  *)
(* the build was dropped.                                                   *)
BuildPasses ==
  /\ pc = "wrap"
  /\ Goto("wrapAnswers")
  /\ UNCHANGED <<disk, mem, item, brief, cands, asks, acted, crashes>>

QueueBuildFix ==
  /\ pc = "wrap"
  /\ ~ \E i \in Items : mem[i].fix /\ mem[i].status = "dropped"
  /\ \E n \in InStatus(mem, "absent") :
       mem' = [mem EXCEPT ![n] = NewItem({}, TRUE)]
  /\ plan' = mem'
  /\ Goto("fixQueued")
  /\ UNCHANGED <<gates, phase, state, requests, item, brief, cands, asks, acted, crashes>>

FixQueued ==
  /\ pc = "fixQueued"
  /\ phase' = "build"
  /\ UNCHANGED <<plan, gates, state, requests, crashes>> /\ Return

NoWrapAnswer ==
  /\ pc = "wrapAnswers" /\ WrapAnswers = {}
  /\ Goto("drops")
  /\ UNCHANGED <<disk, mem, item, brief, cands, asks, acted, crashes>>

(* A slip: guidance revives everything that is finished. *)
AbsorbSignoffRevivingAll ==
  /\ pc = "wrapAnswers"
  /\ \E s \in WrapAnswers :
       IF gates[s].yes
         THEN /\ mem' = [i \in Items |-> IF i \in UnconfirmedDrops(mem)
                                           THEN [mem[i] EXCEPT !.confirmed = TRUE]
                                           ELSE mem[i]]
              /\ Goto("saveSignoff")
         ELSE /\ mem' = Revived(mem, {i \in Items : Terminal(mem, i) /\ ~mem[i].confirmed})
              /\ Goto("saveRevival")
  /\ Consume(WrapAnswers)
  /\ UNCHANGED <<plan, phase, state, requests, item, brief, cands, asks, acted, crashes>>

(* The answer settles whatever is dropped and unconfirmed by now.           *)
AbsorbSignoff ==
  /\ pc = "wrapAnswers"
  /\ \E s \in WrapAnswers :
       IF gates[s].yes
         THEN /\ mem' = [i \in Items |-> IF i \in UnconfirmedDrops(mem)
                                           THEN [mem[i] EXCEPT !.confirmed = TRUE]
                                           ELSE mem[i]]
              /\ Goto("saveSignoff")
         ELSE /\ mem' = Revived(mem, UnconfirmedDrops(mem))
              /\ Goto("saveRevival")
  /\ Consume(WrapAnswers)
  /\ UNCHANGED <<plan, phase, state, requests, item, brief, cands, asks, acted, crashes>>

(* A slip: the confirmations are not saved. *)
SaveSignoffForgotten ==
  /\ pc = "saveSignoff"
  /\ Goto("drops")
  /\ UNCHANGED <<disk, mem, item, brief, cands, asks, acted, crashes>>

SaveSignoff ==
  /\ pc = "saveSignoff"
  /\ plan' = mem
  /\ Goto("drops")
  /\ UNCHANGED <<gates, phase, state, requests, mem, item, brief, cands, asks, acted, crashes>>

SaveRevival ==
  /\ pc = "saveRevival"
  /\ plan' = mem
  /\ UNCHANGED <<gates, phase, state, requests, crashes>> /\ Return

(* Drops without a sign-off are asked about, once. *)
AskSignoff ==
  /\ pc = "drops" /\ UnconfirmedDrops(mem) # {}
  /\ IF OpenSignoff = {}
       THEN AskUser("supervisor", "wrap", NoItem, UnconfirmedDrops(mem))
       ELSE UNCHANGED gates
  /\ Goto("park")
  /\ UNCHANGED <<plan, phase, state, requests, mem, item, brief, cands, asks, acted, crashes>>

(* A slip: the phase stays where it was. *)
FinishWrapSilently ==
  /\ pc = "drops" /\ UnconfirmedDrops(mem) = {}
  /\ Goto("markDone")
  /\ UNCHANGED <<disk, mem, item, brief, cands, asks, acted, crashes>>

FinishWrap ==
  /\ pc = "drops" /\ UnconfirmedDrops(mem) = {}
  /\ phase' = "done"
  /\ Goto("markDone")
  /\ UNCHANGED <<plan, gates, state, requests, mem, item, brief, cands, asks, acted, crashes>>

MarkDone ==
  /\ pc = "markDone"
  /\ state' = "done"
  /\ UNCHANGED <<plan, gates, phase, requests, crashes>> /\ Return

Wrap ==
  \/ BuildPasses \/ QueueBuildFix \/ FixQueued \/ NoWrapAnswer \/ AbsorbSignoff
  \/ SaveSignoff \/ SaveRevival \/ AskSignoff \/ FinishWrap \/ MarkDone

-----------------------------------------------------------------------------
(* The user, and the end of the process *)

Answer(s) ==
  /\ gates[s].status = "open"
  /\ \E yes \in IF gates[s].phase = "wrap" THEN BOOLEAN ELSE {FALSE} :
       gates' = [gates EXCEPT ![s].status = "answered", ![s].yes = yes]
  /\ UNCHANGED <<plan, phase, state, requests, local, crashes>>

QueueRequest ==
  /\ requests.queued < MaxRequests
  /\ requests' = [requests EXCEPT !.queued = @ + 1]
  /\ state' = "active"
  /\ UNCHANGED <<plan, gates, phase, local, crashes>>

(* The process is killed, or an exception ends the step: the scheduler      *)
(* reports "step errored" and carries on.                                   *)
Crash ==
  /\ pc # "idle" /\ crashes < MaxCrashes
  /\ crashes' = crashes + 1
  /\ UNCHANGED disk /\ Return

Runner ==
  Begin \/ Route \/ Park \/ RequestPhase \/ Prepare \/ Attempt \/ Review \/ Triage \/ Wrap

User == QueueRequest \/ \E s \in Slots : Answer(s)

Next == Runner \/ User \/ Crash

Spec == Init /\ [][Next]_vars

(* `orc run --watch` keeps visiting, and models, tools and verification     *)
(* runs end by their own timeouts.  Nothing is assumed of the user.         *)
FairSpec == Spec /\ WF_vars(Runner)

-----------------------------------------------------------------------------
(* What the phases promise: states *)

(* Every variable has its type. *)
TypeOK ==
  /\ plan \in Plans /\ mem \in Plans
  /\ gates \in [Slots -> Gate]
  /\ phase \in PhasePcs \cup {"done"}
  /\ state \in {"active", "blocked_on_user", "done"}
  /\ requests \in [queued : Nat, done : Nat]
  /\ pc \in Pcs
  /\ item \in Items \cup {NoItem}
  /\ brief \subseteq Slots
  /\ cands \subseteq Items /\ asks \subseteq Items
  /\ acted \in BOOLEAN /\ crashes \in Nat

(* A parked project has a question that is still to be answered, or whose   *)
(* answer nothing has consumed: only an answer ever unparks it              *)
(* (Project.is_runnable), so parked without one it would sit for good.      *)
ParkedHasQuestion ==
  state = "blocked_on_user" => Waiting # {}

(* Why that is so, and what makes it and the types inductive: a visit that  *)
(* is past the choice of an item has one; the brief of an attempt holds     *)
(* answers that nothing else consumes before the attempt returns; and from  *)
(* the moment an agent asks until the visit parks there is a question the   *)
(* brief did not answer.                                                    *)
WorkPcs ==
  {"tester", "implementer", "asked", "saveBlocked", "saveItem", "saveCeiling",
   "verify", "reverify", "panel", "integrate", "dismiss"}

WorkHasItem == pc \in WorkPcs => item \in Items

BriefIsKept ==
  /\ brief \subseteq Answered
  /\ pc \notin {"tester", "implementer", "asked"} => brief = {}

QuestionWaits ==
  /\ pc = "asked" => Waiting \ brief # {}
  /\ pc \in {"saveBlocked", "park"} => Waiting # {}
  /\ state = "blocked_on_user" => pc = "idle"

IInv == TypeOK /\ WorkHasItem /\ BriefIsKept /\ QuestionWaits /\ ParkedHasQuestion

(* The single coder works on one item at a time: at most one item is under  *)
(* work or review, or has an attempt on record that has not ended, on disk, *)
(* whatever the crashes (cleanup_dangling_attempts, the review resumption). *)
InFlight(p) == {i \in Items : p[i].live \/ p[i].status \in {"in_progress", "review"}}

OneInFlight == \A i, j \in InFlight(plan) : i = j

(* No item is worked on or reviewed before what it depends on is finished,  *)
(* though triage rewires dependencies and the user revives dropped items    *)
(* (Plan.ready_items, the rewiring onto the tail of a split).               *)
WorkRespectsDeps == \A i \in InFlight(plan) : DepsSatisfied(plan, i)

(* An item is never given more than max_attempts_per_item failures between  *)
(* two revivals, and one in flight still has budget for the attempt.        *)
AttemptBudget ==
  \A i \in Items :
    /\ plan[i].fails <= MaxAttempts
    /\ i \in InFlight(plan) => plan[i].fails < MaxAttempts

(* A mission is closed only when every item is finished and the user has    *)
(* confirmed going without each dropped one (phase_wrap's sign-off).        *)
ClosedIsSettled ==
  phase = "done" => Complete(plan) /\ UnconfirmedDrops(plan) = {}

(* Triage, which rewires, splits and drops, leaves the plan a DAG.          *)
PlanStaysAcyclic == ~HasCycle(plan)

-----------------------------------------------------------------------------
(* What the phases promise: steps *)

(* Finished work stays finished: no later visit, working from the plan it   *)
(* loaded, and no triage, revival or cleanup takes an item out of done.     *)
DoneIsFinal ==
  [][\A i \in Items : plan[i].status = "done" => plan'[i].status = "done"]_vars

(* A question the user has not answered is withdrawn only when the item it  *)
(* is about is done (GateBook.dismiss in _integrate_item).                  *)
QuestionsPersist ==
  [][\A s \in Open : gates'[s].status = "free" =>
        /\ gates[s].item \in Items
        /\ plan[gates[s].item].status = "done"]_vars

(* An answer is marked consumed only by a reader that had it: an attempt    *)
(* whose brief held it, or the absorption of guidance or sign-off it is     *)
(* meant for.  One that comes while the agent runs waits for the next       *)
(* brief (briefs._answers_section, mark_gates_consumed).                    *)
ConsumedWasRead ==
  [][\A s \in Answered : gates'[s].status = "free" =>
        \/ s \in brief
        \/ s \in Guidance /\ \A i \in Items : mem'[i].status # "failed"
        \/ s \in WrapAnswers /\ UnconfirmedDrops(mem') = {}]_vars

(* A split item is dropped, and a dropped dependency is satisfied: what     *)
(* waited for it must from then on wait, directly or through others, for    *)
(* every replacement (the rewiring onto the tail in _run_triage).           *)
Before(p, j) ==
  LET before[n \in 0 .. Cardinality(Items)] ==
        IF n = 0 THEN p[j].deps
        ELSE LET nearer == before[n - 1]
             IN  nearer \cup UNION {p[d].deps : d \in nearer}
  IN  before[Cardinality(Items)]

SplitKeepsOrder ==
  [][LET new == InPlan(mem') \ InPlan(mem)
     IN  \A i, j \in InPlan(mem) :
           /\ i \in mem[j].deps
           /\ mem[i].status # "dropped" /\ mem'[i].status = "dropped"
           => new \subseteq Before(mem', j)]_vars

(* Only a split makes a cycle, and only one whose draft has a part follow a *)
(* later one, which nobody checks (_run_triage, phases.py:684): no repair   *)
(* of dependencies, revival, fix or request does, nor a plan that is saved  *)
(* from an older copy.                                                      *)
OutOfOrder(d) == \E k \in DOMAIN d : \E n \in d[k] \cap DOMAIN d : n > k
Tangles ==
  \E i \in Items, d \in Drafts :
    /\ OutOfOrder(d)
    /\ \E r \in [DOMAIN d -> InStatus(mem, "absent")] : mem' = Split(mem, i, d, r)
OnlySplitsTangle ==
  [][HasCycle(plan') \/ HasCycle(mem') => HasCycle(plan) \/ HasCycle(mem) \/ Tangles]_vars

-----------------------------------------------------------------------------
(* What the phases promise: progress *)

(* A visit ends: no phase runs in circles, and none stops half-way.         *)
VisitsEnd == pc # "idle" ~> pc = "idle"

(* An item that is ready and has attempt budget does not wait for ever: it  *)
(* is taken up, or the project parks on a question that is still open       *)
(* (pick_item, whatever triage, requests and guidance do to the plan).      *)
(* One way to starve it is in the code: triage at the turn ceiling knows no *)
(* number of rounds and a retry empties the attempts (phases.py:1333-1344,  *)
(* 659-660), so an item picked before it can hit the ceiling and be sent    *)
(* back for ever.  It is the only one.                                      *)
RetriesAtCeiling == \E i \in Items : item = i /\ TriageRetry(i)
ReadyWorkIsTaken ==
  \/ \A i \in Items :
       i \in Pickable(plan) ~> (\/ i \notin Pickable(plan)
                                \/ state = "blocked_on_user" /\ Open # {})
  \/ []<><<RetriesAtCeiling>>_vars

(* A mission with nothing left to do or to confirm is closed, or gets new   *)
(* work (next_phase, phase_wrap).                                           *)
SettledMissionCloses ==
  (Complete(plan) /\ UnconfirmedDrops(plan) = {}) ~> (phase = "done" \/ ~Complete(plan))

-----------------------------------------------------------------------------
(* What the documentation says and the code does not do *)

(* Guidance given to the supervisor while an item is failed gets the item   *)
(* out of failed.                                                           *)
GuidanceReachesItems ==
  \A i \in Items :
    (Guidance # {} /\ plan[i].status = "failed") ~> plan[i].status # "failed"

(* The answer to a question an agent asked about an item unparks the work:  *)
(* the item does not stay blocked.                                          *)
AnsweredItemResumes ==
  \A i \in Items :
    (plan[i].status = "blocked" /\ \E s \in Answered : gates[s].item = i)
      ~> plan[i].status # "blocked"

(* Only the user closes a mission that shipped without an item: a dropped   *)
(* item is confirmed by the answer to a question that listed it.            *)
SignoffCoversItem ==
  [][\A i \in Items : ~mem[i].confirmed /\ mem'[i].confirmed =>
        \E s \in WrapAnswers : gates[s].yes /\ i \in gates[s].about]_vars

=============================================================================
