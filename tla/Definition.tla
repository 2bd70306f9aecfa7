------------------------------ MODULE Definition ------------------------------
(***************************************************************************)
(* The phases that define the work, before there is a plan to build: the   *)
(* scout's report on an adopted codebase, the charter with its questions   *)
(* to the user, the design, the plan (orchestrator/phases.py, routed by    *)
(* next_phase of orchestrator/supervisor.py from what is on disk).  The    *)
(* user answers and queues change requests at any time; the process may be *)
(* killed between two writes.  BuildPhase takes over from the plan that is *)
(* saved here.                                                             *)
(***************************************************************************)
EXTENDS Naturals, FiniteSets

CONSTANTS
  Budget,       \* config.run.clarification_budget
  MaxQuestions, \* bound: questions the charterer's gates may number
  PlanRounds,   \* the rounds of phase_plan
  MaxRequests,  \* bound: change requests ever queued
  MaxFailures,  \* bound: calls of a model that fail for good
  MaxDeaths     \* bound: kills of the process

ASSUME DefinitionConstants ==
  /\ Budget \in Nat /\ MaxQuestions \in Nat /\ PlanRounds \in Nat \ {0}
  /\ MaxRequests \in Nat /\ MaxFailures \in Nat /\ MaxDeaths \in Nat

VARIABLES
  external,    \* meta.external_workroom
  phase,       \* meta.phase
  state,       \* meta.state
  files,       \* what is on disk: report, charter, ready (to build), design, plan
  questions,   \* the gates of the charterer: none, open, answered, consumed
  requests,    \* requests.jsonl: how many were queued, how many are done
  visit,       \* where the visit in flight is
  brief,       \* the answers in the charterer's brief
  toAsk,       \* questions of the charter still to be opened
  planRound,   \* the round of phase_plan
  failures, deaths,
  heard        \* history: the answers some saved charter was written from

onDisk  == <<external, phase, state, files, questions, requests>>
atHand  == <<visit, brief, toAsk, planRound>>
defVars == <<onDisk, atHand, failures, deaths, heard>>

Gates == 1 .. MaxQuestions
In(status) == {g \in Gates : questions[g] = status}

DefTypeOK ==
  /\ external \in BOOLEAN
  /\ phase \in {"charter", "design", "plan", "request", "build"}
  /\ state \in {"active", "blocked_on_user"}
  /\ files \subseteq {"report", "charter", "ready", "design", "plan"}
  /\ questions \in [Gates -> {"none", "open", "answered", "consumed"}]
  /\ requests \in [queued : Nat, done : Nat]
  /\ visit \in {"new", "none", "scout", "read", "charter", "consume", "ask", "park", "activate",
                "toDesign", "design", "toPlan", "plan", "savePlan", "toBuild",
                "request", "reactivate", "closeRequest"}
  /\ brief \subseteq Gates /\ toAsk \in 0 .. MaxQuestions
  /\ planRound \in 1 .. PlanRounds
  /\ failures \in 0 .. MaxFailures /\ deaths \in 0 .. MaxDeaths
  /\ heard \subseteq Gates

DefInit ==
  /\ external = FALSE /\ phase = "charter" /\ state = "active" /\ files = {}
  /\ questions = [g \in Gates |-> "none"] /\ requests = [queued |-> 0, done |-> 0]
  /\ visit = "new" /\ brief = {} /\ toAsk = 0 /\ planRound = 1
  /\ failures = 0 /\ deaths = 0 /\ heard = {}

(* Registry.create: a new workroom, or one that is adopted.                 *)
NewMission(adopted) ==
  /\ visit = "new"
  /\ external' = adopted /\ visit' = "none"
  /\ UNCHANGED <<phase, state, files, questions, requests, brief, toAsk, planRound, failures, deaths, heard>>

On(where)   == visit' = where /\ UNCHANGED <<brief, toAsk, planRound>>
EndVisit    == visit' = "none" /\ brief' = {} /\ toAsk' = 0 /\ planRound' = 1
Failure     == failures < MaxFailures /\ failures' = failures + 1

-----------------------------------------------------------------------------
(* Scheduling and routing.                                                  *)

DefRunnable == state = "active" \/ In("answered") # {}

Pending == requests.queued > requests.done

(* next_phase, up to the build.  A request that waits comes before anything *)
(* else once there is a design, whether or not there is a plan.             *)
NextPhase ==
  IF "design" \in files /\ Pending THEN "request"
  ELSE IF external /\ "report" \notin files THEN "scout"
  ELSE IF "charter" \notin files \/ In("answered") # {} \/ "ready" \notin files THEN "charter"
  ELSE IF "design" \notin files THEN "design"
  ELSE IF "plan" \notin files THEN "plan"
  ELSE "build"

(* The scheduler unparks the project; the node brings the stored phase into *)
(* line, except for the scout.                                              *)
Visit ==
  /\ visit = "none" /\ DefRunnable /\ NextPhase # "build"
  /\ state' = "active"
  /\ phase' = IF NextPhase = "scout" THEN phase ELSE NextPhase
  /\ On(IF NextPhase = "charter" THEN "read" ELSE NextPhase)
  /\ UNCHANGED <<external, files, questions, requests, failures, deaths, heard>>

(* The scout writes a report however its attempt ends.                      *)
Scout ==
  /\ visit = "scout"
  /\ files' = files \cup {"report"}
  /\ EndVisit
  /\ UNCHANGED <<external, phase, state, questions, requests, failures, deaths, heard>>

-----------------------------------------------------------------------------
(* phase_charter.                                                           *)

(* charter_brief: the answers that wait when it is put together.            *)
ReadAnswers ==
  /\ visit = "read"
  /\ brief' = In("answered") /\ visit' = "charter"
  /\ UNCHANGED <<onDisk, toAsk, planRound, failures, deaths, heard>>

(* The model gave no valid charter, no design, or no valid plan.            *)
PhaseFails ==
  /\ visit \in {"charter", "design", "plan"} /\ Failure
  /\ EndVisit
  /\ UNCHANGED <<onDisk, deaths, heard>>

(* charterer_questions_asked and what is left of the budget.                *)
(* A slip: only what waits for an answer counts as asked.                   *)
BudgetLeftOfOpen == IF Cardinality(In("open")) < Budget THEN Budget - Cardinality(In("open")) ELSE 0
BudgetLeft ==
  LET questionsAsked == Cardinality(Gates \ In("none"))
  IN  IF questionsAsked < Budget THEN Budget - questionsAsked ELSE 0

(* The charter is saved; with blocking questions within the budget it is    *)
(* not ready to build.  Those over the budget become assumptions.           *)
WriteCharter(blocking) ==
  /\ visit = "charter"
  /\ LET asks == IF blocking < BudgetLeft THEN blocking ELSE BudgetLeft IN
     /\ toAsk' = asks
     /\ files' = IF asks > 0 THEN (files \ {"ready"}) \cup {"charter"}
                             ELSE files \cup {"charter", "ready"}
  /\ heard' = heard \cup brief
  /\ visit' = "consume"
  /\ UNCHANGED <<external, phase, state, questions, requests, brief, planRound, failures, deaths>>

Consumed(set) == [g \in Gates |-> IF g \in set THEN "consumed" ELSE questions[g]]

(* The answers of the brief are marked consumed.                            *)
(* A slip: all that are there by now.                                       *)
ConsumeAnyAnswers ==
  /\ visit = "consume"
  /\ questions' = Consumed(In("answered"))
  /\ On(IF toAsk > 0 THEN "ask" ELSE "activate")
  /\ UNCHANGED <<external, phase, state, files, requests, failures, deaths, heard>>
ConsumeAnswers ==
  /\ visit = "consume"
  /\ questions' = Consumed(brief)
  /\ On(IF toAsk > 0 THEN "ask" ELSE "activate")
  /\ UNCHANGED <<external, phase, state, files, requests, failures, deaths, heard>>

(* One gate after the other.                                                *)
AskQuestion ==
  /\ visit = "ask" /\ In("none") # {}
  /\ questions' = [questions EXCEPT ![CHOOSE g \in In("none") : TRUE] = "open"]
  /\ toAsk' = toAsk - 1
  /\ visit' = IF toAsk = 1 THEN "park" ELSE "ask"
  /\ UNCHANGED <<external, phase, state, files, requests, brief, planRound, failures, deaths, heard>>

ParkCharter ==
  /\ visit = "park"
  /\ state' = "blocked_on_user"
  /\ EndVisit
  /\ UNCHANGED <<external, phase, files, questions, requests, failures, deaths, heard>>

(* set_state and set_phase are two writes.                                  *)
ActivateCharter ==
  /\ visit = "activate"
  /\ state' = "active" /\ On("toDesign")
  /\ UNCHANGED <<external, phase, files, questions, requests, failures, deaths, heard>>

EnterDesign ==
  /\ visit = "toDesign"
  /\ phase' = "design" /\ EndVisit
  /\ UNCHANGED <<external, state, files, questions, requests, failures, deaths, heard>>

-----------------------------------------------------------------------------
(* phase_design and phase_plan.                                             *)

WriteDesign ==
  /\ visit = "design"
  /\ files' = files \cup {"design"} /\ On("toPlan")
  /\ UNCHANGED <<external, phase, state, questions, requests, failures, deaths, heard>>

EnterPlan ==
  /\ visit = "toPlan"
  /\ phase' = "plan" /\ EndVisit
  /\ UNCHANGED <<external, state, files, questions, requests, failures, deaths, heard>>

(* A draft that is no valid graph, or empty, is drafted again with the      *)
(* problems; after the last round that is a failed visit.                   *)
PlanInvalid ==
  /\ visit = "plan"
  /\ IF planRound < PlanRounds
     THEN /\ planRound' = planRound + 1
          /\ UNCHANGED <<visit, brief, toAsk, failures>>
     ELSE Failure /\ EndVisit
  /\ UNCHANGED <<onDisk, deaths, heard>>

(* So is one the plan reviewer finds fault with; but after the last round   *)
(* it is built anyway.                                                      *)
(* A slip: it is refused for good.                                          *)
PlanCriticizedForGood ==
  /\ visit = "plan"
  /\ IF planRound < PlanRounds
     THEN planRound' = planRound + 1 /\ UNCHANGED <<visit, brief, toAsk>>
     ELSE EndVisit
  /\ UNCHANGED <<onDisk, failures, deaths, heard>>
PlanCriticized ==
  /\ visit = "plan"
  /\ IF planRound < PlanRounds
     THEN planRound' = planRound + 1 /\ UNCHANGED <<visit, brief, toAsk>>
     ELSE On("savePlan")
  /\ UNCHANGED <<onDisk, failures, deaths, heard>>

(* Approved, or there is no reviewer to be had.                             *)
PlanApproved ==
  /\ visit = "plan"
  /\ On("savePlan")
  /\ UNCHANGED <<onDisk, failures, deaths, heard>>

SaveFirstPlan ==
  /\ visit = "savePlan"
  /\ files' = files \cup {"plan"} /\ On("toBuild")
  /\ UNCHANGED <<external, phase, state, questions, requests, failures, deaths, heard>>

EnterBuild ==
  /\ visit = "toBuild"
  /\ phase' = "build" /\ EndVisit
  /\ UNCHANGED <<external, state, files, questions, requests, failures, deaths, heard>>

-----------------------------------------------------------------------------
(* phase_request and plan_request.                                          *)

(* The planner failed, or gave nothing that extends the plan validly; the   *)
(* request is marked done all the same.                                     *)
ExtensionRefused ==
  /\ visit = "request"
  /\ On("closeRequest")
  /\ UNCHANGED <<onDisk, failures, deaths, heard>>

(* The request's items are added to the plan there is, or to none.          *)
ExtensionPlanned ==
  /\ visit = "request"
  /\ files' = files \cup {"plan"} /\ On("reactivate")
  /\ UNCHANGED <<external, phase, state, questions, requests, failures, deaths, heard>>

ReactivateProject ==
  /\ visit = "reactivate"
  /\ state' = "active" /\ On("closeRequest")
  /\ UNCHANGED <<external, phase, files, questions, requests, failures, deaths, heard>>

MarkRequest ==
  /\ visit = "closeRequest"
  /\ requests' = [requests EXCEPT !.done = @ + 1]
  /\ EndVisit
  /\ UNCHANGED <<external, phase, state, files, questions, failures, deaths, heard>>

-----------------------------------------------------------------------------
AnswerQuestion(g) ==
  /\ questions[g] = "open"
  /\ questions' = [questions EXCEPT ![g] = "answered"]
  /\ UNCHANGED <<external, phase, state, files, requests, atHand, failures, deaths, heard>>

(* `orc request`: the request is queued and the project made active,        *)
(* whatever it waits for.                                                   *)
QueueChange ==
  /\ visit # "new" /\ requests.queued < MaxRequests
  /\ requests' = [requests EXCEPT !.queued = @ + 1]
  /\ state' = "active"
  /\ UNCHANGED <<external, phase, files, questions, atHand, failures, deaths, heard>>

(* A kill, or an exception that ends the step.                              *)
Die ==
  /\ visit \notin {"new", "none"} /\ deaths < MaxDeaths
  /\ deaths' = deaths + 1
  /\ EndVisit
  /\ UNCHANGED <<onDisk, failures, heard>>

DefStep ==
  \/ (\E adopted \in BOOLEAN : NewMission(adopted))
  \/ Visit \/ Scout \/ ReadAnswers \/ PhaseFails
  \/ (\E blocking \in 0 .. MaxQuestions : WriteCharter(blocking))
  \/ ConsumeAnswers \/ AskQuestion \/ ParkCharter \/ ActivateCharter \/ EnterDesign
  \/ WriteDesign \/ EnterPlan
  \/ PlanInvalid \/ PlanCriticized \/ PlanApproved \/ SaveFirstPlan \/ EnterBuild
  \/ ExtensionRefused \/ ExtensionPlanned \/ ReactivateProject \/ MarkRequest

DefNext == DefStep \/ (\E g \in Gates : AnswerQuestion(g)) \/ QueueChange \/ Die

DefSpec == DefInit /\ [][DefNext]_defVars /\ WF_defVars(DefStep)

-----------------------------------------------------------------------------
(* The charterer opens no more questions than its budget, over all          *)
(* revisions, answers and kills (phases.py:110-112; config.py:328           *)
(* `blocking questions per phase before assuming-and-proceeding`).          *)
QuestionBudget == Cardinality(Gates \ In("none")) <= Budget

(* An answer is marked consumed only when a charter written from it is on   *)
(* disk: project.py:260-262 `a crash between injection and next save        *)
(* re-injects (idempotent) rather than losing the answer`.                  *)
AnswersReachCharter == In("consumed") \subseteq heard

(* The mission comes to be built, or waits for the user with a question     *)
(* open; models that fail a bounded number of times, kills, late answers    *)
(* and requests do not change that (phases.py:352 `never wedge on review    *)
(* taste`).  What is built may be the plan of a request alone: a request    *)
(* that waits when the design is written comes before phase_plan, and       *)
(* leaves it nothing to do.                                                 *)
DefinitionSettles ==
  (visit # "new") ~> [](\/ NextPhase = "build"
                        \/ state = "blocked_on_user" /\ In("open") # {})

=============================================================================
