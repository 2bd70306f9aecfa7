------------------------- MODULE Definition_proofs --------------------------
(***************************************************************************)
(* The phases that define the work, for any budget of questions, number of *)
(* gates, failures of models and kills: the charterer stays within its     *)
(* budget, and an answer is consumed only by a charter that heard it.      *)
(***************************************************************************)
EXTENDS Definition, FiniteSetTheorems, TLAPS

(* The gates the budget counts. *)
Asked == Gates \ In("none")

(* What makes the two properties inductive.  The budget: what is still to   *)
(* be asked is set aside with what was asked.  The answers: from the brief  *)
(* to the mark, the answers in hand are answered gates, and once the        *)
(* charter is saved they are heard.                                         *)
DefInv ==
  /\ DefTypeOK
  /\ visit = "ask" => toAsk > 0
  /\ toAsk + Cardinality(Asked) <= Budget
  /\ visit \in {"charter", "consume"} => brief \subseteq In("answered")
  /\ visit = "consume" => brief \subseteq heard
  /\ AnswersReachCharter

-----------------------------------------------------------------------------
(* Counting gates                                                           *)

(* Any set of gates can be counted, and has no more than all of them. *)
LEMMA GatesFinite ==
  ASSUME NEW S \in SUBSET Gates
  PROVE  IsFiniteSet(S) /\ Cardinality(S) \in Nat
<1>1. IsFiniteSet(Gates)
  BY DefinitionConstants, FS_Interval DEF Gates
<1> QED
  BY <1>1, FS_Subset, FS_CardinalityType

(* What may still be asked fits into the budget and the gates there are. *)
LEMMA BudgetLeftFits ==
  ASSUME DefInv
  PROVE  BudgetLeft \in Nat /\ BudgetLeft + Cardinality(Asked) <= Budget
<1>1. Cardinality(Asked) \in Nat
  BY GatesFinite DEF Asked
<1>2. toAsk \in Nat /\ Cardinality(Asked) <= Budget
  BY <1>1, DefinitionConstants DEF DefInv, DefTypeOK
<1>3. BudgetLeft = IF Cardinality(Asked) < Budget THEN Budget - Cardinality(Asked) ELSE 0
  BY DEF BudgetLeft, Asked
<1> QED
  BY <1>1, <1>2, <1>3, DefinitionConstants

-----------------------------------------------------------------------------
(* Steps                                                                    *)

(* A step that leaves the questions, the charters heard and the hand of the *)
(* process alone, or empties it, cannot disturb either property.            *)
LEMMA OnlyMoves ==
  ASSUME DefInv, DefTypeOK', UNCHANGED <<questions, heard>>,
         \/ EndVisit
         \/ visit' \notin {"charter", "consume", "ask"} /\ toAsk' = toAsk
  PROVE  DefInv'
<1>1. In("none")' = In("none") /\ In("answered")' = In("answered")
      /\ In("consumed")' = In("consumed")
  BY DEF In
<1>2. Asked' = Asked
  BY <1>1 DEF Asked
<1>3. Cardinality(Asked) \in Nat /\ toAsk \in Nat
  BY GatesFinite, DefinitionConstants DEF Asked, DefInv, DefTypeOK
<1>4. toAsk' = toAsk \/ toAsk' = 0
  BY DEF EndVisit
<1>5. toAsk' + Cardinality(Asked') <= Budget
  BY <1>2, <1>3, <1>4, DefinitionConstants DEF DefInv
<1>6. visit' \notin {"charter", "consume", "ask"}
  BY DEF EndVisit
<1> QED
  BY <1>1, <1>5, <1>6 DEF DefInv, AnswersReachCharter

(* Types of what a step leaves alone or ends with. *)
LEMMA QuietTypes ==
  ASSUME DefTypeOK,
         \/ NewMission(TRUE) \/ NewMission(FALSE) \/ Visit \/ Scout \/ PhaseFails
         \/ ParkCharter \/ ActivateCharter \/ EnterDesign \/ WriteDesign \/ EnterPlan
         \/ PlanInvalid \/ PlanCriticized \/ PlanApproved \/ SaveFirstPlan \/ EnterBuild
         \/ ExtensionRefused \/ ExtensionPlanned \/ ReactivateProject \/ MarkRequest \/ Die
  PROVE  DefTypeOK'
<1>1. /\ UNCHANGED <<questions, heard>>
      /\ 1 \in 1 .. PlanRounds /\ 0 \in 0 .. MaxQuestions /\ {} \subseteq Gates
  BY DefinitionConstants
  DEF NewMission, Visit, Scout, PhaseFails, ParkCharter, ActivateCharter, EnterDesign,
      WriteDesign, EnterPlan, PlanInvalid, PlanCriticized, PlanApproved, SaveFirstPlan,
      EnterBuild, ExtensionRefused, ExtensionPlanned, ReactivateProject, MarkRequest, Die,
      onDisk
<1>2. CASE NewMission(TRUE) \/ NewMission(FALSE)
  BY <1>2 DEF NewMission, DefTypeOK
<1>3. CASE Visit
  BY <1>3 DEF Visit, NextPhase, On, DefTypeOK
<1>4. CASE Scout \/ ParkCharter \/ EnterDesign \/ EnterPlan \/ EnterBuild
  BY <1>1, <1>4 DEF Scout, ParkCharter, EnterDesign, EnterPlan, EnterBuild, EndVisit, DefTypeOK
<1>5. CASE ActivateCharter \/ WriteDesign \/ SaveFirstPlan \/ ExtensionPlanned \/ ReactivateProject
  BY <1>5
  DEF ActivateCharter, WriteDesign, SaveFirstPlan, ExtensionPlanned, ReactivateProject, On,
      DefTypeOK
<1>6. CASE PlanApproved \/ ExtensionRefused
  BY <1>6 DEF PlanApproved, ExtensionRefused, On, onDisk, DefTypeOK
<1>7. CASE PlanInvalid \/ PlanCriticized
  <2>1. planRound' \in 1 .. PlanRounds
    BY <1>1, <1>7, DefinitionConstants
    DEF PlanInvalid, PlanCriticized, On, EndVisit, DefTypeOK
  <2>2. visit' \in {visit, "none", "savePlan"} /\ brief' \subseteq Gates /\ toAsk' \in 0 .. MaxQuestions
    BY <1>1, <1>7 DEF PlanInvalid, PlanCriticized, On, EndVisit, DefTypeOK
  <2>3. failures' \in 0 .. MaxFailures
    BY <1>7, DefinitionConstants DEF PlanInvalid, PlanCriticized, Failure, DefTypeOK
  <2>4. UNCHANGED <<external, phase, state, files, questions, requests, deaths, heard>>
    BY <1>7 DEF PlanInvalid, PlanCriticized, onDisk
  <2> QED
    BY <2>1, <2>2, <2>3, <2>4 DEF DefTypeOK
<1>8. CASE PhaseFails \/ Die
  <2>1. failures' \in 0 .. MaxFailures /\ deaths' \in 0 .. MaxDeaths
    BY <1>8, DefinitionConstants DEF PhaseFails, Die, Failure, DefTypeOK
  <2>2. EndVisit /\ UNCHANGED <<external, phase, state, files, questions, requests, heard>>
    BY <1>8 DEF PhaseFails, Die, onDisk
  <2> QED
    BY <1>1, <2>1, <2>2 DEF EndVisit, DefTypeOK
<1>9. CASE MarkRequest
  <2>1. requests' \in [queued : Nat, done : Nat]
    BY <1>9 DEF MarkRequest, DefTypeOK
  <2> QED
    BY <1>1, <1>9, <2>1 DEF MarkRequest, EndVisit, DefTypeOK
<1> QED
  BY <1>2, <1>3, <1>4, <1>5, <1>6, <1>7, <1>8, <1>9

(* Everything but the charter's own steps and the user's answers. *)
LEMMA QuietSteps ==
  ASSUME DefInv,
         \/ NewMission(TRUE) \/ NewMission(FALSE) \/ Visit \/ Scout \/ PhaseFails
         \/ ParkCharter \/ ActivateCharter \/ EnterDesign \/ WriteDesign \/ EnterPlan
         \/ PlanInvalid \/ PlanCriticized \/ PlanApproved \/ SaveFirstPlan \/ EnterBuild
         \/ ExtensionRefused \/ ExtensionPlanned \/ ReactivateProject \/ MarkRequest \/ Die
  PROVE  DefInv'
<1>1. DefTypeOK'
  BY QuietTypes DEF DefInv
<1>2. UNCHANGED <<questions, heard>>
  BY DEF NewMission, Visit, Scout, PhaseFails, ParkCharter, ActivateCharter, EnterDesign,
         WriteDesign, EnterPlan, PlanInvalid, PlanCriticized, PlanApproved, SaveFirstPlan,
         EnterBuild, ExtensionRefused, ExtensionPlanned, ReactivateProject, MarkRequest, Die,
         onDisk
<1>3. EndVisit \/ (visit' \notin {"charter", "consume", "ask"} /\ toAsk' = toAsk)
  <2>1. CASE Visit
    BY <2>1 DEF Visit, On, NextPhase
  <2>2. CASE PlanInvalid \/ PlanCriticized
    BY <2>2 DEF PlanInvalid, PlanCriticized, On, EndVisit
  <2> QED
    BY <2>1, <2>2
    DEF NewMission, Scout, PhaseFails, ParkCharter, ActivateCharter, EnterDesign,
        WriteDesign, EnterPlan, PlanApproved, SaveFirstPlan, EnterBuild,
        ExtensionRefused, ExtensionPlanned, ReactivateProject, MarkRequest, Die, On
<1> QED
  BY <1>1, <1>2, <1>3, OnlyMoves

(* The answers at hand are read into the brief of the charter: all that are *)
(* there, and no other.                                                     *)
LEMMA ReadAnswersKeeps ==
  ASSUME DefInv, ReadAnswers
  PROVE  DefInv'
<1>1. UNCHANGED <<questions, heard, toAsk>> /\ visit' = "charter"
  BY DEF ReadAnswers, onDisk
<1>2. In("none")' = In("none") /\ In("answered")' = In("answered")
      /\ In("consumed")' = In("consumed")
  BY <1>1 DEF In
<1>3. brief' = In("answered") /\ brief' \subseteq Gates
  BY DEF ReadAnswers, In
<1>4. DefTypeOK'
  BY <1>3 DEF ReadAnswers, onDisk, DefInv, DefTypeOK
<1> QED
  BY <1>1, <1>2, <1>3, <1>4 DEF DefInv, Asked, AnswersReachCharter

(* What the charter may ask is set aside here. *)
LEMMA WriteCharterKeeps ==
  ASSUME DefInv, NEW blocking \in 0 .. MaxQuestions, WriteCharter(blocking)
  PROVE  DefInv'
<1>1. UNCHANGED <<questions, brief>> /\ visit' = "consume" /\ heard' = heard \cup brief
  BY DEF WriteCharter
<1>2. In("none")' = In("none") /\ In("answered")' = In("answered")
      /\ In("consumed")' = In("consumed")
  BY <1>1 DEF In
<1>3. toAsk' \in 0 .. MaxQuestions /\ toAsk' <= BudgetLeft
  BY BudgetLeftFits, DefinitionConstants DEF WriteCharter
<1>4. Cardinality(Asked) \in Nat /\ Asked' = Asked
  BY <1>2, GatesFinite DEF Asked
<1>5. toAsk' + Cardinality(Asked') <= Budget
  BY <1>3, <1>4, BudgetLeftFits, DefinitionConstants
<1>6. DefTypeOK'
  BY <1>1, <1>3 DEF WriteCharter, DefInv, DefTypeOK
<1> QED
  BY <1>1, <1>2, <1>5, <1>6 DEF WriteCharter, DefInv, AnswersReachCharter

(* Only answers of the brief are marked, and the charter has heard them. *)
LEMMA ConsumeAnswersKeeps ==
  ASSUME DefInv, ConsumeAnswers
  PROVE  DefInv'
<1>1. brief \subseteq In("answered") /\ brief \subseteq heard
  BY DEF ConsumeAnswers, DefInv
<1>2. questions' = [g \in Gates |-> IF g \in brief THEN "consumed" ELSE questions[g]]
  BY DEF ConsumeAnswers, Consumed
<1>3. In("none")' = In("none")
  BY <1>1, <1>2 DEF In
<1>4. In("consumed")' \subseteq In("consumed") \cup brief
  BY <1>2 DEF In
<1>5. UNCHANGED <<toAsk, brief, heard>> /\ visit' = IF toAsk > 0 THEN "ask" ELSE "activate"
  BY DEF ConsumeAnswers, On
<1>6. questions' \in [Gates -> {"none", "open", "answered", "consumed"}]
  BY <1>2 DEF DefInv, DefTypeOK
<1>7. DefTypeOK'
  BY <1>5, <1>6 DEF ConsumeAnswers, On, DefInv, DefTypeOK
<1> QED
  BY <1>1, <1>3, <1>4, <1>5, <1>7 DEF DefInv, Asked, AnswersReachCharter

(* One of those set aside is asked. *)
LEMMA AskQuestionKeeps ==
  ASSUME DefInv, AskQuestion
  PROVE  DefInv'
<1> DEFINE g == CHOOSE g \in In("none") : TRUE
<1>1. g \in In("none") /\ g \in Gates /\ questions[g] = "none"
  BY DEF AskQuestion, In
<1>2. questions' = [questions EXCEPT ![g] = "open"]
  BY DEF AskQuestion
<1> HIDE DEF g
<1>3. questions' \in [Gates -> {"none", "open", "answered", "consumed"}]
  BY <1>1, <1>2 DEF DefInv, DefTypeOK
<1>4. Asked' = Asked \cup {g} /\ g \notin Asked
  BY <1>1, <1>2 DEF Asked, In, DefInv, DefTypeOK
<1>5. In("consumed")' = In("consumed")
  BY <1>1, <1>2 DEF In, DefInv, DefTypeOK
<1>6. Cardinality(Asked') = Cardinality(Asked) + 1 /\ Cardinality(Asked) \in Nat
  <2>1. IsFiniteSet(Asked) /\ Cardinality(Asked) \in Nat
    BY GatesFinite DEF Asked
  <2> QED
    BY <1>4, <2>1, FS_AddElement
<1>7. toAsk > 0 /\ toAsk \in 0 .. MaxQuestions /\ toAsk' = toAsk - 1
  BY DEF AskQuestion, DefInv, DefTypeOK
<1>8. toAsk' + Cardinality(Asked') <= Budget
  BY <1>6, <1>7, DefinitionConstants DEF DefInv
<1>9. visit' = IF toAsk = 1 THEN "park" ELSE "ask"
  BY DEF AskQuestion
<1>10. DefTypeOK'
  BY <1>3, <1>7, <1>9, DefinitionConstants DEF AskQuestion, DefInv, DefTypeOK
<1>11. visit' = "ask" => toAsk' > 0
  BY <1>7, <1>9, DefinitionConstants
<1>12. UNCHANGED heard
  BY DEF AskQuestion
<1> QED
  BY <1>5, <1>8, <1>9, <1>10, <1>11, <1>12 DEF DefInv, AnswersReachCharter

(* The user's answer adds to the answers, at whatever moment. *)
LEMMA AnswerQuestionKeeps ==
  ASSUME DefInv, NEW g \in Gates, AnswerQuestion(g)
  PROVE  DefInv'
<1>1. questions' = [questions EXCEPT ![g] = "answered"] /\ questions[g] = "open"
  BY DEF AnswerQuestion
<1>2. questions' \in [Gates -> {"none", "open", "answered", "consumed"}]
  BY <1>1 DEF DefInv, DefTypeOK
<1>3. /\ In("none")' = In("none") /\ In("answered") \subseteq In("answered")'
      /\ In("consumed")' = In("consumed")
  BY <1>1 DEF In, DefInv, DefTypeOK
<1>4. UNCHANGED <<visit, brief, toAsk, heard>>
  BY DEF AnswerQuestion, atHand
<1>5. DefTypeOK'
  BY <1>2 DEF AnswerQuestion, atHand, DefInv, DefTypeOK
<1> QED
  BY <1>3, <1>4, <1>5 DEF DefInv, Asked, AnswersReachCharter

(* A request that is queued wakes the project and disturbs no visit.        *)
LEMMA QueueChangeKeeps ==
  ASSUME DefInv, QueueChange
  PROVE  DefInv'
<1>1. UNCHANGED <<external, phase, files, questions, visit, brief, toAsk, planRound,
                  failures, deaths, heard>>
  BY DEF QueueChange, atHand
<1>2. requests' \in [queued : Nat, done : Nat]
  BY DEF QueueChange, DefInv, DefTypeOK
<1>3. DefTypeOK'
  BY <1>1, <1>2 DEF QueueChange, DefInv, DefTypeOK
<1>4. In("none")' = In("none") /\ In("answered")' = In("answered")
      /\ In("consumed")' = In("consumed")
  BY <1>1 DEF In
<1> QED
  BY <1>1, <1>3, <1>4 DEF DefInv, Asked, AnswersReachCharter

(* Nothing is asked before the first visit.                                 *)
LEMMA DefStart == DefInit => DefInv
<1> SUFFICES ASSUME DefInit PROVE DefInv
  OBVIOUS
<1>1. DefTypeOK
  <2>1. /\ 0 \in 0 .. MaxQuestions /\ 1 \in 1 .. PlanRounds
        /\ 0 \in 0 .. MaxFailures /\ 0 \in 0 .. MaxDeaths
    BY DefinitionConstants
  <2> QED
    BY <2>1 DEF DefInit, DefTypeOK
<1>2. Asked = {} /\ In("consumed") = {}
  BY DEF DefInit, Asked, In
<1>3. toAsk = 0 /\ visit = "new"
  BY DEF DefInit
<1> QED
  BY <1>1, <1>2, <1>3, FS_EmptySet, DefinitionConstants DEF DefInv, AnswersReachCharter

(* Every step of a visit, a kill included, keeps it.                        *)
LEMMA DefKept == DefInv /\ [DefNext]_defVars => DefInv'
<1> SUFFICES ASSUME DefInv, [DefNext]_defVars PROVE DefInv'
  OBVIOUS
<1>1. CASE DefStep \/ Die
  BY <1>1, QuietSteps, ReadAnswersKeeps, WriteCharterKeeps, ConsumeAnswersKeeps, AskQuestionKeeps
  DEF DefStep
<1>2. CASE \E g \in Gates : AnswerQuestion(g)
  BY <1>2, AnswerQuestionKeeps
<1>3. CASE QueueChange
  BY <1>3, QueueChangeKeeps
<1>4. CASE UNCHANGED defVars
  BY <1>4 DEF defVars, onDisk, atHand, DefInv, DefTypeOK, Asked, In, AnswersReachCharter
<1> QED
  BY <1>1, <1>2, <1>3, <1>4 DEF DefNext

-----------------------------------------------------------------------------
(* Whatever the models answer and whenever the process dies, everything is  *)
(* of its type and what is asked and set aside fits the budget.             *)
THEOREM DefinitionCorrect == DefSpec => []DefInv
BY DefStart, DefKept, PTL DEF DefSpec

(* The documents, the questions and the visit of a project that is being    *)
(* defined stay of their types (phases.py:110-540).                         *)
THEOREM DefTypesKept == DefSpec => []DefTypeOK
<1>1. DefInv => DefTypeOK
  BY DEF DefInv
<1> QED
  BY <1>1, DefinitionCorrect, PTL

(* The charterer opens no more questions than its budget, over revisions,   *)
(* answers and kills.                                                       *)
THEOREM QuestionsWithinBudget == DefSpec => []QuestionBudget
<1>1. DefInv => QuestionBudget
  <2> SUFFICES ASSUME DefInv PROVE QuestionBudget
    OBVIOUS
  <2>1. Cardinality(Asked) \in Nat /\ toAsk \in Nat
    BY GatesFinite, DefinitionConstants DEF Asked, DefInv, DefTypeOK
  <2> QED
    BY <2>1, DefinitionConstants DEF DefInv, QuestionBudget, Asked
<1> QED
  BY <1>1, DefinitionCorrect, PTL

(* A consumed answer is in a charter that is on disk. *)
THEOREM AnswersAreHeard == DefSpec => []AnswersReachCharter
<1>1. DefInv => AnswersReachCharter
  BY DEF DefInv
<1> QED
  BY <1>1, DefinitionCorrect, PTL

=============================================================================
