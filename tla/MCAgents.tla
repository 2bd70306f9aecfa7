------------------------------ MODULE MCAgents -------------------------------
(***************************************************************************)
(* What an agent works with - its tool loop, its calls of a model, the     *)
(* index it looks things up in and the questions it asks - in one run.     *)
(* The components share no state: the first state chooses the one that     *)
(* moves, so that the state space is the sum of theirs.                    *)
(***************************************************************************)
EXTENDS ToolLoop, ModelCall, CodeIndex, QuestionBook

VARIABLE part  \* the component that moves

AgentsParts == {"loop", "call", "index", "questions"}
agentsVars  == <<part, loopVars, callVars, indexVars, bookVars>>

AgentsInit ==
  /\ part \in AgentsParts
  /\ LoopInit /\ CallInit
  /\ IndexInit /\ BookInit

(* Only one component moves.                                                 *)
LoopPart ==
  /\ part = "loop" /\ LoopNext
  /\ UNCHANGED <<part, callVars, indexVars, bookVars>>
CallPart ==
  /\ part = "call" /\ CallNext
  /\ UNCHANGED <<part, loopVars, indexVars, bookVars>>
IndexPart ==
  /\ part = "index" /\ IndexNext
  /\ UNCHANGED <<part, loopVars, callVars, bookVars>>
BookPart ==
  /\ part = "questions" /\ BookNext
  /\ UNCHANGED <<part, loopVars, callVars, indexVars>>

AgentsNext ==
  \/ LoopPart \/ CallPart \/ IndexPart
  \/ BookPart

AgentsSpec == AgentsInit /\ [][AgentsNext]_agentsVars

(* Every component, what it keeps on disk and what it has in hand, is of    *)
(* its type.                                                                *)
AgentsTypeOK ==
  /\ part \in AgentsParts
  /\ LoopTypeOK /\ CallTypeOK
  /\ IndexTypeOK /\ BookTypeOK

==============================================================================
