----------------------------- MODULE MCMissions ------------------------------
(***************************************************************************)
(* What a mission passes through - its definition, the review of its       *)
(* items, the commands that verify them, the prompts - and the memory and  *)
(* the GPU it shares with others, in one run.  As in MCAgents, the first   *)
(* state chooses the component that moves.                                 *)
(***************************************************************************)
EXTENDS ReviewPanel, Definition, MemorySync, GpuTimeline,
        ShellCommand, ContextPacker

VARIABLE part  \* the component that moves

MissionsParts == {"review", "definition", "memory", "gpu", "shell", "pack"}
missionsVars  == <<part, reviewVars, defVars, memoryVars, gpuVars,
               shellVars, packVars>>

MissionsInit ==
  /\ part \in MissionsParts
  /\ ReviewInit /\ DefInit
  /\ MemoryInit /\ GpuInit
  /\ ShellInit /\ PackInit

(* Only one component moves.                                                 *)
ReviewPart ==
  /\ part = "review" /\ ReviewNext
  /\ UNCHANGED <<part, defVars, memoryVars, gpuVars, shellVars, packVars>>
DefPart ==
  /\ part = "definition" /\ DefNext
  /\ UNCHANGED <<part, reviewVars, memoryVars, gpuVars, shellVars, packVars>>
MemoryPart ==
  /\ part = "memory" /\ MemoryNext
  /\ UNCHANGED <<part, reviewVars, defVars, gpuVars, shellVars, packVars>>
GpuPart ==
  /\ part = "gpu" /\ GpuNext
  /\ UNCHANGED <<part, reviewVars, defVars, memoryVars, shellVars, packVars>>
ShellPart ==
  /\ part = "shell" /\ ShellNext
  /\ UNCHANGED <<part, reviewVars, defVars, memoryVars, gpuVars, packVars>>
PackPart ==
  /\ part = "pack" /\ PackNext
  /\ UNCHANGED <<part, reviewVars, defVars, memoryVars, gpuVars, shellVars>>

MissionsNext ==
  \/ ReviewPart \/ DefPart \/ MemoryPart
  \/ GpuPart \/ ShellPart \/ PackPart

(* The fairness each component states of itself, while it is the one that   *)
(* moves.                                                                   *)
MissionsSpec ==
  /\ MissionsInit /\ [][MissionsNext]_missionsVars
  /\ WF_reviewVars(part = "review" /\ ReviewStep)
  /\ WF_defVars(part = "definition" /\ DefStep)
  /\ WF_shellVars(part = "shell" /\ ShellStep)
  /\ WF_packVars(part = "pack" /\ PackStep)
  /\ \A o \in Observers :
       /\ WF_gpuVars(part = "gpu" /\ Observe(o))
       /\ SF_gpuVars(part = "gpu" /\ Enter(o))
  /\ WF_memoryVars(part = "memory" /\ ComeBack)
  /\ \A p \in Sessions :
       /\ WF_memoryVars(part = "memory" /\ MemoryStep(p))
       /\ WF_memoryVars(part = "memory" /\ OpenMemory(p))
       /\ WF_memoryVars(part = "memory" /\ CloseMemory(p))
       /\ SF_memoryVars(part = "memory" /\ StartSync(p))
       /\ SF_memoryVars(part = "memory" /\ SyncSend(p))

(* Every component, what it keeps on disk and what it has in hand, is of    *)
(* its type.                                                                *)
MissionsTypeOK ==
  /\ part \in MissionsParts
  /\ ReviewTypeOK /\ DefTypeOK
  /\ MemoryTypeOK /\ GpuTypeOK
  /\ ShellTypeOK /\ PackTypeOK

==============================================================================
