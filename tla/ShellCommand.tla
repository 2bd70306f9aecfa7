----------------------------- MODULE ShellCommand -----------------------------
(***************************************************************************)
(* Verification: the declared commands run one by one, each as bash in a   *)
(* process group of its own whose output two reader threads drain          *)
(* (toolbox/shell.py, toolbox/testing.py).  What a command does is the     *)
(* environment: it starts helpers that keep its pipes open, in its group   *)
(* or, after a setsid, outside of it.                                      *)
(***************************************************************************)
EXTENDS Naturals

CONSTANTS
  Helpers,     \* bound: processes a command may leave behind
  MaxCommands  \* bound: verify_commands of an item

ASSUME ShellConstants == MaxCommands \in Nat \ {0}

VARIABLES
  step,      \* where the caller is
  left,      \* commands still to run, the current one included
  green,     \* report.passed
  timedOut,  \* timed_out of the current command
  bash,      \* its shell: "none", "running", or how it exited: "ok", "failed"
  homes,     \* each helper: "none", in the "group" or "away"
  holds      \* the pipes each helper has open

world     == <<bash, homes, holds>>
shellVars == <<step, left, green, timedOut, world>>

Pipes == {"out", "err"}
Alive(h) == homes[h] # "none"

ShellTypeOK ==
  /\ step \in {"idle", "start", "wait", "grace", "drain", "over"}
  /\ left \in 0 .. MaxCommands /\ green \in BOOLEAN /\ timedOut \in BOOLEAN
  /\ bash \in {"none", "running", "ok", "failed"}
  /\ homes \in [Helpers -> {"none", "group", "away"}]
  /\ holds \in [Helpers -> SUBSET Pipes]
  /\ \A h \in Helpers : ~Alive(h) => holds[h] = {}
  /\ step = "drain" => bash # "running" /\ \A h \in Helpers : homes[h] # "group"

ShellInit ==
  /\ step = "idle" /\ left = 0 /\ green = TRUE /\ timedOut = FALSE
  /\ bash = "none" /\ homes = [h \in Helpers |-> "none"] /\ holds = [h \in Helpers |-> {}]

-----------------------------------------------------------------------------
(* The item's commands; with none, the command the workroom's files         *)
(* suggest; and with none of those, a report that failed.                   *)
BeginVerification(declared, detected) ==
  /\ step = "idle"
  /\ left' = IF declared = 0 /\ detected THEN 1 ELSE declared
  /\ IF left' = 0 THEN step' = "over" /\ green' = FALSE
                  ELSE step' = "start" /\ UNCHANGED green
  /\ UNCHANGED <<timedOut, world>>

(* The exit code goes into the report.  A failure is the last: `later       *)
(* commands usually depend on earlier ones'.                                *)
Reported(ok) ==
  /\ green' = ok
  /\ left' = left - 1
  /\ step' = IF ok /\ left > 1 THEN "start" ELSE "over"

DenyCommand ==
  /\ step = "start"
  /\ Reported(FALSE)
  /\ UNCHANGED <<timedOut, world>>

StartCommand ==
  /\ step = "start"
  /\ step' = "wait" /\ timedOut' = FALSE /\ bash' = "running"
  /\ UNCHANGED <<left, green, homes, holds>>

(* proc.wait returns, or its time is up although the shell may still exit.  *)
WaitOver(late) ==
  /\ step = "wait" /\ (late \/ bash # "running")
  /\ step' = "grace" /\ timedOut' = late
  /\ UNCHANGED <<left, green, world>>

(* After the grace, the group is killed.  A slip: only the shell is.        *)
KilledOnly(h) == FALSE
Killed(h) == homes[h] = "group"

KillGroup ==
  /\ step = "grace"
  /\ step' = "drain"
  /\ bash' = IF bash = "running" THEN "failed" ELSE bash
  /\ homes' = [h \in Helpers |-> IF Killed(h) THEN "none" ELSE homes[h]]
  /\ holds' = [h \in Helpers |-> IF Killed(h) THEN {} ELSE holds[h]]
  /\ UNCHANGED <<left, green, timedOut>>

(* The readers are joined, without a timeout: each ends when nobody has its *)
(* pipe open.                                                               *)
Drained == \A h \in Helpers : holds[h] = {}
CollectResult ==
  /\ step = "drain" /\ Drained
  /\ Reported(bash = "ok" /\ ~timedOut)
  /\ bash' = "none"
  /\ UNCHANGED <<timedOut, homes, holds>>

-----------------------------------------------------------------------------
(* What the command does, external.                                         *)
StartHelper(h, open) ==
  /\ bash = "running" /\ ~Alive(h)
  /\ homes' = [homes EXCEPT ![h] = "group"] /\ holds' = [holds EXCEPT ![h] = open]
  /\ UNCHANGED <<step, left, green, timedOut, bash>>

LeaveGroup(h) ==
  /\ homes[h] = "group"
  /\ homes' = [homes EXCEPT ![h] = "away"]
  /\ UNCHANGED <<step, left, green, timedOut, bash, holds>>

EndHelper(h) ==
  /\ Alive(h)
  /\ homes' = [homes EXCEPT ![h] = "none"] /\ holds' = [holds EXCEPT ![h] = {}]
  /\ UNCHANGED <<step, left, green, timedOut, bash>>

ExitShell(code) ==
  /\ bash = "running"
  /\ bash' = code
  /\ UNCHANGED <<step, left, green, timedOut, homes, holds>>

ShellStep ==
  \/ DenyCommand \/ StartCommand \/ KillGroup \/ CollectResult
  \/ \E late \in BOOLEAN : WaitOver(late)

ShellNext ==
  \/ ShellStep
  \/ \E n \in 0 .. MaxCommands, detected \in BOOLEAN : BeginVerification(n, detected)
  \/ \E h \in Helpers, open \in SUBSET Pipes : StartHelper(h, open)
  \/ \E h \in Helpers : LeaveGroup(h) \/ EndHelper(h)
  \/ \E code \in {"ok", "failed"} : ExitShell(code)

(* The caller runs; of the command nothing is assumed.                      *)
ShellSpec == ShellInit /\ [][ShellNext]_shellVars /\ WF_shellVars(ShellStep)

-----------------------------------------------------------------------------
(* A verification ends whatever its commands do, `once bash exits (or times *)
(* out) the group is killed, which guarantees the readers reach EOF'        *)
(* (shell.py:149-150): the one thing that can hold it for ever is a process *)
(* that left the group with a pipe open, and then it does, for no join has  *)
(* a timeout.                                                               *)
Stray(h) == homes[h] = "away" /\ holds[h] # {}
VerificationEnds ==
  (step = "start") ~> (step = "over" \/ [](\E h \in Helpers : Stray(h)))

=============================================================================
