------------------------------ MODULE ToolLoop ------------------------------
(***************************************************************************)
(* One attempt of an agent: ToolLoop.run of agents/runtime.py, the tools   *)
(* that end it (agents/toolbox/control.py), and the compaction of its      *)
(* conversation.  A turn is one reply of the model and what came of it.    *)
(*                                                                         *)
(* The loop decides with counters it updates turn by turn; the properties  *)
(* decide from `log`, a history of all turns.  BuildPhase has the outcome  *)
(* of an attempt as a choice.                                              *)
(***************************************************************************)
EXTENDS Integers, SequencesExt

CONSTANTS
  MaxTurns,    \* max_turns, the base budget
  StallTurns,  \* config.run.stall_turns
  KeepTail,    \* keep_tail of _compact
  FewTurns,    \* keep_tail + 2: so many turns are not worth compacting
  Outputs      \* what a command may print

ASSUME LoopConstants ==
  /\ MaxTurns \in Nat \ {0} /\ StallTurns \in Nat /\ KeepTail \in Nat \ {0}
  /\ FewTurns \in Nat /\ FewTurns >= KeepTail
  /\ "" \notin Outputs

VARIABLES
  outcome,        \* "running", or how the attempt ended
  turns,          \* the turns in the conversation, by number
  summary,        \* the turns of which the progress summary has something
  formatErrors,   \* consecutive_format_errors
  repeats,        \* repeat_count
  lastSignature,  \* last_signature
  seen,           \* seen_signatures
  lastProductive, \* last_productive
  lastProbe,      \* last_probe_output
  log,            \* history: every turn
  told            \* history: the turns left it was told of at each turn

counters == <<formatErrors, repeats, lastSignature, seen, lastProductive, lastProbe>>
loopVars == <<outcome, turns, summary, counters, log, told>>

HardCap     == 2 * MaxTurns
StallWindow == IF StallTurns > 4 THEN StallTurns ELSE 4

(* A reply without one good ACTION line is "broken"; a "ghost" names a tool *)
(* there is not; "edit" stands for the tools that are not commands, with    *)
(* the same arguments each time; "probe" is a command, run or run_tests.    *)
Replies ==
  [tool : {"broken", "ghost"}, ok : {FALSE}, output : {""}]
  \cup [tool : {"edit"}, ok : BOOLEAN, output : {""}]
  \cup [tool : {"probe"}, ok : {TRUE}, output : Outputs]
Endings == {"finished", "blocked_on_user"}
Cuts    == {"malformed", "repeated", "stalled", "ceiling", "exhausted"}
Known(reply) == reply.tool \in {"edit", "probe"}

TurnNo == Len(log) + 1

LoopTypeOK ==
  /\ outcome \in {"running", "error"} \cup Endings \cup Cuts
  /\ log \in Seq(Replies) /\ Len(log) <= HardCap
  /\ told \in Seq(0 .. HardCap) /\ Len(told) = Len(log)
  /\ turns \in Seq(1 .. HardCap) /\ summary \subseteq 1 .. HardCap
  /\ formatErrors \in 0 .. 3 /\ repeats \in 0 .. HardCap
  /\ lastSignature \in {"", "ghost", "edit", "probe"}
  /\ seen \subseteq {"edit", "probe"}
  /\ lastProductive \in 0 .. HardCap /\ lastProbe \in Outputs \cup {""}

LoopInit ==
  /\ outcome = "running" /\ turns = << >> /\ summary = {}
  /\ formatErrors = 0 /\ repeats = 0 /\ lastSignature = "" /\ seen = {}
  /\ lastProductive = 0 /\ lastProbe = ""
  /\ log = << >> /\ told = << >>

-----------------------------------------------------------------------------
(* turns_left, and the recitation that tells it: the reminder rides on the  *)
(* last observation, so the first turn has none.                            *)
(* A slip: only the ceiling counts.                                         *)
TurnsLeftToCeiling == HardCap - TurnNo + 1
TurnsLeft ==
  LET deadline == IF lastProductive + StallWindow < HardCap
                  THEN lastProductive + StallWindow ELSE HardCap
  IN  IF deadline - TurnNo + 1 > 1 THEN deadline - TurnNo + 1 ELSE 1
Recited == IF turns = << >> THEN 0 ELSE TurnsLeft

(* A turn is over: it joins the conversation.  The last one of the budget   *)
(* ends the attempt if nothing else does.                                   *)
Record(reply) ==
  /\ log' = Append(log, reply) /\ told' = Append(told, Recited)
OutOfTurns(lp) ==
  IF TurnNo < HardCap THEN "running"
  ELSE IF HardCap - lp < StallWindow THEN "ceiling" ELSE "exhausted"

MalformedReply(reply) ==
  /\ outcome = "running" /\ reply.tool = "broken"
  /\ formatErrors' = formatErrors + 1
  /\ outcome' = IF formatErrors' >= 3 THEN "malformed" ELSE OutOfTurns(lastProductive)
  /\ turns' = Append(turns, TurnNo) /\ Record(reply)
  /\ UNCHANGED <<summary, repeats, lastSignature, seen, lastProductive, lastProbe>>

(* signature, repeat_count                                                  *)
Compare(reply) ==
  /\ lastSignature' = reply.tool
  /\ repeats' = IF reply.tool = lastSignature THEN repeats + 1 ELSE 0

UnknownTool(reply) ==
  /\ outcome = "running" /\ reply.tool = "ghost"
  /\ formatErrors' = 0 /\ Compare(reply)
  /\ outcome' = OutOfTurns(lastProductive)
  /\ turns' = Append(turns, TurnNo) /\ Record(reply)
  /\ UNCHANGED <<summary, seen, lastProductive, lastProbe>>

(* New ground: a successful action not executed before, or a command whose  *)
(* output is not that of the command before it.                             *)
(* A slip: any successful action.                                           *)
NewGroundWhenOk(reply) == reply.ok
NewGround(reply) ==
  \/ reply.ok /\ reply.tool \notin seen
  \/ reply.tool = "probe" /\ reply.output # lastProbe

(* _compact: all but the tail goes into the summary, with the summary there *)
(* was.  summarize cuts the middle out of a text that is too long, and out  *)
(* of a shorter one when the model fails or says nothing: the turns between *)
(* the first and the last of the text may be gone.                          *)
(* A slip: without the summary there was.                                   *)
Foldings(all) ==
  LET between == {i \in all : \E l, m \in all : l < i /\ i < m}
  IN  {all} \cup {all \ (a .. b) : a, b \in between}
Recent(kept) == SubSeq(kept, Len(kept) - KeepTail + 1, Len(kept))
Older(kept) == ToSet(SubSeq(kept, 1, Len(kept) - KeepTail))
CompactedAfresh(kept) ==
  IF Len(kept) <= FewTurns THEN {[turns |-> kept, summary |-> summary]}
  ELSE [turns : {Recent(kept)}, summary : Foldings(Older(kept))]
Compacted(kept) ==
  IF Len(kept) <= FewTurns THEN {[turns |-> kept, summary |-> summary]}
  ELSE [turns : {Recent(kept)}, summary : Foldings(summary \cup Older(kept))]

(* A turn with a tool; when it does not end the attempt and the             *)
(* conversation is near the window of the model, it is compacted.           *)
ToolTurn(reply, nearWindow) ==
  /\ outcome = "running" /\ Known(reply)
  /\ formatErrors' = 0 /\ Compare(reply)
  /\ seen' = seen \cup {reply.tool}
  /\ lastProductive' = IF NewGround(reply) THEN TurnNo ELSE lastProductive
  /\ lastProbe' = IF reply.tool = "probe" THEN reply.output ELSE lastProbe
  /\ outcome' = IF repeats' >= 2 THEN "repeated"
                ELSE IF TurnNo - lastProductive' >= StallWindow THEN "stalled"
                ELSE OutOfTurns(lastProductive')
  /\ LET kept == Append(turns, TurnNo) IN
     IF nearWindow /\ outcome' \notin {"repeated", "stalled"}
     THEN \E c \in Compacted(kept) : turns' = c.turns /\ summary' = c.summary
     ELSE turns' = kept /\ UNCHANGED summary
  /\ Record(reply)

(* finish with a note and a status, done or failed, or ask_user with a      *)
(* question.  It is a turn like others, but nothing looks at it any more.   *)
EndAttempt(status) ==
  /\ outcome = "running"
  /\ outcome' = status
  /\ UNCHANGED <<turns, summary, counters, log, told>>

(* client.chat raises.                                                      *)
CallFails ==
  /\ outcome = "running"
  /\ outcome' = "error"
  /\ UNCHANGED <<turns, summary, counters, log, told>>

LoopNext ==
  \/ \E reply \in Replies :
       \/ MalformedReply(reply) \/ UnknownTool(reply)
       \/ \E nearWindow \in BOOLEAN : ToolTurn(reply, nearWindow)
  \/ \E status \in Endings : EndAttempt(status)
  \/ CallFails

LoopSpec == LoopInit /\ [][LoopNext]_loopVars

-----------------------------------------------------------------------------
(* New ground from the whole log, as runtime.py:209-211 defines it: a        *)
(* `successful action not executed before` or a `re-run command whose       *)
(* output changed`.                                                         *)
LastOf(set) == CHOOSE i \in set : \A j \in set : j <= i
Breaks(i) ==
  /\ Known(log[i])
  /\ \/ log[i].ok /\ \A j \in 1 .. i - 1 : log[j].tool # log[i].tool
     \/ /\ log[i].tool = "probe"
        /\ LET earlier == {j \in 1 .. i - 1 : log[j].tool = "probe"}
           IN  earlier # {} => log[LastOf(earlier)].output # log[i].output
Ground(n) == {0} \cup {i \in 1 .. n : Breaks(i)}
Producing(n) == \E i \in Ground(n) : n - i < StallWindow

(* runtime.py:207-209: `an agent that keeps producing earns extension up to *)
(* a hard ceiling, while one that stalls is cut`.  Who is sent away for     *)
(* want of progress made none in the whole window, who is told that the     *)
(* item is too big (which goes to triage, phases.py:1333) made some up to   *)
(* the ceiling, and no attempt goes on past a turn that ran a tool without. *)
(* Outside of it are the turns without a tool, which nothing holds against  *)
(* an attempt but the ceiling, and the cuts for three malformed replies or  *)
(* for the same action three times, which ask for no progress.              *)
ExtensionIsEarned ==
  LET n == Len(log) IN
  /\ outcome \in {"stalled", "exhausted"} => ~Producing(n)
  /\ outcome = "ceiling" => Producing(n) /\ n = HardCap
  /\ \A i \in 1 .. n :
       (i < n \/ outcome = "running") /\ Known(log[i]) => Producing(i)

(* Compaction folds none of the latest turns, and what it folds is before   *)
(* them (runtime.py:460-481): no turn is in the conversation twice, or in   *)
(* it and in the summary.  A summary made of another has something of the   *)
(* first turn and of the last that was folded, whatever summarize cuts or   *)
(* the model fails (summarizer.py:80-90); turns between them may be lost.   *)
CompactionKeepsEnds ==
  LET n == Len(log)
      folded == n - Len(turns)
  IN
  /\ turns = [i \in 1 .. Len(turns) |-> folded + i]
  /\ Len(turns) >= IF n < KeepTail THEN n ELSE KeepTail
  /\ summary \subseteq 1 .. folded
  /\ folded > 0 => {1, folded} \subseteq summary

(* `The honest deadline` (runtime.py:220-222): an attempt that is cut for   *)
(* want of progress or of turns was never promised more turns than it got,  *)
(* and was told in its last turn that it was the last.                      *)
DeadlineIsHonest ==
  outcome \in {"stalled", "ceiling", "exhausted"} =>
    LET n == Len(log) IN
    /\ \A t \in 1 .. n : told[t] <= n - t + 1
    /\ told[n] = 1

=============================================================================
