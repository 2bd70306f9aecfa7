----------------------------- MODULE QuestionBook -----------------------------
(***************************************************************************)
(* gates.jsonl: the questions of a project as a log of records that is     *)
(* only appended to (gates.py, fsio.py), with the terminals that answer    *)
(* from it (`orc answer`, prompt_gates of interactive.py) and the          *)
(* integration that dismisses from it.  Who reads does not lock; whoever   *)
(* answers reads first and appends later.  A writer killed in an append    *)
(* leaves a line without its end.                                          *)
(***************************************************************************)
EXTENDS Naturals, SequencesExt

CONSTANTS
  Questions,  \* bound: the gates that are ever opened
  Terminals,  \* processes that answer or dismiss
  Words,      \* what the user may answer
  MaxLines,   \* bound: lines of the log
  MaxTears    \* bound: writers killed in an append

ASSUME BookConstants == MaxLines \in Nat /\ MaxTears \in Nat

VARIABLES
  lines,      \* the log
  desk,       \* what each terminal is in the middle of
  tears,
  accepted,   \* history: answers that were confirmed to the user
  contested,  \* history: gates that two terminals settled at once
  swallowed   \* history: completed records nobody can read

bookVars == <<lines, desk, tears, accepted, contested, swallowed>>

(* The end of a line: a whole line, with its newline; junk and garbled      *)
(* text, which have one too; a part of a record; a record without newline;  *)
(* a part that ends inside a character of several bytes.  Garbled is a line *)
(* that was torn so and went on with the next record.                       *)
Ended   == {"whole", "junk", "garbled"}
Ends    == Ended \cup {"part", "unended", "split"}
Records == [rec : {"opened", "answered", "dismissed"}, gate : Questions, word : Words \cup {""}]
Lines   == [of : Records, end : Ends]

Nobody == [doing |-> "nothing", gate |-> "", word |-> ""]
Desks  == [doing : {"asking", "answering", "dismissing"}, gate : Questions,
           word : Words \cup {""}] \cup {Nobody}

BookTypeOK ==
  /\ lines \in Seq(Lines) /\ Len(lines) <= MaxLines
  /\ desk \in [Terminals -> Desks]
  /\ tears \in 0 .. MaxTears /\ swallowed \in 0 .. MaxTears
  /\ accepted \subseteq Questions \X Words /\ contested \subseteq Questions

BookInit ==
  /\ lines = << >> /\ desk = [t \in Terminals |-> Nobody]
  /\ tears = 0 /\ accepted = {} /\ contested = {} /\ swallowed = 0

-----------------------------------------------------------------------------
(* iter_jsonl.  A line that cannot be parsed is skipped; but bytes that are *)
(* no text raise UnicodeDecodeError, for the whole file.                    *)
Decodable == \A i \in DOMAIN lines : lines[i].end \notin {"split", "garbled"}
(* A slip: reading stops at the first bad line.                             *)
ReadableBefore(i) == \A j \in 1 .. i : lines[j].end \in {"whole", "unended"}
Readable(i) == lines[i].end \in {"whole", "unended"}

(* _fold.                                                                   *)
Opened(g) == {i \in DOMAIN lines : Readable(i) /\ lines[i].of.rec = "opened" /\ lines[i].of.gate = g}
Closing(g) ==
  {i \in DOMAIN lines :
     /\ Readable(i) /\ lines[i].of.rec # "opened" /\ lines[i].of.gate = g
     /\ \E j \in Opened(g) : j < i}
IsOpen(g) == Opened(g) # {} /\ Closing(g) = {}
LastRecord(g) == lines[CHOOSE i \in Closing(g) : \A j \in Closing(g) : j <= i].of

(* append_jsonl, under its lock: behind a line without an end the record    *)
(* becomes part of that line.                                               *)
Unended == lines # << >> /\ Last(lines).end \notin Ended
Ending(e) == lines' = Front(lines) \o <<[Last(lines) EXCEPT !.end = e]>>
AppendLine(r) ==
  IF Unended
  THEN /\ Ending(IF Last(lines).end = "split" THEN "garbled" ELSE "junk")
       /\ swallowed' = swallowed + 1
  ELSE /\ Len(lines) < MaxLines
       /\ lines' = Append(lines, [of |-> r, end |-> "whole"])
       /\ UNCHANGED swallowed

TearLine(r) ==
  /\ tears < MaxTears /\ tears' = tears + 1
  /\ IF Unended
     THEN \/ Ending("split")
          \/ Last(lines).end # "split" /\ Ending("part")
     ELSE /\ Len(lines) < MaxLines
          /\ \E e \in {"part", "unended", "split"} : lines' = Append(lines, [of |-> r, end |-> e])
  /\ UNCHANGED swallowed

-----------------------------------------------------------------------------
(* GateBook.open, in an agent's process.                                    *)
Opening(g) == [rec |-> "opened", gate |-> g, word |-> ""]
New(g) == \A i \in DOMAIN lines : lines[i].of # Opening(g)
OpenGate(g) ==
  /\ New(g) /\ AppendLine(Opening(g))
  /\ UNCHANGED <<desk, tears, accepted, contested>>
DieOpening(g) ==
  /\ New(g) /\ TearLine(Opening(g))
  /\ UNCHANGED <<desk, accepted, contested>>

At(t, what, g, w) == desk' = [desk EXCEPT ![t] = [doing |-> what, gate |-> g, word |-> w]]
Away(t) == desk' = [desk EXCEPT ![t] = Nobody]

(* The terminal shows an open question, or the integration takes the open   *)
(* questions of the item that is done.                                      *)
ShowGate(t, g) ==
  /\ desk[t] = Nobody /\ Decodable /\ IsOpen(g)
  /\ At(t, "asking", g, "") \/ At(t, "dismissing", g, "")
  /\ UNCHANGED <<lines, tears, accepted, contested, swallowed>>

(* GateBook.answer reads again: a gate that is no longer open raises, which *)
(* ends the command.                                                        *)
(* A slip: without the check.                                               *)
CheckNothing(t, w) ==
  /\ desk[t].doing = "asking" /\ Decodable
  /\ At(t, "answering", desk[t].gate, w)
  /\ UNCHANGED <<lines, tears, accepted, contested, swallowed>>
CheckGate(t, w) ==
  /\ desk[t].doing = "asking" /\ Decodable
  /\ IF IsOpen(desk[t].gate) THEN At(t, "answering", desk[t].gate, w) ELSE Away(t)
  /\ UNCHANGED <<lines, tears, accepted, contested, swallowed>>

InWindow(t, g) == desk[t].doing \in {"answering", "dismissing"} /\ desk[t].gate = g
Contest(t) ==
  contested' = contested \cup {g \in {desk[t].gate} : \E u \in Terminals \ {t} : InWindow(u, g)}
RecordOf(t) ==
  [rec |-> IF desk[t].doing = "answering" THEN "answered" ELSE "dismissed",
   gate |-> desk[t].gate, word |-> desk[t].word]

(* The record is appended, and an answer confirmed, whatever it was         *)
(* appended to.                                                             *)
SettleGate(t) ==
  /\ desk[t].doing \in {"answering", "dismissing"}
  /\ AppendLine(RecordOf(t)) /\ Contest(t) /\ Away(t)
  /\ accepted' = IF desk[t].doing = "answering"
                 THEN accepted \cup {<<desk[t].gate, desk[t].word>>} ELSE accepted
  /\ UNCHANGED tears

DieSettling(t) ==
  /\ desk[t].doing \in {"answering", "dismissing"}
  /\ TearLine(RecordOf(t)) /\ Contest(t) /\ Away(t)
  /\ UNCHANGED accepted

Quit(t) ==
  /\ desk[t].doing = "asking"
  /\ Away(t)
  /\ UNCHANGED <<lines, tears, accepted, contested, swallowed>>

BookNext ==
  \/ \E g \in Questions : OpenGate(g) \/ DieOpening(g)
  \/ \E t \in Terminals :
       \/ \E g \in Questions : ShowGate(t, g)
       \/ \E w \in Words : CheckGate(t, w)
       \/ SettleGate(t) \/ DieSettling(t) \/ Quit(t)

BookSpec == BookInit /\ [][BookNext]_bookVars

-----------------------------------------------------------------------------
(* A writer killed in an append costs at most one record that was completed *)
(* by somebody else, the next one: fsio.py:89 `a torn line from a crashed   *)
(* writer is skippable noise`.  Only where the kill falls inside a character *)
(* of several bytes (fsio.py:72 writes them as they are) is it the whole    *)
(* log, which nobody can read any more; nothing but a kill does that.       *)
Completed == {i \in DOMAIN lines : lines[i].end = "whole"}
OneLostPerKill ==
  /\ Decodable => swallowed + Cardinality({i \in Completed : ~Readable(i)}) <= tears
  /\ Decodable \/ tears > 0

(* An answer that was confirmed stays the word on its question, whoever     *)
(* asks, dismisses or is killed around it (gates.py:82-92); where two       *)
(* terminals were between their check and their append at once, one of them *)
(* has the last word, and the question stays settled.  What is lost all the *)
(* same is lost to kills: each takes the answers of at most one question    *)
(* because the record went behind a torn line, and of at most one because   *)
(* the question itself was the line without its end.                        *)
Word(pair) == [rec |-> "answered", gate |-> pair[1], word |-> pair[2]]
Stands(pair) ==
  Closing(pair[1]) # {} /\ (pair[1] \in contested \/ LastRecord(pair[1]) = Word(pair))
Lost == {g \in Questions : \E pair \in accepted : pair[1] = g /\ ~Stands(pair)}
Asked(g) == \E i \in Completed : lines[i].of = Opening(g)
AnswerSurvives ==
  Decodable =>
    /\ Cardinality({g \in Lost : Asked(g)}) <= tears
    /\ Cardinality({g \in Lost : ~Asked(g)}) <= tears

=============================================================================
