---------------------------- MODULE ContextPacker ----------------------------
(***************************************************************************)
(* Packing a prompt (llm/budget.py, and the cuts of util.py): the sections *)
(* shrink, most expendable first, then go, then the biggest is clamped     *)
(* until the rest fits.  A text is its length and the cut last made in its *)
(* middle; lengths are characters, sizes are tokens of 3.6 characters.     *)
(***************************************************************************)
EXTENDS Integers, FiniteSets, FiniteSetsExt

CONSTANTS
  Lengths,     \* bound: lengths of a section's text
  Priorities,  \* bound: priorities of a section
  Rooms,       \* bound: budgets less the fixed tokens
  MaxSections  \* bound: sections of a prompt

ASSUME PackerConstants ==
  /\ Lengths \subseteq Nat /\ Priorities \subseteq Nat \ {0}
  /\ Rooms \subseteq Int /\ MaxSections \in Nat \ {0}

Slots  == 1 .. MaxSections
Modes  == {"middle", "tail", "drop"}
Header == 9     \* characters of a header
Least  == 120   \* min_tokens
NoCut  == <<0, 0>>

VARIABLES
  phaseOfPack,  \* "idle", or the loop pack is in
  room,         \* available
  kind,         \* the priority and the mode of each section
  text,         \* its text: length and last cut, <<characters kept, elided>>
  live,         \* the sections in the prompt
  todo          \* those the loop has still to look at

packVars == <<phaseOfPack, room, kind, text, live, todo>>

PackTypeOK ==
  /\ phaseOfPack \in {"idle", "shrink", "drop", "clamp", "done"}
  /\ room \in Rooms \cup {0}
  /\ kind \in [Slots -> [prio : Priorities \cup {1}, mode : Modes]]
  /\ \A s \in Slots : text[s].len \in Nat /\ text[s].cut \in Nat \X Nat
  /\ todo \subseteq Slots /\ live \subseteq Slots

PackInit ==
  /\ phaseOfPack = "idle" /\ room = 0
  /\ kind = [s \in Slots |-> [prio |-> 1, mode |-> "middle"]]
  /\ text = [s \in Slots |-> [len |-> 0, cut |-> NoCut]]
  /\ live = {} /\ todo = {}

-----------------------------------------------------------------------------
Larger(m, n)  == IF m >= n THEN m ELSE n
Chars(tokens) == Larger(200, (tokens * 36) \div 10)
Tokens(chars) == Larger(1, (chars * 10) \div 36)
SizeOf(s)     == Tokens(Header + text[s].len)
Total         == MapThenSumSet(SizeOf, live)
Over          == Total - room

(* truncate_middle and truncate_tail: a mark with the number of characters  *)
(* left out takes their place, and may be longer than they were.            *)
Digits(n) == IF n < 10 THEN 1 ELSE IF n < 100 THEN 2 ELSE IF n < 1000 THEN 3 ELSE 4
CutMiddle(t, most) ==
  IF t.len <= most THEN t
  ELSE LET keep   == most \div 2
           elided == t.len - 2 * keep
       IN [len |-> 2 * keep + 19 + Digits(elided), cut |-> <<keep, elided>>]
CutTail(t, most) ==
  IF t.len <= most THEN t
  ELSE [len |-> most + 18 + Digits(t.len - most), cut |-> NoCut]

(* sorted by descending priority, which is stable                           *)
FirstOf(set) ==
  CHOOSE s \in set : \A t \in set \ {s} :
    kind[s].prio > kind[t].prio \/ (kind[s].prio = kind[t].prio /\ s < t)

-----------------------------------------------------------------------------
(* Sections without a text are left out.                                    *)
BeginPack(r, kinds, lens) ==
  /\ phaseOfPack = "idle"
  /\ phaseOfPack' = "shrink"
  /\ room' = r /\ kind' = kinds
  /\ text' = [s \in Slots |-> [len |-> lens[s], cut |-> NoCut]]
  /\ live' = {s \in Slots : lens[s] > 0}
  /\ todo' = live'

GoOn(next) ==
  /\ todo = {} \/ Over <= 0
  /\ phaseOfPack' = next /\ todo' = live
  /\ UNCHANGED <<room, kind, text, live>>

Shrink ==
  LET s      == FirstOf(todo)
      target == Larger(Least, SizeOf(s) - Over)
  IN /\ phaseOfPack = "shrink" /\ todo # {} /\ Over > 0
     /\ text' = IF target >= SizeOf(s) THEN text
                ELSE [text EXCEPT ![s] =
                        IF kind[s].mode = "tail" THEN CutTail(@, Chars(target))
                                                 ELSE CutMiddle(@, Chars(target))]
     /\ todo' = todo \ {s}
     /\ UNCHANGED <<phaseOfPack, room, kind, live>>

DropSection ==
  LET s == FirstOf(todo)
  IN /\ phaseOfPack = "drop" /\ todo # {} /\ Over > 0
     /\ live' = IF kind[s].mode = "drop" \/ kind[s].prio > 1 THEN live \ {s} ELSE live
     /\ todo' = todo \ {s}
     /\ UNCHANGED <<phaseOfPack, room, kind, text>>

(* Did the cut change the text?  Cutting a cut text the same way gives it   *)
(* back.  A slip: it did when the text is longer than what is wanted.       *)
LongerIsCut(old, most) == old.len > most
IsCut(old, most) == CutMiddle(old, most) # old

(* max: the first of the biggest                                            *)
Biggest == CHOOSE s \in live : \A t \in live \ {s} :
             SizeOf(s) > SizeOf(t) \/ (SizeOf(s) = SizeOf(t) /\ s < t)
Clamp ==
  LET s    == Biggest
      most == Chars(SizeOf(s) - Over)
  IN /\ phaseOfPack = "clamp" /\ live # {} /\ Over > 0
     /\ IF IsCut(text[s], most)
        THEN text' = [text EXCEPT ![s] = CutMiddle(@, most)] /\ UNCHANGED live
        ELSE live' = live \ {s} /\ UNCHANGED text
     /\ UNCHANGED <<phaseOfPack, room, kind, todo>>

DonePacking ==
  /\ phaseOfPack = "clamp" /\ (live = {} \/ Over <= 0)
  /\ phaseOfPack' = "done" /\ todo' = {}
  /\ UNCHANGED <<room, kind, text, live>>

PackStep ==
  \/ Shrink \/ DropSection \/ Clamp \/ DonePacking
  \/ phaseOfPack = "shrink" /\ GoOn("drop")
  \/ phaseOfPack = "drop" /\ GoOn("clamp")

PackNext ==
  \/ PackStep
  \/ \E r \in Rooms, kinds \in [Slots -> [prio : Priorities, mode : Modes]],
        lens \in [Slots -> Lengths] : BeginPack(r, kinds, lens)

(* A call runs to its end.                                                  *)
PackSpec == PackInit /\ [][PackNext]_packVars /\ WF_packVars(PackStep)

-----------------------------------------------------------------------------
(* `Even a prompt of only priority-1 sections must fit' (budget.py:89-90):  *)
(* packing ends, although a cut may make a text longer and the clamp has no *)
(* count of its rounds, and what is left fits.                              *)
PackEnds == (phaseOfPack = "shrink") ~> (phaseOfPack = "done" /\ (Over <= 0 \/ live = {}))

=============================================================================
