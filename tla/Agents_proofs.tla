--------------------------- MODULE Agents_proofs ---------------------------
(***************************************************************************)
(* What an agent works with, for any budgets, any number of files, gates   *)
(* and terminals: the tool loop judges and remembers its turns, a part of  *)
(* an answer is never taken for the whole, look-ups are of the tree as it  *)
(* is, and answers outlive the terminals and writers around them.          *)
(***************************************************************************)
EXTENDS MCAgents, SequenceTheorems, FiniteSetTheorems, NaturalsInduction, WellFoundedInduction, TLAPS

-----------------------------------------------------------------------------
(* Calls of a model                                                         *)

(* The counters of a call are about its replies: best_partial is the        *)
(* longest partial there is, length_failures never exceeds the replies that *)
(* were cut, and while the caller waits there was nothing to return.        *)
TwoCut == \E a, b \in Replied : a # b /\ replies[a].cut /\ replies[b].cut
CutsCounted ==
  /\ cuts <= Len(replies)
  /\ cuts >= 1 => \E a \in Replied : replies[a].cut
  /\ cuts >= 2 => TwoCut
NoDocument == \A i \in Replied : ~(Shown(i) /\ ~replies[i].cut)
LongestKept ==
  /\ best # 0 => Shown(best) /\ replies[best].cut
  /\ \A i \in Replied : Shown(i) => best # 0 /\ replies[i].size <= replies[best].size
NoObject == \A i \in Replied : ~(replies[i].fits /\ replies[i].in # "nowhere")

CallInv ==
  /\ CallTypeOK
  /\ use = "none" => result = "waiting" /\ replies = << >> /\ asked = {}
  /\ result = "waiting" => posts < Attempts /\ Len(replies) < Rounds
  /\ CutsCounted /\ asked \subseteq Replied
  /\ use = "prose" /\ result # "whole" => NoDocument /\ LongestKept
  /\ use = "structured" /\ result # "whole" => NoObject
  /\ AnswerIsWhole

(* A reply is the last of the replies; those before it stay as they were.   *)
LEMMA NextReply ==
  ASSUME CallTypeOK, NEW r \in Answers, Len(replies) < Rounds, replies' = Append(replies, r)
  PROVE  /\ replies' \in Seq(Answers) /\ Len(replies') = Round /\ Len(replies') <= Rounds
         /\ replies'[Round] = r /\ Round \in Replied'
         /\ \A i \in Replied : replies'[i] = replies[i] /\ i \in Replied'
         /\ \A i \in Replied' : i = Round \/ i \in Replied
         /\ Len(replies) \in Nat /\ Rounds \in Nat /\ Round \in 1 .. Rounds
<1>1. replies \in Seq(Answers) /\ Len(replies) \in Nat /\ Rounds \in Nat
  BY CallConstants DEF CallTypeOK
<1>2. /\ replies' \in Seq(Answers) /\ Len(replies') = Len(replies) + 1
      /\ replies'[Len(replies) + 1] = r
      /\ \A i \in 1 .. Len(replies) : replies'[i] = replies[i]
  BY <1>1
<1> QED
  BY <1>1, <1>2 DEF Round, Replied

(* A reply that was cut is one more; a reply leaves the count of the cut    *)
(* ones and the promise about thinking true.                                *)
LEMMA CutsKeep ==
  ASSUME CallInv, NEW r \in Answers, Receive(r),
         cuts' = cuts \/ (r.cut /\ cuts' = cuts + 1)
  PROVE  /\ CutsCounted'
         /\ \A i \in asked' : \E a, b \in 1 .. i - 1 : a # b /\ replies'[a].cut /\ replies'[b].cut
<1>1. CallTypeOK /\ CutsCounted /\ AnswerIsWhole /\ Len(replies) < Rounds
  BY DEF CallInv, Receive, Waiting
<1>2. replies' = Append(replies, r) /\ cuts \in Nat
  BY <1>1, CallConstants DEF Receive, CallTypeOK
<1>3. /\ Len(replies') = Len(replies) + 1 /\ replies'[Len(replies) + 1] = r
      /\ \A i \in Replied : replies'[i] = replies[i] /\ i \in Replied'
      /\ Len(replies) + 1 \in Replied' /\ Len(replies) \in Nat
  BY <1>1, <1>2, NextReply DEF Round
<1>4. CutsCounted'
  <2>1. cuts' <= Len(replies')
    BY <1>1, <1>2, <1>3 DEF CutsCounted
  <2>2. cuts' >= 1 => \E a \in Replied' : replies'[a].cut
    BY <1>1, <1>2, <1>3 DEF CutsCounted
  <2>3. ASSUME cuts' >= 2 PROVE TwoCut'
    <3>1. CASE cuts >= 2
      BY <1>1, <1>3, <3>1 DEF CutsCounted, TwoCut
    <3>2. CASE ~(cuts >= 2)
      <4>1. cuts >= 1 /\ r.cut
        BY <1>2, <2>3, <3>2
      <4>2. PICK a \in Replied : replies[a].cut
        BY <1>1, <4>1 DEF CutsCounted
      <4>3. a # Len(replies) + 1
        BY <1>3 DEF Replied
      <4> QED
        BY <1>3, <4>1, <4>2, <4>3 DEF TwoCut
    <3> QED
      BY <3>1, <3>2
  <2> QED
    BY <2>1, <2>2, <2>3 DEF CutsCounted
<1>5. ASSUME NEW i \in asked'
      PROVE  \E a, b \in 1 .. i - 1 : a # b /\ replies'[a].cut /\ replies'[b].cut
  <2>1. CASE i \in asked
    <3>1. PICK a, b \in 1 .. i - 1 : a # b /\ replies[a].cut /\ replies[b].cut
      BY <1>1, <2>1 DEF AnswerIsWhole
    <3>2. i \in 1 .. Len(replies) + 1
      BY <1>3, <2>1 DEF CallInv, Replied
    <3> QED
      BY <1>3, <3>1, <3>2 DEF Replied
  <2>2. CASE i \notin asked
    <3>1. cuts >= 2 /\ i = Len(replies) + 1
      BY <1>5, <2>2 DEF Receive, Round
    <3>2. PICK a, b \in Replied : a # b /\ replies[a].cut /\ replies[b].cut
      BY <1>1, <3>1 DEF CutsCounted, TwoCut
    <3> QED
      BY <1>3, <3>1, <3>2 DEF Replied
  <2> QED
    BY <2>1, <2>2
<1> QED
  BY <1>4, <1>5

(* A streamed reply promises nothing but its type. *)
LEMMA StreamKeeps ==
  ASSUME CallInv, NEW r \in Answers, StreamReply(r)
  PROVE  CallInv'
<1>1. /\ use = "stream" /\ use' = use /\ posts' = 0 /\ cuts' = cuts /\ best' = best
      /\ result' \in {"whole", "partial"} /\ answer' = Round /\ Receive(r)
      /\ asked' = IF cuts >= 2 THEN asked \cup {Round} ELSE asked
  BY DEF StreamReply, Receive, Keep
<1>2. CallTypeOK /\ Len(replies) < Rounds /\ replies' = Append(replies, r) /\ asked \subseteq Replied
  BY DEF CallInv, Receive, Waiting, StreamReply
<1>3. /\ replies' \in Seq(Answers) /\ Len(replies') = Round /\ Len(replies') <= Rounds
      /\ \A i \in Replied : i \in Replied'
      /\ Round \in Replied' /\ Len(replies) \in Nat /\ Rounds \in Nat /\ Round \in 1 .. Rounds
  BY <1>2, NextReply
<1>4. Attempts \in Nat /\ Len(replies') = Len(replies) + 1
  BY <1>3, CallConstants DEF Attempts, Round
<1>5. CallTypeOK'
  <2>1. answer' \in 0 .. Len(replies') /\ best' \in 0 .. Len(replies')
    <3>1. best \in 0 .. Len(replies)
      BY <1>2 DEF CallTypeOK
    <3> QED
      BY <1>1, <1>3, <1>4, <3>1
  <2>2. asked' \subseteq 1 .. Rounds
    BY <1>1, <1>2, <1>3 DEF CallTypeOK
  <2>3. posts' \in 0 .. Attempts /\ use' \in Uses /\ cuts' \in 0 .. Rounds
    BY <1>1, <1>2, <1>4 DEF Uses, CallTypeOK
  <2> QED
    BY <1>1, <1>3, <2>1, <2>2, <2>3 DEF CallTypeOK
<1>6. asked' \subseteq Replied'
  BY <1>1, <1>2, <1>3
<1>7. /\ CutsCounted'
      /\ \A i \in asked' : \E a, b \in 1 .. i - 1 : a # b /\ replies'[a].cut /\ replies'[b].cut
  BY <1>1, CutsKeep
<1>8. AnswerIsWhole'
  BY <1>1, <1>7 DEF AnswerIsWhole
<1> QED
  BY <1>1, <1>5, <1>6, <1>7, <1>8 DEF CallInv

(* An object is returned when it fits, and never while it does not. *)
LEMMA StructuredKeeps ==
  ASSUME CallInv, NEW r \in Answers, StructuredReply(r)
  PROVE  CallInv'
<1> DEFINE Good == r.in # "nowhere" /\ r.fits
<1>1. /\ use = "structured" /\ use' = use /\ posts' = 0 /\ best' = best /\ Receive(r)
      /\ result = "waiting"
      /\ asked' = IF cuts >= 2 THEN asked \cup {Round} ELSE asked
  BY DEF StructuredReply, Receive, Keep, Waiting
<1>2. /\ CallTypeOK /\ Len(replies) < Rounds /\ replies' = Append(replies, r)
      /\ asked \subseteq Replied /\ NoObject
  BY <1>1 DEF CallInv, Receive, Waiting
<1>3. /\ replies' \in Seq(Answers) /\ Len(replies') = Round /\ Len(replies') <= Rounds
      /\ replies'[Round] = r /\ Round \in Replied'
      /\ \A i \in Replied : replies'[i] = replies[i] /\ i \in Replied'
      /\ \A i \in Replied' : i = Round \/ i \in Replied
      /\ Len(replies) \in Nat /\ Rounds \in Nat /\ Round \in 1 .. Rounds
  BY <1>2, NextReply
<1>4. Attempts \in Nat /\ Attempts >= 1 /\ Len(replies') = Len(replies) + 1
  BY <1>3, CallConstants DEF Attempts, Round
<1>5. /\ Good => result' = "whole" /\ answer' = Round /\ cuts' = cuts
      /\ ~Good => /\ cuts' = IF r.cut THEN cuts + 1 ELSE cuts
                  /\ result' = IF Round < Rounds THEN "waiting" ELSE "raised"
                  /\ answer' = answer
  BY DEF StructuredReply, Keep
<1>6. /\ CutsCounted'
      /\ \A i \in asked' : \E a, b \in 1 .. i - 1 : a # b /\ replies'[a].cut /\ replies'[b].cut
  BY <1>1, <1>5, CutsKeep
<1>7. CallTypeOK'
  <2>1. cuts' \in 0 .. Rounds
    BY <1>2, <1>3, <1>4, <1>5 DEF CallInv, CutsCounted, CallTypeOK
  <2>2. answer' \in 0 .. Len(replies') /\ best' \in 0 .. Len(replies')
    <3>1. answer \in 0 .. Len(replies) /\ best \in 0 .. Len(replies)
      BY <1>2 DEF CallTypeOK
    <3> QED
      BY <1>1, <1>3, <1>4, <1>5, <3>1
  <2>5. asked' \subseteq 1 .. Rounds
    BY <1>1, <1>2, <1>3 DEF CallTypeOK
  <2>3. posts' \in 0 .. Attempts /\ use' \in Uses
    BY <1>1, <1>4 DEF Uses
  <2>4. result' \in {"waiting", "whole", "partial", "empty", "raised"}
    BY <1>5
  <2> QED
    BY <1>3, <2>1, <2>2, <2>3, <2>4, <2>5 DEF CallTypeOK
<1>8. asked' \subseteq Replied'
  BY <1>1, <1>2, <1>3
<1>9. result' # "whole" => NoObject'
  <2> SUFFICES ASSUME ~Good, NEW i \in Replied'
               PROVE  ~(replies'[i].fits /\ replies'[i].in # "nowhere")
    BY <1>5 DEF NoObject
  <2>1. CASE i = Round
    BY <1>3, <2>1
  <2>2. CASE i \in Replied
    BY <1>2, <1>3, <2>2 DEF NoObject
  <2> QED
    BY <1>3, <2>1, <2>2
<1>10. ASSUME NEW i \in Replied', replies'[i].fits, replies'[i].in # "nowhere"
       PROVE  result' = "whole" /\ answer' = i
  <2>1. i \notin Replied
    BY <1>2, <1>3, <1>10 DEF NoObject
  <2>2. i = Round
    BY <1>3, <2>1
  <2> QED
    BY <1>3, <1>5, <1>10, <2>2
<1>11. result' = "whole" => replies'[answer'].fits
  BY <1>3, <1>5
<1>12. AnswerIsWhole'
  BY <1>1, <1>6, <1>10, <1>11 DEF AnswerIsWhole
<1>13. result' = "waiting" => posts' < Attempts /\ Len(replies') < Rounds
  BY <1>1, <1>3, <1>4, <1>5 DEF Round
<1> QED
  BY <1>1, <1>6, <1>7, <1>8, <1>9, <1>12, <1>13 DEF CallInv

(* A document that was cut, or is none, is weighed against the best there   *)
(* was.                                                                     *)
LEMMA BestKept ==
  ASSUME CallInv, NEW r \in Answers, use = "prose", result = "waiting",
         Len(replies) < Rounds, replies' = Append(replies, r), ~Document(r),
         best' = IF r.cut /\ Text(r) /\ (best = 0 \/ r.size > replies[best].size)
                 THEN Round ELSE best
  PROVE  NoDocument' /\ LongestKept' /\ best' \in 0 .. Len(replies')
<1> DEFINE In(i) == \/ replies'[i].in = "content"
                    \/ replies'[i].in = "reasoning" /\ ~replies'[i].cut
<1>1. CallTypeOK /\ NoDocument /\ LongestKept /\ best \in 0 .. Len(replies)
  BY DEF CallInv, CallTypeOK
<1>2. /\ replies' \in Seq(Answers) /\ Len(replies') = Round
      /\ replies'[Round] = r /\ Round \in Replied'
      /\ \A i \in Replied : replies'[i] = replies[i] /\ i \in Replied'
      /\ \A i \in Replied' : i = Round \/ i \in Replied
      /\ Len(replies) \in Nat
  BY <1>1, NextReply
<1>3. /\ r.size \in Nat
      /\ \A i \in Replied : replies[i].size \in Nat
  <2>1. \A a \in Answers : a.size \in Nat
    BY CallConstants DEF Answers
  <2>2. \A i \in Replied : replies[i] \in Answers
    BY <1>1 DEF CallTypeOK, Replied
  <2> QED
    BY <2>1, <2>2
<1>4. /\ \A i \in Replied : In(i) <=> Shown(i)
      /\ In(Round) <=> Text(r)
  BY <1>2 DEF Shown, Text, Round
<1>5. best # 0 => best \in Replied
  BY <1>1, <1>2 DEF Replied
<1>6. NoDocument'
  <2> SUFFICES ASSUME NEW i \in Replied'
               PROVE  ~(In(i) /\ ~replies'[i].cut)
    BY DEF NoDocument, Shown
  <2>1. CASE i = Round
    BY <1>2, <1>4, <2>1 DEF Document
  <2>2. CASE i \in Replied
    BY <1>1, <1>2, <1>4, <2>2 DEF NoDocument
  <2> QED
    BY <1>2, <2>1, <2>2
<1>7. CASE best' = Round /\ r.cut /\ Text(r) /\ (best = 0 \/ r.size > replies[best].size)
  <2>1. ASSUME NEW i \in Replied', In(i)
        PROVE  best' # 0 /\ replies'[i].size <= replies'[best'].size
    <3>1. CASE i = Round
      BY <1>2, <1>3, <1>7, <3>1 DEF Round
    <3>2. CASE i \in Replied
      <4>1. best # 0 /\ replies[i].size <= replies[best].size
        BY <1>1, <1>4, <2>1, <3>2 DEF LongestKept
      <4>2. replies[i].size \in Nat /\ replies[best].size \in Nat
        BY <1>3, <1>5, <3>2, <4>1
      <4>3. r.size > replies[best].size
        BY <1>7, <4>1
      <4>4. replies[i].size <= r.size
        BY <1>3, <4>1, <4>2, <4>3
      <4>5. replies'[i] = replies[i] /\ replies'[best'] = r /\ best' # 0
        <5>1. replies'[i] = replies[i]
          BY <1>2, <3>2
        <5>2. replies'[Round] = r /\ Round # 0
          BY <1>2 DEF Round
        <5> QED
          BY <1>7, <5>1, <5>2
      <4> QED
        BY <4>4, <4>5
    <3> QED
      BY <1>2, <2>1, <3>1, <3>2
  <2>2. In(best') /\ replies'[best'].cut
    BY <1>2, <1>4, <1>7 DEF Shown
  <2>3. LongestKept'
    BY <2>1, <2>2 DEF LongestKept, Shown
  <2> QED
    BY <1>2, <1>6, <1>7, <2>3 DEF Round
<1>8. CASE best' = best /\ ~(r.cut /\ Text(r) /\ (best = 0 \/ r.size > replies[best].size))
  <2>1. ASSUME NEW i \in Replied', In(i)
        PROVE  best' # 0 /\ replies'[i].size <= replies'[best'].size
    <3>1. CASE i = Round
      <4>1. Text(r) /\ r.cut
        BY <1>4, <2>1, <3>1 DEF Document
      <4>2. best # 0 /\ ~(r.size > replies[best].size)
        BY <1>8, <4>1
      <4>3. replies[best].size \in Nat /\ replies'[best] = replies[best]
        BY <1>2, <1>3, <1>5, <4>2
      <4>4. r.size <= replies[best].size
        BY <1>3, <4>2, <4>3
      <4>5. replies'[i] = r
        BY <1>2, <3>1
      <4> QED
        BY <1>8, <4>2, <4>3, <4>4, <4>5
    <3>2. CASE i \in Replied
      <4>1. best # 0 /\ replies[i].size <= replies[best].size
        BY <1>1, <1>4, <2>1, <3>2 DEF LongestKept
      <4>2. replies'[i] = replies[i]
        BY <1>2, <3>2
      <4>3. replies'[best] = replies[best]
        BY <1>2, <1>5, <4>1
      <4> QED
        BY <1>8, <4>1, <4>2, <4>3
    <3> QED
      BY <1>2, <2>1, <3>1, <3>2
  <2>2. best' # 0 => In(best') /\ replies'[best'].cut
    BY <1>1, <1>2, <1>5, <1>8 DEF Shown, LongestKept
  <2>3. LongestKept'
    BY <2>1, <2>2 DEF LongestKept, Shown
  <2> QED
    BY <1>1, <1>2, <1>6, <1>8, <2>3 DEF Round
<1> QED
  BY <1>7, <1>8

(* A complete document ends the rounds; otherwise the last round gives the  *)
(* longest part, or nothing.                                                *)
LEMMA ProseKeeps ==
  ASSUME CallInv, NEW r \in Answers, ProseReply(r)
  PROVE  CallInv'
<1>1. /\ use = "prose" /\ use' = use /\ posts' = 0 /\ Receive(r) /\ result = "waiting"
      /\ asked' = IF cuts >= 2 THEN asked \cup {Round} ELSE asked
  BY DEF ProseReply, Receive, Waiting
<1>2. /\ CallTypeOK /\ Len(replies) < Rounds /\ replies' = Append(replies, r)
      /\ asked \subseteq Replied /\ NoDocument /\ LongestKept
  BY <1>1 DEF CallInv, Receive, Waiting
<1>3. /\ replies' \in Seq(Answers) /\ Len(replies') = Round /\ Len(replies') <= Rounds
      /\ replies'[Round] = r /\ Round \in Replied'
      /\ \A i \in Replied : replies'[i] = replies[i] /\ i \in Replied'
      /\ \A i \in Replied' : i = Round \/ i \in Replied
      /\ Len(replies) \in Nat /\ Rounds \in Nat /\ Round \in 1 .. Rounds
  BY <1>2, NextReply
<1>4. Attempts \in Nat /\ Attempts >= 1 /\ Len(replies') = Len(replies) + 1
  BY <1>3, CallConstants DEF Attempts, Round
<1>5. /\ Document(r) => result' = "whole" /\ answer' = Round /\ cuts' = cuts /\ best' = best
      /\ ~Document(r) =>
           /\ cuts' = IF r.cut THEN cuts + 1 ELSE cuts
           /\ best' = IF r.cut /\ Text(r) /\ (best = 0 \/ r.size > replies[best].size)
                      THEN Round ELSE best
           /\ answer' = IF Round = Rounds THEN best' ELSE 0
           /\ result' = IF Round < Rounds THEN "waiting"
                        ELSE IF best' # 0 THEN "partial" ELSE "empty"
  BY DEF ProseReply, Keep
<1>6. /\ CutsCounted'
      /\ \A i \in asked' : \E a, b \in 1 .. i - 1 : a # b /\ replies'[a].cut /\ replies'[b].cut
  BY <1>1, <1>5, CutsKeep
<1>7. ~Document(r) => NoDocument' /\ LongestKept' /\ best' \in 0 .. Len(replies')
  BY <1>1, <1>2, <1>5, BestKept
<1>8. CallTypeOK'
  <2>1. cuts' \in 0 .. Rounds
    BY <1>2, <1>3, <1>4, <1>5 DEF CallInv, CutsCounted, CallTypeOK
  <2>2. best' \in 0 .. Len(replies')
    <3>1. best \in 0 .. Len(replies)
      BY <1>2 DEF CallTypeOK
    <3> QED
      BY <1>3, <1>4, <1>5, <1>7, <3>1
  <2>3. answer' \in 0 .. Len(replies')
    BY <1>3, <1>4, <1>5, <2>2
  <2>4. asked' \subseteq 1 .. Rounds
    BY <1>1, <1>2, <1>3 DEF CallTypeOK
  <2>5. posts' \in 0 .. Attempts /\ use' \in Uses
    BY <1>1, <1>4 DEF Uses
  <2>6. result' \in {"waiting", "whole", "partial", "empty", "raised"}
    BY <1>5
  <2> QED
    BY <1>3, <2>1, <2>2, <2>3, <2>4, <2>5, <2>6 DEF CallTypeOK
<1>9. asked' \subseteq Replied'
  BY <1>1, <1>2, <1>3
<1>10. result' # "whole" => NoDocument' /\ LongestKept'
  BY <1>5, <1>7
<1>11. ASSUME NEW i \in Replied', Shown(i)', ~replies'[i].cut
       PROVE  result' = "whole" /\ answer' = i
  <2>1. Document(r)
    BY <1>7, <1>11 DEF NoDocument, Shown
  <2>2. i \notin Replied
    BY <1>2, <1>3, <1>11 DEF NoDocument, Shown
  <2>3. i = Round
    BY <1>3, <2>2
  <2> QED
    BY <1>5, <2>1, <2>3
<1>12. ASSUME result' = "whole" PROVE Shown(answer)' /\ ~replies'[answer'].cut
  <2>1. Document(r) /\ answer' = Round
    BY <1>5, <1>12
  <2> QED
    BY <1>3, <2>1 DEF Shown, Document, Text
<1>13. ASSUME result' = "partial"
       PROVE  /\ Len(replies') = Rounds /\ replies'[answer'].cut /\ replies'[answer'].in = "content"
              /\ \A i \in Replied' : Shown(i)' => replies'[i].size <= replies'[answer'].size
  <2>1. ~Document(r) /\ Round = Rounds /\ best' # 0 /\ answer' = best'
    BY <1>3, <1>5, <1>13 DEF Round
  <2> QED
    BY <1>3, <1>7, <2>1 DEF LongestKept, Shown
<1>14. ASSUME result' = "empty" PROVE \A i \in Replied' : ~Shown(i)'
  <2>1. ~Document(r) /\ best' = 0
    BY <1>5, <1>14
  <2> QED
    BY <1>7, <2>1 DEF LongestKept, Shown
<1>15. AnswerIsWhole'
  <2>1. use' = "prose"
    BY <1>1
  <2> QED
    BY <1>6, <1>11, <1>12, <1>13, <1>14, <2>1 DEF AnswerIsWhole
<1>16. result' = "waiting" => posts' < Attempts /\ Len(replies') < Rounds
  BY <1>1, <1>3, <1>4, <1>5 DEF Round
<1> QED
  BY <1>1, <1>6, <1>8, <1>9, <1>10, <1>15, <1>16 DEF CallInv

(* The first step of a call, and attempts that fail: no reply arrives. *)
LEMMA NoReplyKeeps ==
  ASSUME CallInv,
         \/ \E u \in Uses : CallModel(u)
         \/ \E trouble \in {"unreachable", "transient", "refused"} : PostFails(trouble)
         \/ UNCHANGED callVars
  PROVE  CallInv'
<1>1. CASE \E u \in Uses : CallModel(u)
  <2>1. /\ use = "none" /\ use' \in Uses
        /\ UNCHANGED <<result, answer, posts, cuts, best, asked, replies>>
    BY <1>1 DEF CallModel
  <2>2. CallTypeOK' /\ CutsCounted' /\ asked' \subseteq Replied'
    BY <2>1 DEF CallInv, CallTypeOK, CutsCounted, TwoCut, Replied
  <2>3. result' = "waiting" /\ replies' = << >> /\ Replied' = {} /\ asked' = {}
    BY <2>1 DEF CallInv, Replied
  <2>4. (NoDocument' /\ LongestKept') \/ best' # 0
    BY <2>3 DEF NoDocument, LongestKept
  <2>5. best' = 0
    BY <2>1, <2>3 DEF CallInv, CallTypeOK
  <2> QED
    BY <2>1, <2>2, <2>3, <2>4, <2>5 DEF CallInv, AnswerIsWhole, NoObject, Uses
<1>2. CASE \E trouble \in {"unreachable", "transient", "refused"} : PostFails(trouble)
  <2>1. /\ use # "none" /\ result = "waiting" /\ posts' = posts + 1
        /\ result' = "raised" \/ (result' = "waiting" /\ posts' < Attempts)
        /\ UNCHANGED <<use, answer, cuts, best, asked, replies>>
    BY <1>2 DEF PostFails, Waiting
  <2>2. posts' \in 0 .. Attempts
    BY <2>1, CallConstants DEF CallInv, CallTypeOK, Attempts
  <2>3. CallTypeOK' /\ CutsCounted' /\ asked' \subseteq Replied'
    BY <2>1, <2>2 DEF CallInv, CallTypeOK, CutsCounted, TwoCut, Replied
  <2>4. use = "prose" => NoDocument' /\ LongestKept'
    BY <2>1 DEF CallInv, NoDocument, LongestKept, Shown, Replied
  <2>5. use = "structured" => NoObject'
    BY <2>1 DEF CallInv, NoObject, Replied
  <2>6. AnswerIsWhole'
    <3>1. \A i \in asked' : \E a, b \in 1 .. i - 1 : a # b /\ replies'[a].cut /\ replies'[b].cut
      BY <2>1 DEF CallInv, AnswerIsWhole
    <3> QED
      BY <2>1, <2>4, <2>5, <3>1 DEF AnswerIsWhole, NoDocument, NoObject
  <2> QED
    BY <2>1, <2>3, <2>4, <2>5, <2>6 DEF CallInv
<1>3. CASE UNCHANGED callVars
  <2>1. CallTypeOK' /\ CutsCounted' /\ asked' \subseteq Replied'
    BY <1>3 DEF CallInv, callVars, CallTypeOK, CutsCounted, TwoCut, Replied
  <2>2. (NoDocument <=> NoDocument') /\ (LongestKept <=> LongestKept') /\ (NoObject <=> NoObject')
    BY <1>3 DEF callVars, NoDocument, LongestKept, NoObject, Shown, Replied
  <2>3. AnswerIsWhole'
    BY <1>3 DEF CallInv, callVars, AnswerIsWhole, Shown, Replied
  <2> QED
    BY <1>3, <2>1, <2>2, <2>3 DEF CallInv, callVars
<1> QED
  BY <1>1, <1>2, <1>3

(* What the counters of a call say of its replies is true of every call,    *)
(* however it is used and whatever the server answers.                      *)
THEOREM CallCorrect == CallSpec => []CallInv
<1>1. CallInit => CallInv
  <2> SUFFICES ASSUME CallInit PROVE CallInv
    OBVIOUS
  <2>1. /\ use = "none" /\ result = "waiting" /\ answer = 0 /\ posts = 0 /\ cuts = 0 /\ best = 0
        /\ asked = {} /\ replies = << >> /\ Len(replies) = 0 /\ Replied = {}
    BY DEF CallInit, Replied
  <2>2. Attempts \in Nat /\ Attempts >= 1 /\ Rounds \in Nat /\ Rounds >= 1
    BY CallConstants DEF Attempts
  <2>3. CallTypeOK
    BY <2>1, <2>2 DEF CallTypeOK
  <2> QED
    BY <2>1, <2>2, <2>3 DEF CallInv, CutsCounted, AnswerIsWhole
<1>2. CallInv /\ [CallNext]_callVars => CallInv'
  BY NoReplyKeeps, StreamKeeps, ProseKeeps, StructuredKeeps DEF CallNext
<1> QED
  BY <1>1, <1>2, PTL DEF CallSpec

(* A call stays within its attempts and its rounds, and what it keeps and   *)
(* returns is one of its replies.                                           *)
THEOREM CallTypesKept == CallSpec => []CallTypeOK
<1>1. CallInv => CallTypeOK
  BY DEF CallInv
<1> QED
  BY <1>1, CallCorrect, PTL

(* The caller never mistakes a part for the whole and never loses a         *)
(* complete answer it had, for any number of retries and repair rounds.     *)
THEOREM WholeAnswers == CallSpec => []AnswerIsWhole
<1>1. CallInv => AnswerIsWhole
  BY DEF CallInv
<1> QED
  BY <1>1, CallCorrect, PTL

-----------------------------------------------------------------------------
(* The index of the code                                                    *)

(* A digest with what was read after it was taken: of a file that has not   *)
(* changed since, that is what the file is.  A file that was changed never  *)
(* has its old digest again.                                                *)
TrueOf(digest, read) ==
  \A f \in Files : digest[f] # 0 /\ digest[f] = Digest[f] => read[f] = disk[f]
Past(digest) == \A f \in Files : digest[f] <= edits

MapInv ==
  /\ IndexTypeOK
  /\ \A f \in Files : mtimes[f] <= edits /\ (disk[f] # 0 => mtimes[f] # 0)
  /\ Past(mapCache.digest) /\ TrueOf(mapCache.digest, mapCache.tags)
  /\ job \in {"tagging", "saving"} => Past(digestOf)
  /\ job = "saving" => TrueOf(digestOf, documents)
  /\ found = "map" => \A f \in Files : disk[f] # 0 => tags[f] = disk[f]
  /\ \A c \in served : c[2] = c[3]

(* What makes the index right again after a stop: a file has the chunks the *)
(* document store says, unless a job that deleted them was stopped, or goes *)
(* on.  A rebuild starts from nothing, so that it ends with just the chunks *)
(* of what it read.                                                         *)
Backed(fs) ==
  \A f \in fs \ robbed : docstore[f] # 0 => <<f, docstore[f]>> \in vectors
ChunksOf(content) == {<<f, content[f]>> : f \in {g \in Files : content[g] # 0}}

RefreshInv ==
  /\ IndexTypeOK
  /\ job \in {"idle", "tagging", "saving", "wiped", "upsert"} => Backed(Files)
  /\ job \in {"embed", "persist"} => Backed(Files \ Changes)
  /\ job = "persist" => \A f \in Changes : documents[f] # 0 => <<f, documents[f]>> \in vectors
  /\ job \in {"wiping", "wiped"} => vectors = {}
  /\ job = "wiped" => docstore = Nowhere
  /\ found = "rebuilding" =>
       /\ job \in {"upsert", "embed", "persist"} /\ docstore = Nowhere
       /\ vectors = IF job = "persist" THEN ChunksOf(documents) ELSE {}
  /\ found \in {"index", "rebuilt"} => job = "idle" /\ docstore = disk
  /\ found = "rebuilt" => vectors = ChunksOf(disk)

(* Whatever is done to the tree or the index, files have versions. *)
LEMMA IndexTypes ==
  ASSUME IndexTypeOK, [IndexNext]_indexVars
  PROVE  IndexTypeOK'
<1>1. MaxEdits \in Nat /\ 0 \in Versions /\ Nowhere \in Content /\ Digest \in Content
  <2>1. MaxEdits \in Nat /\ 0 \in Versions
    BY IndexConstants DEF Versions
  <2> QED
    BY <2>1 DEF Nowhere, Digest, Content, IndexTypeOK
<1>2. CASE \E f \in Files, content \in Versions : ChangeFile(f, content)
  <2>1. PICK f \in Files, content \in Versions : ChangeFile(f, content)
    BY <1>2
  <2>2. edits' = edits + 1 /\ edits + 1 \in Versions
    BY <1>1, <2>1 DEF ChangeFile, IndexTypeOK, Versions
  <2>3. disk' \in Content /\ mtimes' \in Content
    BY <2>1, <2>2 DEF ChangeFile, IndexTypeOK, Content
  <2> QED
    BY <2>1, <2>2, <2>3 DEF ChangeFile, IndexTypeOK, index, atWork
<1>3. CASE LookUpSymbols
  BY <1>1, <1>3 DEF LookUpSymbols, IndexTypeOK, workTree, index
<1>4. CASE TagFiles
  BY <1>4 DEF TagFiles, IndexTypeOK, workTree, index, history
<1>5. CASE SaveMap
  BY <1>5 DEF SaveMap, IndexTypeOK, workTree, index, DigestKept
<1>6. CASE ReadDocuments("idle") \/ ReadDocuments("wiped")
  BY <1>6 DEF ReadDocuments, IndexTypeOK, workTree, index
<1>7. CASE DeleteChunks
  BY <1>7 DEF DeleteChunks, IndexTypeOK, workTree, history
<1>8. CASE AddChunks
  BY <1>8 DEF AddChunks, IndexTypeOK, workTree, history, Changes, Content
<1>9. CASE PersistDocstore
  BY <1>9 DEF PersistDocstore, IndexTypeOK, workTree
<1>10. CASE WipeVectors \/ WipeDocstore
  BY <1>1, <1>10 DEF WipeVectors, WipeDocstore, IndexTypeOK, workTree, history
<1>11. CASE StopJob
  <2>1. Deleted \subseteq Files
    BY DEF Deleted, Changes
  <2>2. robbed' \subseteq Files /\ docstore' \in Content
    BY <1>1, <1>11, <2>1 DEF StopJob, IndexTypeOK
  <2>3. stops' \in 0 .. MaxStops
    BY <1>11, IndexConstants DEF StopJob, IndexTypeOK
  <2> QED
    BY <1>11, <2>2, <2>3 DEF StopJob, IndexTypeOK, workTree
<1>12. CASE \E located \in SUBSET vectors : Gather(located)
  <2>1. PICK located \in SUBSET vectors : Gather(located)
    BY <1>12
  <2>2. LiveSnippets(located) \subseteq Files \X Versions \X Versions
    BY DEF LiveSnippets, IndexTypeOK, Content
  <2>3. {<<f, tags[f], disk[f]>> : f \in {g \in Files : tags[g] # 0 /\ disk[g] # 0}}
          \subseteq Files \X Versions \X Versions
    BY DEF IndexTypeOK, Content
  <2> QED
    BY <2>1, <2>2, <2>3 DEF Gather, IndexTypeOK, workTree, index, atWork
<1>13. CASE UNCHANGED indexVars
  BY <1>13 DEF indexVars, IndexTypeOK, workTree, index, atWork, history
<1> QED
  BY <1>2, <1>3, <1>4, <1>5, <1>6, <1>7, <1>8, <1>9, <1>10, <1>11, <1>12, <1>13 DEF IndexNext

(* A change of a file makes no old digest true again. *)
LEMMA ChangeAges ==
  ASSUME IndexTypeOK, NEW f \in Files, NEW content \in Versions, ChangeFile(f, content),
         \A g \in Files : mtimes[g] <= edits
  PROVE  /\ edits' = edits + 1 /\ edits \in Nat
         /\ disk' \in Content /\ disk'[f] = content /\ content # disk[f]
         /\ \A g \in Files : mtimes'[g] <= edits'
         /\ \A g \in Files \ {f} : disk'[g] = disk[g] /\ mtimes'[g] = mtimes[g]
         /\ mtimes'[f] = edits + 1
         /\ \A d \in Content, r \in Content :
              Past(d) /\ TrueOf(d, r) =>
                /\ \A g \in Files : d[g] <= edits'
                /\ \A g \in Files : d[g] # 0 /\ d[g] = Digest'[g] => r[g] = disk'[g]
<1>1. edits \in Nat /\ edits' = edits + 1 /\ edits' \in Nat
  BY IndexConstants DEF ChangeFile, IndexTypeOK, Versions
<1>2. /\ disk' = [disk EXCEPT ![f] = content] /\ mtimes' = [mtimes EXCEPT ![f] = edits + 1]
      /\ content # disk[f]
  BY DEF ChangeFile
<1>3. /\ disk' \in Content /\ disk'[f] = content /\ mtimes'[f] = edits + 1
      /\ \A g \in Files \ {f} : disk'[g] = disk[g] /\ mtimes'[g] = mtimes[g]
      /\ \A g \in Files : mtimes[g] \in Nat
  BY <1>2, IndexConstants DEF IndexTypeOK, Content, Versions
<1>4. ASSUME NEW d \in Content, NEW r \in Content, Past(d), TrueOf(d, r), NEW g \in Files
      PROVE  d[g] <= edits' /\ (d[g] # 0 /\ d[g] = Digest'[g] => r[g] = disk'[g])
  <2>1. d[g] \in Nat /\ d[g] <= edits
    BY <1>4, IndexConstants DEF Past, Content, Versions
  <2>2. CASE g = f
    <3>1. Digest'[g] = 0 \/ Digest'[g] = edits + 1
      BY <1>3, <2>2 DEF Digest
    <3> QED
      BY <1>1, <2>1, <3>1
  <2>3. CASE g # f
    <3>1. Digest'[g] = Digest[g] /\ disk'[g] = disk[g]
      BY <1>3, <2>3 DEF Digest
    <3> QED
      BY <1>1, <1>4, <2>1, <3>1 DEF TrueOf
  <2> QED
    BY <2>2, <2>3
<1>5. \A g \in Files : mtimes'[g] <= edits'
  <2> TAKE g \in Files
  <2>1. CASE g = f
    BY <1>1, <1>3, <2>1
  <2>2. CASE g # f
    BY <1>1, <1>3, <2>2
  <2> QED
    BY <2>1, <2>2
<1> QED
  BY <1>1, <1>2, <1>3, <1>4, <1>5

(* The map, its cache and what it answered stay true of the tree. *)
LEMMA MapKeeps ==
  ASSUME MapInv, [IndexNext]_indexVars
  PROVE  MapInv'
<1>1. IndexTypeOK /\ IndexTypeOK'
  BY IndexTypes DEF MapInv
<1>2. ASSUME UNCHANGED <<disk, mtimes, edits>>
      PROVE  /\ Digest' = Digest
             /\ \A f \in Files : mtimes'[f] <= edits' /\ (disk'[f] # 0 => mtimes'[f] # 0)
             /\ \A d : Past(d)' <=> Past(d)
             /\ \A d, r : TrueOf(d, r)' <=> TrueOf(d, r)
  BY <1>2 DEF MapInv, Digest, Past, TrueOf
<1>3. CASE \E f \in Files, content \in Versions : ChangeFile(f, content)
  <2>1. PICK f \in Files, content \in Versions : ChangeFile(f, content)
    BY <1>3
  <2>2. /\ found' = "nothing" /\ served' = {} /\ UNCHANGED <<mapCache, job, digestOf, documents>>
    BY <2>1 DEF ChangeFile, atWork
  <2>3. /\ mapCache.digest \in Content /\ mapCache.tags \in Content
        /\ digestOf \in Content /\ documents \in Content
    BY <1>1 DEF IndexTypeOK
  <2>4. /\ edits' = edits + 1 /\ edits \in Nat /\ mtimes'[f] = edits + 1
        /\ \A g \in Files : mtimes'[g] <= edits'
        /\ \A g \in Files \ {f} : disk'[g] = disk[g] /\ mtimes'[g] = mtimes[g]
        /\ \A d \in Content, r \in Content :
             Past(d) /\ TrueOf(d, r) =>
               /\ \A g \in Files : d[g] <= edits'
               /\ \A g \in Files : d[g] # 0 /\ d[g] = Digest'[g] => r[g] = disk'[g]
    BY <1>1, <2>1, ChangeAges DEF MapInv
  <2>5. \A g \in Files : disk'[g] # 0 => mtimes'[g] # 0
    BY <2>4 DEF MapInv
  <2>6. Past(mapCache.digest)' /\ TrueOf(mapCache.digest, mapCache.tags)'
    BY <2>2, <2>3, <2>4 DEF MapInv, Past, TrueOf
  <2>7. job' \in {"tagging", "saving"} => Past(digestOf)'
    <3>1. \A g \in Files : digestOf[g] \in Nat
      BY <2>3, IndexConstants DEF Content, Versions
    <3> QED
      BY <2>2, <2>4, <3>1 DEF MapInv, Past
  <2>8. job' = "saving" => TrueOf(digestOf, documents)'
    BY <2>2, <2>3, <2>4 DEF MapInv, TrueOf
  <2> QED
    BY <1>1, <2>2, <2>4, <2>5, <2>6, <2>7, <2>8 DEF MapInv
<1>4. CASE LookUpSymbols
  <2>1. UNCHANGED <<disk, mtimes, edits, mapCache, documents>> /\ served' = {} /\ job = "idle"
    BY <1>4 DEF LookUpSymbols, workTree
  <2>2. CASE mapCache.digest = Digest
    <3>1. found' = "map" /\ tags' = mapCache.tags /\ job' = job
      BY <1>4, <2>2 DEF LookUpSymbols
    <3>2. \A f \in Files : disk[f] # 0 => mapCache.tags[f] = disk[f]
      BY <2>2 DEF MapInv, TrueOf, Digest
    <3> QED
      BY <1>1, <1>2, <2>1, <3>1, <3>2 DEF MapInv
  <2>3. CASE mapCache.digest # Digest
    <3>1. found' = "nothing" /\ job' = "tagging" /\ digestOf' = Digest
      BY <1>4, <2>3 DEF LookUpSymbols
    <3>2. Past(Digest)
      BY <1>1, IndexConstants DEF MapInv, Past, Digest, IndexTypeOK, Versions
    <3> QED
      BY <1>1, <1>2, <2>1, <3>1, <3>2 DEF MapInv
  <2> QED
    BY <2>2, <2>3
<1>5. CASE TagFiles
  BY <1>1, <1>2, <1>5 DEF TagFiles, workTree, index, history, MapInv, TrueOf
<1>6. CASE SaveMap
  <2>1. /\ UNCHANGED <<disk, mtimes, edits, served>> /\ job = "saving" /\ job' = "idle"
        /\ mapCache' = [digest |-> digestOf, tags |-> documents] /\ tags' = documents
        /\ found' = IF documents = disk /\ digestOf = Digest THEN "map" ELSE "nothing"
    BY <1>6 DEF SaveMap, workTree, DigestKept
  <2>2. Past(mapCache'.digest) /\ TrueOf(mapCache'.digest, mapCache'.tags)
    BY <2>1 DEF MapInv
  <2> QED
    BY <1>1, <1>2, <2>1, <2>2 DEF MapInv
<1>7. CASE ReadDocuments("idle") \/ ReadDocuments("wiped")
  BY <1>1, <1>2, <1>7 DEF ReadDocuments, workTree, index, MapInv
<1>8. CASE DeleteChunks \/ AddChunks \/ WipeDocstore \/ StopJob
  BY <1>1, <1>2, <1>8 DEF DeleteChunks, AddChunks, WipeDocstore, StopJob, workTree, history, MapInv
<1>9. CASE PersistDocstore \/ WipeVectors
  BY <1>1, <1>2, <1>9 DEF PersistDocstore, WipeVectors, workTree, MapInv
<1>10. CASE \E located \in SUBSET vectors : Gather(located)
  <2>1. PICK located \in SUBSET vectors : Gather(located)
    BY <1>10
  <2>2. found = "map" /\ UNCHANGED <<disk, mtimes, edits, mapCache, job, digestOf, documents, found, tags>>
    BY <2>1 DEF Gather, workTree, atWork
  <2>3. \A f \in Files : disk[f] # 0 => tags[f] = disk[f]
    BY <2>2 DEF MapInv
  <2>4. \A c \in served' : c[2] = c[3]
    BY <2>1, <2>3 DEF Gather, LiveSnippets
  <2> QED
    BY <1>1, <1>2, <2>2, <2>4 DEF MapInv
<1>11. CASE UNCHANGED indexVars
  BY <1>1, <1>2, <1>11 DEF indexVars, workTree, atWork, history, MapInv
<1> QED
  BY <1>3, <1>4, <1>5, <1>6, <1>7, <1>8, <1>9, <1>10, <1>11 DEF IndexNext

(* A map that was found is of the tree as it is, and what is shown to an    *)
(* agent has the lines of the text it shows; this also when files return to *)
(* what they were and a rebuild is killed between its deletions.            *)
THEOREM MapCorrect == IndexSpec => []MapInv
<1>1. IndexInit => MapInv
  <2> SUFFICES ASSUME IndexInit PROVE MapInv
    OBVIOUS
  <2>1. MaxEdits \in Nat /\ MaxStops \in Nat /\ 0 \in Versions
    BY IndexConstants DEF Versions
  <2>2. Nowhere \in Content /\ \A f \in Files : Nowhere[f] = 0
    BY <2>1 DEF Nowhere, Content
  <2>3. IndexTypeOK
    BY <2>1, <2>2 DEF IndexInit, IndexTypeOK
  <2> QED
    BY <2>2, <2>3 DEF IndexInit, MapInv, Past, TrueOf
<1>2. MapInv /\ [IndexNext]_indexVars => MapInv'
  BY MapKeeps
<1> QED
  BY <1>1, <1>2, PTL DEF IndexSpec

(* The steps that leave the stores and what they list alone.                *)
LEMMA StoresStay ==
  ASSUME RefreshInv, UNCHANGED <<index, robbed>>, IndexTypeOK',
         job' = job \/ {job, job'} \subseteq {"idle", "tagging", "saving"},
         documents' = documents \/ job \in {"idle", "tagging", "saving"},
         found' \in {"nothing", "map"} \/ UNCHANGED <<found, disk, job, documents>>
  PROVE  RefreshInv'
<1>1. Backed(Files)' <=> Backed(Files)
  BY DEF Backed, index
<1>2. documents' = documents => Changes' = Changes
  BY DEF Changes, index
<1>3. documents' = documents => (Backed(Files \ Changes)' <=> Backed(Files \ Changes))
  BY <1>2 DEF Backed, index
<1>4. documents' = documents => ChunksOf(documents)' = ChunksOf(documents)
  BY DEF ChunksOf
<1>5. disk' = disk => ChunksOf(disk)' = ChunksOf(disk)
  BY DEF ChunksOf
<1>6. /\ job' \in {"idle", "tagging", "saving", "wiped", "upsert"} => Backed(Files)'
      /\ job' \in {"embed", "persist"} => Backed(Files \ Changes)'
  BY <1>1, <1>3 DEF RefreshInv
<1>7. /\ job' = "persist" =>
           \A f \in Changes' : documents'[f] # 0 => <<f, documents'[f]>> \in vectors'
      /\ job' \in {"wiping", "wiped"} => vectors' = {}
      /\ job' = "wiped" => docstore' = Nowhere
  BY <1>2 DEF RefreshInv, index
<1>8. CASE found' \in {"nothing", "map"}
  BY <1>6, <1>7, <1>8 DEF RefreshInv
<1>9. CASE UNCHANGED <<found, disk, job, documents>>
  <2>1. found' = "rebuilding" =>
          /\ job' \in {"upsert", "embed", "persist"} /\ docstore' = Nowhere
          /\ vectors' = IF job' = "persist" THEN ChunksOf(documents)' ELSE {}
    BY <1>4, <1>9 DEF RefreshInv, index
  <2>2. /\ found' \in {"index", "rebuilt"} => job' = "idle" /\ docstore' = disk'
        /\ found' = "rebuilt" => vectors' = ChunksOf(disk)'
    BY <1>5, <1>9 DEF RefreshInv, index
  <2> QED
    BY <1>6, <1>7, <2>1, <2>2 DEF RefreshInv
<1> QED
  BY <1>8, <1>9

(* The vectors and the document store keep together: what a refresh that    *)
(* was stopped has deleted, the next one finds changed, or it is known to   *)
(* be gone.                                                                 *)
LEMMA RefreshKeeps ==
  ASSUME RefreshInv, [IndexNext]_indexVars
  PROVE  RefreshInv'
<1>1. IndexTypeOK /\ IndexTypeOK'
  BY IndexTypes DEF RefreshInv
<1>2. CASE \E f \in Files, content \in Versions : ChangeFile(f, content)
  BY <1>1, <1>2, StoresStay DEF ChangeFile, atWork
<1>3. CASE LookUpSymbols \/ TagFiles \/ SaveMap
  <2>1. /\ UNCHANGED <<index, robbed>> /\ {job, job'} \subseteq {"idle", "tagging", "saving"}
        /\ found' \in {"nothing", "map"} \/ (TagFiles /\ found' = found)
    BY <1>3 DEF LookUpSymbols, TagFiles, SaveMap, history
  <2>2. TagFiles => found \notin {"rebuilding", "index", "rebuilt"}
    BY DEF TagFiles, RefreshInv
  <2>3. found' \in {"nothing", "map"}
    BY <1>1, <2>1, <2>2 DEF IndexTypeOK
  <2> QED
    BY <1>1, <2>1, <2>3, StoresStay
<1>4. CASE ReadDocuments("idle") \/ ReadDocuments("wiped")
  <2>1. /\ UNCHANGED <<vectors, docstore, robbed>> /\ job \in {"idle", "wiped"} /\ job' = "upsert"
        /\ found' = IF job = "wiped" THEN "rebuilding" ELSE "nothing"
    BY <1>4 DEF ReadDocuments, index
  <2>2. Backed(Files)'
    BY <2>1 DEF RefreshInv, Backed
  <2>3. found' = "rebuilding" => docstore' = Nowhere /\ vectors' = {}
    BY <2>1 DEF RefreshInv
  <2> QED
    BY <1>1, <2>1, <2>2, <2>3 DEF RefreshInv
<1>5. CASE DeleteChunks
  <2>1. /\ UNCHANGED <<docstore, documents, found, robbed>> /\ job = "upsert" /\ job' = "embed"
        /\ vectors' = {c \in vectors : c[1] \notin Changes \/ docstore[c[1]] = 0}
    BY <1>5 DEF DeleteChunks, history
  <2>2. Changes' = Changes
    BY <2>1 DEF Changes
  <2>3. Backed(Files \ Changes)'
    BY <2>1, <2>2 DEF RefreshInv, Backed
  <2>4. found' = "rebuilding" => docstore' = Nowhere /\ vectors' = {}
    BY <2>1 DEF RefreshInv
  <2>5. found' \notin {"index", "rebuilt"}
    BY <2>1 DEF RefreshInv
  <2> QED
    BY <1>1, <2>1, <2>3, <2>4, <2>5 DEF RefreshInv
<1>6. CASE AddChunks
  <2>1. /\ UNCHANGED <<docstore, documents, found, robbed>> /\ job = "embed" /\ job' = "persist"
        /\ vectors' = vectors \cup {<<f, documents[f]>> : f \in {g \in Changes : documents[g] # 0}}
    BY <1>6 DEF AddChunks, history
  <2>2. Changes' = Changes
    BY <2>1 DEF Changes
  <2>3. Backed(Files \ Changes)'
    BY <2>1, <2>2 DEF RefreshInv, Backed
  <2>4. \A f \in Changes' : documents'[f] # 0 => <<f, documents'[f]>> \in vectors'
    BY <2>1, <2>2 DEF Changes
  <2>5. found' = "rebuilding" => docstore' = Nowhere /\ vectors' = ChunksOf(documents)'
    <3> SUFFICES ASSUME found = "rebuilding"
                 PROVE  docstore' = Nowhere /\ vectors' = ChunksOf(documents)'
      BY <2>1
    <3>1. docstore = Nowhere /\ vectors = {}
      BY <2>1 DEF RefreshInv
    <3>2. {g \in Changes : documents[g] # 0} = {g \in Files : documents[g] # 0}
      BY <3>1 DEF Changes, Nowhere
    <3>3. vectors' = {<<f, documents[f]>> : f \in {g \in Files : documents[g] # 0}}
      BY <2>1, <3>1, <3>2
    <3> QED
      BY <2>1, <3>1, <3>3 DEF ChunksOf
  <2>6. found' \notin {"index", "rebuilt"}
    BY <2>1 DEF RefreshInv
  <2> QED
    BY <1>1, <2>1, <2>3, <2>4, <2>5, <2>6 DEF RefreshInv
<1>7. CASE PersistDocstore
  <2>1. /\ UNCHANGED <<disk, vectors, documents>> /\ job = "persist" /\ job' = "idle"
        /\ docstore' = documents /\ robbed' = robbed \ Changes
        /\ found' = IF documents # disk THEN "nothing"
                    ELSE IF found = "rebuilding" THEN "rebuilt" ELSE "index"
    BY <1>7 DEF PersistDocstore, workTree
  <2>2. Backed(Files)'
    <3> SUFFICES ASSUME NEW f \in Files, f \notin robbed', documents[f] # 0
                 PROVE  <<f, documents[f]>> \in vectors
      BY <2>1 DEF Backed
    <3>1. CASE f \in Changes
      BY <2>1, <3>1 DEF RefreshInv
    <3>2. CASE f \notin Changes
      BY <2>1, <3>2 DEF RefreshInv, Backed, Changes
    <3> QED
      BY <3>1, <3>2
  <2>3. found' = "rebuilt" => vectors' = ChunksOf(disk)'
    BY <2>1 DEF RefreshInv, ChunksOf
  <2>4. found' # "rebuilding" /\ (found' \in {"index", "rebuilt"} => docstore' = disk')
    BY <2>1
  <2> QED
    BY <1>1, <2>1, <2>2, <2>3, <2>4 DEF RefreshInv
<1>8. CASE WipeVectors
  BY <1>1, <1>8 DEF WipeVectors, RefreshInv
<1>9. CASE WipeDocstore
  <2>1. /\ UNCHANGED <<vectors, found>> /\ job = "wiping" /\ job' = "wiped" /\ docstore' = Nowhere
    BY <1>9 DEF WipeDocstore
  <2>2. Backed(Files)'
    BY <2>1 DEF Backed, Nowhere
  <2> QED
    BY <1>1, <2>1, <2>2 DEF RefreshInv
<1>10. CASE StopJob
  <2>1. /\ UNCHANGED <<disk, vectors, documents>> /\ job # "idle" /\ job' = "idle"
        /\ found' = IF found = "rebuilding" THEN "nothing" ELSE found
    BY <1>10 DEF StopJob, workTree
  <2>2. Backed(Files)'
    <3>1. CASE docstore' = docstore /\ robbed' = robbed \cup {f \in Deleted : docstore[f] # 0}
      <4> SUFFICES ASSUME NEW f \in Files, f \notin robbed', docstore[f] # 0
                   PROVE  <<f, docstore[f]>> \in vectors
        BY <2>1, <3>1 DEF Backed
      <4>1. f \notin robbed /\ f \notin Deleted
        BY <3>1
      <4>2. CASE job \in {"embed", "persist"}
        BY <4>1, <4>2 DEF Deleted, RefreshInv, Backed
      <4>3. CASE job = "wiping"
        BY <4>1, <4>3 DEF Deleted
      <4>4. CASE job \notin {"embed", "persist", "wiping"}
        BY <1>1, <2>1, <4>1, <4>4 DEF RefreshInv, Backed, IndexTypeOK
      <4> QED
        BY <4>2, <4>3, <4>4
    <3>2. CASE docstore' = Nowhere
      BY <3>2 DEF Backed, Nowhere
    <3> QED
      BY <1>10, <3>1, <3>2 DEF StopJob
  <2>3. found' \notin {"rebuilding", "index", "rebuilt"}
    BY <2>1 DEF RefreshInv
  <2> QED
    BY <1>1, <2>1, <2>2, <2>3 DEF RefreshInv
<1>11. CASE \E located \in SUBSET vectors : Gather(located)
  BY <1>1, <1>11, StoresStay DEF Gather, workTree, atWork
<1>12. CASE UNCHANGED indexVars
  BY <1>1, <1>12, StoresStay DEF indexVars, workTree, atWork, history
<1> QED
  BY <1>2, <1>3, <1>4, <1>5, <1>6, <1>7, <1>8, <1>9, <1>10, <1>11, <1>12 DEF IndexNext

(* A rebuild that finishes on a tree nobody changed leaves the chunks of    *)
(* that tree; after a refresh only those files are missing whose chunks a   *)
(* stopped job deleted.                                                     *)
THEOREM RefreshCorrect == IndexSpec => []RefreshInv
<1>1. IndexInit => RefreshInv
  <2> SUFFICES ASSUME IndexInit PROVE RefreshInv
    OBVIOUS
  <2>1. MaxEdits \in Nat /\ MaxStops \in Nat /\ 0 \in Versions
    BY IndexConstants DEF Versions
  <2>2. Nowhere \in Content /\ \A f \in Files : Nowhere[f] = 0
    BY <2>1 DEF Nowhere, Content
  <2>3. IndexTypeOK
    BY <2>1, <2>2 DEF IndexInit, IndexTypeOK
  <2> QED
    BY <2>2, <2>3 DEF IndexInit, RefreshInv, Backed
<1>2. RefreshInv /\ [IndexNext]_indexVars => RefreshInv'
  BY RefreshKeeps
<1> QED
  BY <1>1, <1>2, PTL DEF IndexSpec

(* Files keep to their versions, the stores and the cache to the files. *)
THEOREM IndexTypesKept == IndexSpec => []IndexTypeOK
<1>1. MapInv => IndexTypeOK
  BY DEF MapInv
<1> QED
  BY <1>1, MapCorrect, PTL

(* Whatever was changed, put back or stopped under a map, a refresh or a    *)
(* rebuild: what one answers for a tree nobody changes is of that tree.     *)
THEOREM LookupsStayCurrent == IndexSpec => []LookupsAreCurrent
<1>1. RefreshInv /\ found = "index" =>
        \A f \in Files : disk[f] # 0 => <<f, disk[f]>> \in vectors \/ f \in robbed
  BY DEF RefreshInv, Backed
<1>2. RefreshInv /\ found = "rebuilt" =>
        vectors = {<<f, disk[f]>> : f \in {g \in Files : disk[g] # 0}}
  BY DEF RefreshInv, ChunksOf
<1>3. MapInv /\ RefreshInv => LookupsAreCurrent
  BY <1>1, <1>2 DEF MapInv, LookupsAreCurrent
<1> QED
  BY <1>3, MapCorrect, RefreshCorrect, PTL

-----------------------------------------------------------------------------
(* The log of the questions                                                 *)

(* Only the last line can be without its end: whoever appends makes junk of *)
(* it, which nobody ever reads as a record again.                           *)
BookTyped ==
  /\ lines \in Seq(Lines) /\ Len(lines) <= MaxLines
  /\ desk \in [Terminals -> Desks]
  /\ tears \in 0 .. MaxTears /\ swallowed \in Nat
  /\ accepted \subseteq Questions \X Words /\ contested \subseteq Questions
  /\ \A t \in Terminals : desk[t].doing = "answering" => desk[t].word \in Words
LogShape == \A i \in DOMAIN lines : i < Len(lines) => lines[i].end \in Ended

(* A question has one opening record, and it comes before all that is done  *)
(* about it.                                                                *)
OpenedOnce ==
  /\ \A i \in DOMAIN lines : lines[i].of.rec = "opened" => lines[i].of.word = ""
  /\ \A i, j \in DOMAIN lines :
       lines[i].of.rec = "opened" /\ lines[j].of = lines[i].of => i = j
OpenedFirst ==
  /\ \A i \in DOMAIN lines : lines[i].of.rec # "opened" =>
       \E j \in DOMAIN lines : j < i /\ lines[j].of = Opening(lines[i].of.gate)
  /\ \A t \in Terminals : desk[t].doing # "nothing" =>
       \E j \in DOMAIN lines : lines[j].of = Opening(desk[t].gate)

(* A terminal between its check and its append knows of no other record on  *)
(* its question, unless the question is contested; so no record follows the *)
(* one that was accepted.                                                   *)
Closes(i, g) == lines[i].of.rec # "opened" /\ lines[i].of.gate = g
Windows == \A t \in Terminals, g \in Questions :
  InWindow(t, g) /\ Asked(g) /\ (\E i \in Completed : Closes(i, g)) => g \in contested
NoneAfter == \A g \in Questions, i \in Completed, m \in DOMAIN lines :
  Asked(g) /\ Closes(i, g) /\ Closes(m, g) /\ i < m /\ Readable(m) => g \in contested

(* What was confirmed is on record, or is about a question a record of which *)
(* was swallowed.                                                            *)
OnRecord(pair) == \E i \in Completed : lines[i].of = Word(pair)
Charged(S) ==
  /\ IsFiniteSet(S) /\ Cardinality(S) <= swallowed
  /\ \A pair \in accepted : pair[1] \in S \/ OnRecord(pair)
Confirmed == \E S \in SUBSET Questions : Charged(S)

BookInv ==
  /\ BookTyped /\ LogShape
  /\ OpenedOnce /\ OpenedFirst
  /\ Windows /\ NoneAfter /\ Confirmed
TornInv ==
  /\ swallowed + (IF Unended THEN 1 ELSE 0) <= tears
  /\ \A i \in DOMAIN lines : lines[i].end # "whole" => tears > 0

(* What an append does to the log: behind a line without its end it spoils  *)
(* that line, otherwise the log has one more.                               *)
Spoilt == {"junk", "garbled", "part", "split"}
Spoil ==
  /\ lines' \in Seq(Lines) /\ Len(lines') = Len(lines)
  /\ \A i \in DOMAIN lines :
       /\ lines'[i].of = lines[i].of
       /\ lines[i].end \in Ended => lines'[i] = lines[i]
       /\ lines[i].end \notin Ended => lines'[i].end \in Spoilt
       /\ i < Len(lines) => lines'[i] = lines[i]
Grow(r) ==
  /\ lines' \in Seq(Lines) /\ Len(lines') = Len(lines) + 1 /\ Len(lines') <= MaxLines
  /\ \A i \in DOMAIN lines : lines'[i] = lines[i] /\ lines[i].end \in Ended
  /\ lines'[Len(lines) + 1].of = r

(* Whoever appends either spoils the torn end of the log or adds a record   *)
(* to it; only a torn one is not whole.                                     *)
LEMMA LogSteps ==
  ASSUME BookTyped, LogShape, NEW r \in Records, AppendLine(r) \/ TearLine(r)
  PROVE  /\ Spoil \/ Grow(r)
         /\ Len(lines) \in Nat /\ DOMAIN lines = 1 .. Len(lines)
         /\ AppendLine(r) => \/ Unended /\ Spoil
                             \/ ~Unended /\ Grow(r) /\ lines'[Len(lines) + 1].end = "whole"
         /\ TearLine(r) => Spoil \/ (Grow(r) /\ lines'[Len(lines) + 1].end # "whole")
<1>1. lines \in Seq(Lines) /\ Len(lines) \in Nat /\ DOMAIN lines = 1 .. Len(lines)
  BY DEF BookTyped
<1>2. ASSUME Unended, NEW e \in Spoilt,
             lines' = Front(lines) \o <<[Last(lines) EXCEPT !.end = e]>>
      PROVE  Spoil
  <2> DEFINE n == Len(lines)
             l == [Last(lines) EXCEPT !.end = e]
  <2>1. n \in 1 .. n /\ n \in Nat \ {0} /\ Last(lines) = lines[n] /\ lines[n] \in Lines
    BY <1>1, <1>2 DEF Unended, Last
  <2>2. l \in Lines /\ l.of = lines[n].of /\ l.end = e
    BY <2>1, <1>2 DEF Lines, Ends, Ended, Spoilt
  <2>3. <<l>> \in Seq(Lines) /\ Len(<<l>>) = 1 /\ <<l>>[1] = l
    BY <2>2
  <2>4. /\ Front(lines) \in Seq(Lines) /\ Len(Front(lines)) = n - 1
        /\ \A i \in 1 .. n - 1 : Front(lines)[i] = lines[i]
    BY <1>1, <2>1 DEF Front
  <2> HIDE DEF l, n
  <2>5. /\ lines' \in Seq(Lines) /\ Len(lines') = n
        /\ \A i \in 1 .. n - 1 : lines'[i] = lines[i]
        /\ lines'[n] = l
    BY <1>2, <2>1, <2>3, <2>4 DEF l
  <2>6. lines[n].end \notin Ended
    BY <1>2, <2>1 DEF Unended
  <2>7. \A i \in DOMAIN lines : i = n \/ (i \in 1 .. n - 1 /\ lines'[i] = lines[i])
    BY <1>1, <2>1, <2>5 DEF n
  <2>8. \A i \in 1 .. n - 1 : lines[i].end \in Ended
    BY <1>1, <2>1 DEF LogShape, n
  <2>9. ASSUME NEW i \in DOMAIN lines
        PROVE  /\ lines'[i].of = lines[i].of
               /\ lines[i].end \in Ended => lines'[i] = lines[i]
               /\ lines[i].end \notin Ended => lines'[i].end \in Spoilt
               /\ i < Len(lines) => lines'[i] = lines[i]
    <3>1. CASE i = n
      BY <1>1, <1>2, <2>2, <2>5, <2>6, <3>1 DEF n
    <3>2. CASE i # n
      BY <2>7, <2>8, <3>2
    <3> QED
      BY <3>1, <3>2
  <2> QED
    BY <2>5, <2>9 DEF Spoil, n
<1>3. ASSUME ~Unended, Len(lines) < MaxLines, NEW e \in Ends,
             lines' = Append(lines, [of |-> r, end |-> e])
      PROVE  Grow(r) /\ lines'[Len(lines) + 1].end = e
  <2>1. [of |-> r, end |-> e] \in Lines
    BY DEF Lines
  <2>2. /\ lines' \in Seq(Lines) /\ Len(lines') = Len(lines) + 1
        /\ \A i \in 1 .. Len(lines) : lines'[i] = lines[i]
        /\ lines'[Len(lines) + 1] = [of |-> r, end |-> e]
    BY <1>1, <1>3, <2>1
  <2>3. \A i \in DOMAIN lines : lines[i].end \in Ended
    <3> TAKE i \in DOMAIN lines
    <3>1. CASE i < Len(lines)
      BY <3>1 DEF LogShape
    <3>2. CASE i = Len(lines)
      BY <1>1, <1>3, <3>2 DEF Unended, Last
    <3> QED
      BY <1>1, <3>1, <3>2
  <2> QED
    BY <1>1, <1>3, <2>2, <2>3, BookConstants DEF Grow
<1>4. ASSUME AppendLine(r)
      PROVE  \/ Unended /\ Spoil
             \/ ~Unended /\ Grow(r) /\ lines'[Len(lines) + 1].end = "whole"
  <2>1. CASE Unended
    <3>1. \E e \in Spoilt : lines' = Front(lines) \o <<[Last(lines) EXCEPT !.end = e]>>
      BY <1>4, <2>1 DEF AppendLine, Ending, Spoilt
    <3> QED
      BY <1>2, <2>1, <3>1
  <2>2. CASE ~Unended
    BY <1>3, <1>4, <2>2 DEF AppendLine, Ends, Ended
  <2> QED
    BY <2>1, <2>2
<1>5. ASSUME TearLine(r) PROVE Spoil \/ (Grow(r) /\ lines'[Len(lines) + 1].end # "whole")
  <2>1. CASE Unended
    <3>1. \E e \in Spoilt : lines' = Front(lines) \o <<[Last(lines) EXCEPT !.end = e]>>
      BY <1>5, <2>1 DEF TearLine, Ending, Spoilt
    <3> QED
      BY <1>2, <2>1, <3>1
  <2>2. CASE ~Unended
    <3>1. PICK e \in {"part", "unended", "split"} :
            Len(lines) < MaxLines /\ lines' = Append(lines, [of |-> r, end |-> e])
      BY <1>5, <2>2 DEF TearLine
    <3>2. e \in Ends /\ e # "whole"
      BY DEF Ends, Ended
    <3> QED
      BY <1>3, <2>2, <3>1, <3>2
  <2> QED
    BY <2>1, <2>2
<1> QED
  BY <1>1, <1>4, <1>5

(* The rest of a step: terminals leave, and what is remembered only grows. *)
Leaving ==
  /\ desk' \in [Terminals -> Desks]
  /\ \A t \in Terminals : desk'[t] = desk[t] \/ desk'[t] = Nobody
  /\ contested \subseteq contested' /\ contested' \subseteq Questions
  /\ tears' \in 0 .. MaxTears /\ swallowed' \in Nat /\ swallowed <= swallowed'

(* A terminal that ends, or that a kill ends, leaves the desks of the       *)
(* others as they are.                                                      *)
LEMMA LeavingKeeps ==
  ASSUME BookTyped, Leaving
  PROVE  /\ \A t \in Terminals : desk'[t].doing = "answering" => desk'[t].word \in Words
         /\ \A t \in Terminals : desk'[t].doing # "nothing" => desk'[t] = desk[t]
         /\ \A t \in Terminals, g \in Questions : InWindow(t, g)' => InWindow(t, g)
<1>1. Nobody.doing = "nothing"
  BY DEF Nobody
<1>2. \A t \in Terminals : desk'[t].doing # "nothing" => desk'[t] = desk[t]
  BY <1>1 DEF Leaving
<1> QED
  BY <1>2 DEF InWindow, BookTyped

(* A spoiled line is no new record, and takes none away that could still be *)
(* read.                                                                    *)
LEMMA SpoilKeeps ==
  ASSUME BookInv, Spoil, Leaving,
         \/ accepted' = accepted
         \/ /\ swallowed' = swallowed + 1
            /\ \E g \in Questions, w \in Words : accepted' = accepted \cup {<<g, w>>}
  PROVE  BookInv'
<1>1. /\ BookTyped /\ LogShape /\ OpenedOnce /\ OpenedFirst
      /\ Windows /\ NoneAfter /\ Confirmed
  BY DEF BookInv
<1>2. /\ lines \in Seq(Lines) /\ Len(lines) \in Nat /\ Len(lines') = Len(lines)
      /\ DOMAIN lines = 1 .. Len(lines) /\ DOMAIN lines' = DOMAIN lines
  BY <1>1 DEF BookTyped, Spoil
<1>3. /\ \A i \in DOMAIN lines : lines'[i].of = lines[i].of
      /\ \A i \in DOMAIN lines : i \in Completed' <=> i \in Completed
      /\ \A i \in DOMAIN lines : Readable(i)' => Readable(i)
  BY <1>2 DEF Spoil, Spoilt, Ended, Completed, Readable
<1>4. Completed' = Completed /\ Completed \subseteq DOMAIN lines
  BY <1>2, <1>3 DEF Completed
<1>5. /\ \A t \in Terminals : desk'[t].doing = "answering" => desk'[t].word \in Words
      /\ \A t \in Terminals : desk'[t].doing # "nothing" => desk'[t] = desk[t]
      /\ \A t \in Terminals, g \in Questions : InWindow(t, g)' => InWindow(t, g)
  BY <1>1, LeavingKeeps
<1>6. BookTyped'
  <2>1. accepted' \subseteq Questions \X Words
    BY <1>1 DEF BookTyped
  <2> QED
    BY <1>1, <1>2, <1>5, <2>1 DEF BookTyped, Spoil, Leaving
<1>7. LogShape'
  BY <1>1, <1>2 DEF LogShape, Spoil
<1>8. OpenedOnce'
  BY <1>1, <1>2, <1>3 DEF OpenedOnce
<1>9. OpenedFirst'
  <2>1. ASSUME NEW i \in DOMAIN lines', lines'[i].of.rec # "opened"
        PROVE  \E j \in DOMAIN lines' : j < i /\ lines'[j].of = Opening(lines'[i].of.gate)
    BY <1>1, <1>2, <1>3, <2>1 DEF OpenedFirst
  <2>2. ASSUME NEW t \in Terminals, desk'[t].doing # "nothing"
        PROVE  \E j \in DOMAIN lines' : lines'[j].of = Opening(desk'[t].gate)
    BY <1>1, <1>2, <1>3, <1>5, <2>2 DEF OpenedFirst
  <2> QED
    BY <2>1, <2>2 DEF OpenedFirst, Opening
<1>10. /\ \A g : Asked(g)' <=> Asked(g)
       /\ \A g : \A i \in DOMAIN lines : Closes(i, g)' <=> Closes(i, g)
  BY <1>3, <1>4 DEF Asked, Closes, Opening
<1>11. Windows'
  BY <1>1, <1>4, <1>5, <1>10 DEF Windows, Leaving
<1>12. NoneAfter'
  BY <1>1, <1>2, <1>3, <1>4, <1>10 DEF NoneAfter, Leaving
<1>13. Confirmed'
  <2>1. PICK S \in SUBSET Questions : Charged(S)
    BY <1>1 DEF Confirmed
  <2>2. IsFiniteSet(S) /\ Cardinality(S) \in Nat /\ Cardinality(S) <= swallowed
    BY <2>1, FS_CardinalityType DEF Charged
  <2>3. \A pair : OnRecord(pair) => OnRecord(pair)'
    BY <1>3, <1>4 DEF OnRecord, Word
  <2>4. CASE accepted' = accepted
    <3>1. Charged(S)'
      BY <1>1, <2>1, <2>2, <2>3, <2>4 DEF Charged, Leaving, BookTyped
    <3> QED
      BY <3>1 DEF Confirmed
  <2>5. CASE /\ swallowed' = swallowed + 1
             /\ \E g \in Questions, w \in Words : accepted' = accepted \cup {<<g, w>>}
    <3>1. PICK g \in Questions, w \in Words : accepted' = accepted \cup {<<g, w>>}
      BY <2>5
    <3> DEFINE T == S \cup {g}
    <3>2. IsFiniteSet(T) /\ Cardinality(T) \in Nat /\ Cardinality(T) <= Cardinality(S) + 1
      <4>1. IsFiniteSet(T) /\ (Cardinality(T) = Cardinality(S) \/ Cardinality(T) = Cardinality(S) + 1)
        BY <2>2, FS_AddElement
      <4> QED
        BY <2>2, <4>1, FS_CardinalityType
    <3>3. Cardinality(T) <= swallowed'
      BY <1>1, <2>2, <2>5, <3>2 DEF BookTyped
    <3>4. \A pair \in accepted' : pair[1] \in T \/ OnRecord(pair)'
      BY <2>1, <2>3, <3>1 DEF Charged
    <3>5. T \in SUBSET Questions
      OBVIOUS
    <3> HIDE DEF T
    <3>6. Charged(T)'
      BY <3>2, <3>3, <3>4 DEF Charged
    <3> QED
      BY <3>5, <3>6 DEF Confirmed
  <2> QED
    BY <2>4, <2>5
<1> QED
  BY <1>6, <1>7, <1>8, <1>9, <1>11, <1>12, <1>13 DEF BookInv

(* What stays true of a log with one more record. *)
LEMMA GrowKeeps ==
  ASSUME BookInv, NEW r \in Records, Grow(r), Leaving,
         accepted' \subseteq Questions \X Words
  PROVE  /\ BookTyped' /\ LogShape'
         /\ Len(lines) \in Nat /\ DOMAIN lines' = DOMAIN lines \cup {Len(lines) + 1}
         /\ Len(lines) + 1 \notin DOMAIN lines
         /\ \A i \in DOMAIN lines : lines'[i] = lines[i] /\ i < Len(lines) + 1
         /\ \A i \in DOMAIN lines : i \in Completed' <=> i \in Completed
         /\ \A t \in Terminals : desk'[t].doing # "nothing" => desk'[t] = desk[t]
         /\ \A t \in Terminals, g \in Questions : InWindow(t, g)' => InWindow(t, g)
         /\ Completed \subseteq DOMAIN lines /\ Completed' \subseteq DOMAIN lines'
<1>1. BookTyped /\ LogShape
  BY DEF BookInv
<1>2. /\ lines \in Seq(Lines) /\ Len(lines) \in Nat /\ DOMAIN lines = 1 .. Len(lines)
      /\ DOMAIN lines' = 1 .. Len(lines) + 1
  BY <1>1 DEF BookTyped, Grow
<1>3. /\ \A t \in Terminals : desk'[t].doing = "answering" => desk'[t].word \in Words
      /\ \A t \in Terminals : desk'[t].doing # "nothing" => desk'[t] = desk[t]
      /\ \A t \in Terminals, g \in Questions : InWindow(t, g)' => InWindow(t, g)
  BY <1>1, LeavingKeeps
<1>4. BookTyped'
  BY <1>1, <1>3 DEF BookTyped, Grow, Leaving
<1>5. DOMAIN lines' = DOMAIN lines \cup {Len(lines) + 1} /\ Len(lines) + 1 \notin DOMAIN lines
  BY <1>2
<1>6. \A i \in DOMAIN lines : lines'[i] = lines[i] /\ i < Len(lines) + 1
  BY <1>2 DEF Grow
<1>7. LogShape'
  BY <1>2, <1>5, <1>6 DEF LogShape, Grow
<1> QED
  BY <1>2, <1>3, <1>4, <1>5, <1>6, <1>7 DEF Completed

(* A question is asked: nothing was done about it yet. *)
LEMMA OpenKeeps ==
  ASSUME BookInv, NEW g \in Questions, New(g), Grow(Opening(g)), Leaving, accepted' = accepted
  PROVE  BookInv'
<1> DEFINE n == Len(lines) + 1
<1>1. /\ BookTyped /\ LogShape /\ OpenedOnce /\ OpenedFirst
      /\ Windows /\ NoneAfter /\ Confirmed
  BY DEF BookInv
<1>2. Opening(g) \in Records /\ Opening(g).rec = "opened" /\ Opening(g).gate = g /\ Opening(g).word = ""
  BY DEF Opening, Records
<1>3. /\ BookTyped' /\ LogShape'
      /\ Len(lines) \in Nat /\ DOMAIN lines' = DOMAIN lines \cup {n} /\ n \notin DOMAIN lines
      /\ \A i \in DOMAIN lines : lines'[i] = lines[i] /\ i < n
      /\ \A i \in DOMAIN lines : i \in Completed' <=> i \in Completed
      /\ \A t \in Terminals : desk'[t].doing # "nothing" => desk'[t] = desk[t]
      /\ \A t \in Terminals, q \in Questions : InWindow(t, q)' => InWindow(t, q)
      /\ Completed \subseteq DOMAIN lines /\ Completed' \subseteq DOMAIN lines'
  BY <1>1, <1>2, GrowKeeps DEF BookTyped
<1>4. lines'[n].of = Opening(g) /\ \A i \in DOMAIN lines : lines[i].of # Opening(g)
  BY DEF Grow, New
<1>5. OpenedOnce'
  <2>1. \A i \in DOMAIN lines' : lines'[i].of.rec = "opened" => lines'[i].of.word = ""
    BY <1>1, <1>2, <1>3, <1>4 DEF OpenedOnce
  <2>2. ASSUME NEW i \in DOMAIN lines', NEW j \in DOMAIN lines',
               lines'[i].of.rec = "opened", lines'[j].of = lines'[i].of
        PROVE  i = j
    <3>1. CASE i \in DOMAIN lines /\ j \in DOMAIN lines
      BY <1>1, <1>3, <2>2, <3>1 DEF OpenedOnce
    <3>2. CASE i = n /\ j \in DOMAIN lines
      BY <1>3, <1>4, <2>2, <3>2
    <3>3. CASE i \in DOMAIN lines /\ j = n
      BY <1>3, <1>4, <2>2, <3>3
    <3> QED
      BY <1>3, <3>1, <3>2, <3>3
  <2> QED
    BY <2>1, <2>2 DEF OpenedOnce
<1>6. OpenedFirst'
  <2>1. ASSUME NEW i \in DOMAIN lines', lines'[i].of.rec # "opened"
        PROVE  \E j \in DOMAIN lines' : j < i /\ lines'[j].of = Opening(lines'[i].of.gate)
    <3>1. i \in DOMAIN lines /\ lines'[i] = lines[i]
      BY <1>2, <1>3, <1>4, <2>1
    <3>2. PICK j \in DOMAIN lines : j < i /\ lines[j].of = Opening(lines[i].of.gate)
      BY <1>1, <2>1, <3>1 DEF OpenedFirst
    <3> QED
      BY <1>3, <3>1, <3>2
  <2>2. ASSUME NEW t \in Terminals, desk'[t].doing # "nothing"
        PROVE  \E j \in DOMAIN lines' : lines'[j].of = Opening(desk'[t].gate)
    BY <1>1, <1>3, <2>2 DEF OpenedFirst
  <2> QED
    BY <2>1, <2>2 DEF OpenedFirst, Opening
<1>7. \A i \in DOMAIN lines' : lines'[i].of.rec # "opened" =>
        i \in DOMAIN lines /\ lines'[i] = lines[i] /\ lines'[i].of.gate # g
  <2> SUFFICES ASSUME NEW i \in DOMAIN lines', lines'[i].of.rec # "opened"
               PROVE  i \in DOMAIN lines /\ lines'[i] = lines[i] /\ lines'[i].of.gate # g
    OBVIOUS
  <2>1. i \in DOMAIN lines /\ lines'[i] = lines[i]
    BY <1>2, <1>3, <1>4
  <2>2. \E j \in DOMAIN lines : lines[j].of = Opening(lines[i].of.gate)
    BY <1>1, <2>1 DEF OpenedFirst
  <2> QED
    BY <1>4, <2>1, <2>2
<1>8. \A q \in Questions : q # g => (Asked(q)' <=> Asked(q))
  <2>1. \A q : q # g => Opening(q) # Opening(g)
    BY <1>2 DEF Opening
  <2>2. \A q : q # g => ((\E i \in Completed' : lines'[i].of = Opening(q))
                          <=> (\E i \in Completed : lines[i].of = Opening(q)))
    BY <1>3, <1>4, <2>1
  <2> QED
    BY <2>2 DEF Asked, Opening
<1>9. Windows'
  <2> SUFFICES ASSUME NEW t \in Terminals, NEW q \in Questions, InWindow(t, q)', Asked(q)',
                      NEW i \in Completed', Closes(i, q)'
               PROVE  q \in contested'
    BY DEF Windows
  <2>1. i \in Completed /\ Closes(i, q) /\ q # g
    BY <1>3, <1>7 DEF Closes
  <2> QED
    BY <1>1, <1>3, <1>8, <2>1 DEF Windows, Leaving
<1>10. NoneAfter'
  <2> SUFFICES ASSUME NEW q \in Questions, NEW i \in Completed', NEW m \in DOMAIN lines',
                      Asked(q)', Closes(i, q)', Closes(m, q)', i < m, Readable(m)'
               PROVE  q \in contested'
    BY DEF NoneAfter
  <2>1. i \in Completed /\ Closes(i, q) /\ q # g /\ m \in DOMAIN lines /\ Closes(m, q) /\ Readable(m)
    BY <1>3, <1>7 DEF Closes, Readable
  <2> QED
    BY <1>1, <1>8, <2>1 DEF NoneAfter, Leaving
<1>11. Confirmed'
  <2>1. PICK S \in SUBSET Questions : Charged(S)
    BY <1>1 DEF Confirmed
  <2>2. \A pair : OnRecord(pair) => OnRecord(pair)'
    BY <1>3 DEF OnRecord, Word
  <2>3. Cardinality(S) <= swallowed'
    BY <1>1, <2>1, FS_CardinalityType DEF Charged, Leaving, BookTyped
  <2>4. Charged(S)'
    BY <2>1, <2>2, <2>3 DEF Charged
  <2> QED
    BY <2>4 DEF Confirmed
<1> QED
  BY <1>3, <1>5, <1>6, <1>9, <1>10, <1>11 DEF BookInv

(* A record about a question that has one already is contested, and whoever *)
(* else is about to append another one now is too.                          *)
LEMMA SettleKeeps ==
  ASSUME BookInv, NEW t \in Terminals, desk[t].doing \in {"answering", "dismissing"},
         Grow(RecordOf(t)), Leaving, Away(t), Contest(t),
         \/ accepted' = accepted
         \/ /\ lines'[Len(lines) + 1].end = "whole" /\ desk[t].doing = "answering"
            /\ accepted' = accepted \cup {<<desk[t].gate, desk[t].word>>}
  PROVE  BookInv'
<1> DEFINE n == Len(lines) + 1
           g == desk[t].gate
<1>1. /\ BookTyped /\ LogShape /\ OpenedOnce /\ OpenedFirst
      /\ Windows /\ NoneAfter /\ Confirmed
  BY DEF BookInv
<1>2. /\ desk[t] \in Desks /\ g \in Questions /\ desk[t].word \in Words \cup {""}
      /\ desk[t].doing = "answering" => desk[t].word \in Words
      /\ Nobody.doing = "nothing"
  <2>1. desk[t] \in Desks /\ Nobody.doing = "nothing"
    BY <1>1 DEF BookTyped, Nobody
  <2>2. desk[t] # Nobody
    BY <2>1
  <2> QED
    BY <1>1, <2>1, <2>2 DEF Desks, BookTyped
<1>3. /\ RecordOf(t) \in Records /\ RecordOf(t).rec \in {"answered", "dismissed"}
      /\ RecordOf(t).gate = g
      /\ desk[t].doing = "answering" =>
           RecordOf(t) = [rec |-> "answered", gate |-> g, word |-> desk[t].word]
  BY <1>2 DEF RecordOf, Records
<1>4. /\ BookTyped' /\ LogShape'
      /\ Len(lines) \in Nat /\ DOMAIN lines' = DOMAIN lines \cup {n} /\ n \notin DOMAIN lines
      /\ \A i \in DOMAIN lines : lines'[i] = lines[i] /\ i < n
      /\ \A i \in DOMAIN lines : i \in Completed' <=> i \in Completed
      /\ \A u \in Terminals : desk'[u].doing # "nothing" => desk'[u] = desk[u]
      /\ \A u \in Terminals, q \in Questions : InWindow(u, q)' => InWindow(u, q)
      /\ Completed \subseteq DOMAIN lines /\ Completed' \subseteq DOMAIN lines'
  <2>1. accepted' \subseteq Questions \X Words
    <3>1. accepted \subseteq Questions \X Words
      BY <1>1 DEF BookTyped
    <3>2. desk[t].doing = "answering" => <<g, desk[t].word>> \in Questions \X Words
      BY <1>2
    <3> QED
      BY <3>1, <3>2
  <2> QED
    BY <1>3, <2>1, GrowKeeps
<1>5. lines'[n].of = RecordOf(t)
  BY DEF Grow
<1>6. \A q : \A i \in DOMAIN lines' : lines'[i].of = Opening(q) => i \in DOMAIN lines
  <2>1. \A q : Opening(q).rec = "opened"
    BY DEF Opening
  <2>2. \A i \in DOMAIN lines' : i \in DOMAIN lines \/ lines'[i].of.rec # "opened"
    BY <1>3, <1>4, <1>5
  <2> QED
    BY <2>1, <2>2
<1>7. OpenedOnce'
  <2>1. \A i \in DOMAIN lines' : lines'[i].of.rec = "opened" => i \in DOMAIN lines /\ lines'[i] = lines[i]
    BY <1>3, <1>4, <1>5
  <2> QED
    BY <1>1, <2>1 DEF OpenedOnce
<1>8. OpenedFirst'
  <2>1. ASSUME NEW i \in DOMAIN lines', lines'[i].of.rec # "opened"
        PROVE  \E j \in DOMAIN lines' : j < i /\ lines'[j].of = Opening(lines'[i].of.gate)
    <3>1. CASE i = n
      <4>1. PICK j \in DOMAIN lines : lines[j].of = Opening(g)
        BY <1>1 DEF OpenedFirst
      <4> QED
        BY <1>3, <1>4, <1>5, <3>1, <4>1
    <3>2. CASE i \in DOMAIN lines
      <4>1. lines'[i] = lines[i]
        BY <1>4, <3>2
      <4>2. PICK j \in DOMAIN lines : j < i /\ lines[j].of = Opening(lines[i].of.gate)
        BY <1>1, <2>1, <3>2, <4>1 DEF OpenedFirst
      <4> QED
        BY <1>4, <4>1, <4>2
    <3> QED
      BY <1>4, <3>1, <3>2
  <2>2. ASSUME NEW u \in Terminals, desk'[u].doing # "nothing"
        PROVE  \E j \in DOMAIN lines' : lines'[j].of = Opening(desk'[u].gate)
    BY <1>1, <1>4, <2>2 DEF OpenedFirst
  <2> QED
    BY <2>1, <2>2 DEF OpenedFirst, Opening
<1>9. \A q \in Questions : Asked(q)' => Asked(q)
  BY <1>4, <1>6 DEF Asked, Opening
<1>10. Windows'
  <2> SUFFICES ASSUME NEW u \in Terminals, NEW q \in Questions, InWindow(u, q)', Asked(q)',
                      NEW i \in Completed', Closes(i, q)'
               PROVE  q \in contested'
    BY DEF Windows
  <2>1. CASE i \in DOMAIN lines
    <3>1. i \in Completed /\ Closes(i, q)
      BY <1>4, <2>1 DEF Closes
    <3> QED
      BY <1>1, <1>4, <1>9, <3>1 DEF Windows, Leaving
  <2>2. CASE i = n
    <3>1. q = g
      BY <1>3, <1>5, <2>2 DEF Closes
    <3>2. desk'[t].doing = "nothing"
      BY <1>1, <1>2 DEF Away, BookTyped
    <3>3. u # t
      BY <3>2 DEF InWindow
    <3>4. InWindow(u, g)
      BY <1>4, <3>1
    <3> QED
      BY <3>1, <3>3, <3>4 DEF Contest
  <2> QED
    BY <1>4, <2>1, <2>2
<1>11. NoneAfter'
  <2> SUFFICES ASSUME NEW q \in Questions, NEW i \in Completed', NEW m \in DOMAIN lines',
                      Asked(q)', Closes(i, q)', Closes(m, q)', i < m, Readable(m)'
               PROVE  q \in contested'
    BY DEF NoneAfter
  <2>1. i \in Completed /\ Closes(i, q)
    <3>1. i # n
      <4>1. \A k \in DOMAIN lines' : k <= n /\ k \in Nat
        BY <1>4 DEF BookTyped
      <4> QED
        BY <1>4, <4>1
    <3> QED
      BY <1>4, <3>1 DEF Closes
  <2>2. CASE m \in DOMAIN lines
    BY <1>1, <1>4, <1>9, <2>1, <2>2 DEF NoneAfter, Leaving, Closes, Readable
  <2>3. CASE m = n
    <3>1. q = g /\ InWindow(t, q)
      BY <1>3, <1>5, <2>3 DEF Closes, InWindow
    <3> QED
      BY <1>1, <1>9, <2>1, <3>1 DEF Windows, Leaving
  <2> QED
    BY <1>4, <2>2, <2>3
<1>12. Confirmed'
  <2>1. PICK S \in SUBSET Questions : Charged(S)
    BY <1>1 DEF Confirmed
  <2>2. Cardinality(S) <= swallowed'
    BY <1>1, <2>1, FS_CardinalityType DEF Charged, Leaving, BookTyped
  <2>3. \A pair : OnRecord(pair) => OnRecord(pair)'
    BY <1>4 DEF OnRecord, Word
  <2>4. ASSUME NEW pair \in accepted' PROVE pair[1] \in S \/ OnRecord(pair)'
    <3>1. CASE pair \in accepted
      BY <2>1, <2>3, <3>1 DEF Charged
    <3>2. CASE pair \notin accepted
      <4>1. /\ lines'[n].end = "whole" /\ desk[t].doing = "answering"
            /\ pair = <<g, desk[t].word>>
        BY <3>2
      <4>2. n \in Completed'
        BY <1>4, <4>1 DEF Completed
      <4>3. Word(pair) = RecordOf(t)
        BY <1>3, <4>1 DEF Word
      <4>4. lines'[n].of = Word(pair)
        BY <1>5, <4>3
      <4> QED
        BY <4>2, <4>4 DEF OnRecord, Word
    <3> QED
      BY <3>1, <3>2
  <2>5. Charged(S)'
    BY <2>1, <2>2, <2>4 DEF Charged
  <2> QED
    BY <2>5 DEF Confirmed
<1> QED
  BY <1>4, <1>7, <1>8, <1>10, <1>11, <1>12 DEF BookInv

(* A whole record about a question that was asked settles it for all who    *)
(* read.                                                                    *)
LEMMA WholeCloses ==
  ASSUME BookInv, NEW g \in Questions, Asked(g), NEW i \in Completed, Closes(i, g)
  PROVE  i \in Closing(g) /\ ~IsOpen(g)
<1>1. PICK k \in Completed : lines[k].of = Opening(g)
  BY DEF Asked
<1>2. i \in DOMAIN lines /\ k \in DOMAIN lines /\ Readable(i) /\ Readable(k)
  BY DEF Completed, Readable
<1>3. PICK j \in DOMAIN lines : j < i /\ lines[j].of = Opening(g)
  BY <1>2 DEF BookInv, OpenedFirst, Closes
<1>4. Opening(g).rec = "opened" /\ Opening(g).gate = g
  BY DEF Opening
<1>5. j = k
  BY <1>1, <1>2, <1>3, <1>4 DEF BookInv, OpenedOnce
<1>6. k \in Opened(g)
  BY <1>1, <1>2, <1>4 DEF Opened
<1>7. i \in Closing(g)
  BY <1>2, <1>3, <1>5, <1>6 DEF Closing, Closes
<1> QED
  BY <1>7 DEF IsOpen

(* A terminal goes on, or leaves; the log is as it was. *)
LEMMA DeskKeeps ==
  ASSUME BookInv, NEW t \in Terminals, NEW d \in Desks, desk' = [desk EXCEPT ![t] = d],
         d.doing = "answering" => d.word \in Words,
         d.doing # "nothing" => d.gate \in Questions /\ IsOpen(d.gate),
         UNCHANGED <<lines, tears, accepted, contested, swallowed>>
  PROVE  BookInv'
<1>1. /\ BookTyped /\ LogShape /\ OpenedOnce /\ OpenedFirst
      /\ Windows /\ NoneAfter /\ Confirmed
  BY DEF BookInv
<1>2. /\ desk' \in [Terminals -> Desks] /\ desk'[t] = d
      /\ \A u \in Terminals \ {t} : desk'[u] = desk[u]
  BY <1>1 DEF BookTyped
<1>3. BookTyped'
  <2>1. \A u \in Terminals : desk'[u].doing = "answering" => desk'[u].word \in Words
    BY <1>1, <1>2 DEF BookTyped
  <2> QED
    BY <1>1, <1>2, <2>1 DEF BookTyped
<1>4. LogShape' /\ OpenedOnce'
  BY <1>1 DEF LogShape, OpenedOnce
<1>5. OpenedFirst'
  <2>1. ASSUME NEW u \in Terminals, desk'[u].doing # "nothing"
        PROVE  \E j \in DOMAIN lines : lines[j].of = Opening(desk'[u].gate)
    <3>1. CASE u = t
      <4>1. PICK j \in DOMAIN lines : lines[j].of.rec = "opened" /\ lines[j].of.gate = d.gate
        BY <1>2, <2>1, <3>1 DEF IsOpen, Opened
      <4>2. lines[j].of \in Records /\ lines[j].of.word = ""
        <5>1. lines[j] \in Lines
          BY <1>1 DEF BookTyped
        <5> QED
          BY <1>1, <4>1, <5>1 DEF Lines, OpenedOnce
      <4>3. lines[j].of = Opening(d.gate)
        BY <4>1, <4>2 DEF Records, Opening
      <4> QED
        BY <1>2, <3>1, <4>3
    <3>2. CASE u # t
      BY <1>1, <1>2, <2>1, <3>2 DEF OpenedFirst
    <3> QED
      BY <3>1, <3>2
  <2> QED
    BY <1>1, <2>1 DEF OpenedFirst, Opening
<1>6. /\ \A q : Asked(q)' <=> Asked(q)
      /\ \A i, q : Closes(i, q)' <=> Closes(i, q)
      /\ \A i : Readable(i)' <=> Readable(i)
      /\ Completed' = Completed
  BY DEF Asked, Closes, Readable, Completed, Opening
<1>7. Windows'
  <2> SUFFICES ASSUME NEW u \in Terminals, NEW q \in Questions, InWindow(u, q)', Asked(q)',
                      NEW i \in Completed', Closes(i, q)'
               PROVE  q \in contested'
    BY DEF Windows
  <2>1. ~IsOpen(q)
    BY <1>6, WholeCloses
  <2>2. u # t
    <3>1. SUFFICES ASSUME u = t PROVE FALSE
      OBVIOUS
    <3>2. d.doing \in {"answering", "dismissing"} /\ d.gate = q
      BY <1>2, <3>1 DEF InWindow
    <3> QED
      BY <2>1, <3>2
  <2>3. InWindow(u, q)
    BY <1>2, <2>2 DEF InWindow
  <2> QED
    BY <1>1, <1>6, <2>3 DEF Windows
<1>8. NoneAfter'
  BY <1>1, <1>6 DEF NoneAfter
<1>9. Confirmed'
  <2>1. \A pair : OnRecord(pair)' <=> OnRecord(pair)
    BY <1>6 DEF OnRecord, Word
  <2> QED
    BY <1>1, <2>1 DEF Confirmed, Charged
<1> QED
  BY <1>3, <1>4, <1>5, <1>7, <1>8, <1>9 DEF BookInv

(* Whatever the agents, the terminals and the writers that are killed do. *)
LEMMA BookKeeps ==
  ASSUME BookInv, [BookNext]_bookVars
  PROVE  BookInv'
<1>1. /\ BookTyped /\ LogShape /\ swallowed \in Nat /\ tears \in 0 .. MaxTears /\ MaxTears \in Nat
      /\ desk \in [Terminals -> Desks] /\ contested \subseteq Questions
  BY BookConstants DEF BookInv, BookTyped
<1>2. ASSUME NEW r, AppendLine(r) PROVE swallowed' \in Nat /\ swallowed <= swallowed'
  BY <1>1, <1>2 DEF AppendLine
<1>3. ASSUME NEW r, TearLine(r)
      PROVE  swallowed' \in Nat /\ swallowed <= swallowed' /\ tears' \in 0 .. MaxTears
  BY <1>1, <1>3 DEF TearLine
<1>4. Nobody \in Desks /\ Nobody.doing = "nothing"
  BY DEF Desks, Nobody
<1>5. ASSUME NEW g \in Questions, OpenGate(g) \/ DieOpening(g) PROVE BookInv'
  <2>1. Opening(g) \in Records
    BY DEF Opening, Records
  <2>2. /\ New(g) /\ (AppendLine(Opening(g)) \/ TearLine(Opening(g)))
        /\ UNCHANGED <<desk, accepted, contested>>
        /\ tears' \in 0 .. MaxTears /\ swallowed' \in Nat /\ swallowed <= swallowed'
    BY <1>1, <1>2, <1>3, <1>5 DEF OpenGate, DieOpening
  <2>3. Leaving
    BY <1>1, <2>2 DEF Leaving
  <2>4. Spoil \/ Grow(Opening(g))
    BY <1>1, <2>1, <2>2, LogSteps
  <2>5. accepted' = accepted /\ New(g)
    BY <2>2
  <2>6. CASE Spoil
    BY <2>3, <2>5, <2>6, SpoilKeeps
  <2>7. CASE Grow(Opening(g))
    BY <2>3, <2>5, <2>7, OpenKeeps
  <2> QED
    BY <2>4, <2>6, <2>7
<1>6. ASSUME NEW t \in Terminals, SettleGate(t) \/ DieSettling(t) PROVE BookInv'
  <2>1. desk[t].doing \in {"answering", "dismissing"} /\ desk[t] \in Desks /\ desk[t] # Nobody
    BY <1>1, <1>4, <1>6 DEF SettleGate, DieSettling
  <2>2. RecordOf(t) \in Records /\ desk[t].gate \in Questions
    BY <2>1 DEF RecordOf, Records, Desks
  <2>3. /\ AppendLine(RecordOf(t)) \/ TearLine(RecordOf(t))
        /\ Contest(t) /\ Away(t)
        /\ tears' \in 0 .. MaxTears /\ swallowed' \in Nat /\ swallowed <= swallowed'
    BY <1>1, <1>2, <1>3, <1>6 DEF SettleGate, DieSettling
  <2>4. Leaving
    <3>1. desk' \in [Terminals -> Desks] /\ \A u \in Terminals : desk'[u] = desk[u] \/ desk'[u] = Nobody
      BY <1>1, <1>4, <2>3 DEF Away
    <3>2. contested \subseteq contested' /\ contested' \subseteq Questions
      BY <1>1, <2>2, <2>3 DEF Contest
    <3> QED
      BY <2>3, <3>1, <3>2 DEF Leaving
  <2>5. CASE SettleGate(t)
    <3>1. AppendLine(RecordOf(t))
      BY <2>5 DEF SettleGate
    <3>2. CASE Unended /\ Spoil
      <4>1. swallowed' = swallowed + 1
        BY <3>1, <3>2 DEF AppendLine
      <4>2. \/ accepted' = accepted
            \/ \E w \in Words : accepted' = accepted \cup {<<desk[t].gate, w>>}
        BY <1>1, <2>1, <2>5 DEF SettleGate, BookInv, BookTyped
      <4> QED
        BY <2>2, <2>4, <3>2, <4>1, <4>2, SpoilKeeps
    <3>3. CASE ~Unended /\ Grow(RecordOf(t)) /\ lines'[Len(lines) + 1].end = "whole"
      <4>1. \/ accepted' = accepted
            \/ desk[t].doing = "answering" /\ accepted' = accepted \cup {<<desk[t].gate, desk[t].word>>}
        BY <2>5 DEF SettleGate
      <4> QED
        BY <2>1, <2>3, <2>4, <3>3, <4>1, SettleKeeps
    <3> QED
      BY <1>1, <2>2, <3>1, <3>2, <3>3, LogSteps
  <2>6. CASE DieSettling(t)
    <3>1. TearLine(RecordOf(t)) /\ accepted' = accepted
      BY <2>6 DEF DieSettling
    <3>2. Spoil \/ Grow(RecordOf(t))
      BY <1>1, <2>2, <3>1, LogSteps
    <3> QED
      BY <2>1, <2>3, <2>4, <3>1, <3>2, SpoilKeeps, SettleKeeps
  <2> QED
    BY <1>6, <2>5, <2>6
<1>7. ASSUME NEW t \in Terminals, NEW g \in Questions, ShowGate(t, g) PROVE BookInv'
  <2>1. PICK what \in {"asking", "dismissing"} : At(t, what, g, "")
    BY <1>7 DEF ShowGate
  <2> DEFINE d == [doing |-> what, gate |-> g, word |-> ""]
  <2>2. d \in Desks /\ d.doing # "answering" /\ d.gate = g
    BY DEF Desks
  <2>3. /\ desk' = [desk EXCEPT ![t] = d] /\ IsOpen(g)
        /\ UNCHANGED <<lines, tears, accepted, contested, swallowed>>
    BY <1>7, <2>1 DEF ShowGate, At
  <2> HIDE DEF d
  <2> QED
    BY <2>2, <2>3, DeskKeeps
<1>8. ASSUME NEW t \in Terminals, NEW w \in Words, CheckGate(t, w) PROVE BookInv'
  <2> DEFINE d == [doing |-> "answering", gate |-> desk[t].gate, word |-> w]
  <2>1. desk[t] \in Desks /\ desk[t] # Nobody /\ desk[t].gate \in Questions
    BY <1>1, <1>4, <1>8 DEF CheckGate, Desks
  <2>2. d \in Desks /\ d.word \in Words /\ d.gate = desk[t].gate
    BY <2>1 DEF Desks
  <2>3. UNCHANGED <<lines, tears, accepted, contested, swallowed>>
    BY <1>8 DEF CheckGate
  <2>4. CASE IsOpen(desk[t].gate)
    <3>1. desk' = [desk EXCEPT ![t] = d]
      BY <1>8, <2>4 DEF CheckGate, At
    <3> HIDE DEF d
    <3> QED
      BY <2>1, <2>2, <2>3, <2>4, <3>1, DeskKeeps
  <2>5. CASE ~IsOpen(desk[t].gate)
    <3>1. desk' = [desk EXCEPT ![t] = Nobody]
      BY <1>8, <2>5 DEF CheckGate, Away
    <3> QED
      BY <1>4, <2>3, <3>1, DeskKeeps
  <2> QED
    BY <2>4, <2>5
<1>9. ASSUME NEW t \in Terminals, Quit(t) PROVE BookInv'
  <2>1. desk' = [desk EXCEPT ![t] = Nobody] /\ UNCHANGED <<lines, tears, accepted, contested, swallowed>>
    BY <1>9 DEF Quit, Away
  <2> QED
    BY <1>4, <2>1, DeskKeeps
<1>10. CASE UNCHANGED bookVars
  <2>1. /\ BookTyped' /\ LogShape' /\ OpenedOnce' /\ OpenedFirst'
    BY <1>10 DEF bookVars, BookInv, BookTyped, LogShape, OpenedOnce, OpenedFirst, Opening
  <2>2. /\ \A q : Asked(q)' <=> Asked(q)
        /\ \A i, q : Closes(i, q)' <=> Closes(i, q)
        /\ \A i : Readable(i)' <=> Readable(i)
        /\ \A u, q : InWindow(u, q)' <=> InWindow(u, q)
        /\ Completed' = Completed
    BY <1>10 DEF bookVars, Asked, Closes, Readable, InWindow, Completed, Opening
  <2>3. Windows'
    BY <1>10, <2>2 DEF bookVars, BookInv, Windows
  <2>4. NoneAfter'
    BY <1>10, <2>2 DEF bookVars, BookInv, NoneAfter
  <2>5. Confirmed'
    <3>1. \A pair : OnRecord(pair)' <=> OnRecord(pair)
      BY <1>10, <2>2 DEF OnRecord, Word, bookVars
    <3> QED
      BY <1>10, <3>1 DEF bookVars, BookInv, Confirmed, Charged
  <2> QED
    BY <2>1, <2>3, <2>4, <2>5 DEF BookInv
<1> QED
  BY <1>5, <1>6, <1>7, <1>8, <1>9, <1>10 DEF BookNext

(* The log keeps its shape and the terminals their word, wherever a writer  *)
(* is killed.                                                               *)
THEOREM BookCorrect == BookSpec => []BookInv
<1>1. BookInit => BookInv
  <2> SUFFICES ASSUME BookInit PROVE BookInv
    OBVIOUS
  <2>1. /\ lines = << >> /\ lines \in Seq(Lines) /\ Len(lines) = 0 /\ DOMAIN lines = {}
        /\ MaxLines \in Nat /\ MaxTears \in Nat
    BY BookConstants DEF BookInit
  <2>2. Completed = {}
    BY <2>1 DEF Completed
  <2>3. desk \in [Terminals -> Desks] /\ \A t \in Terminals : desk[t].doing = "nothing"
    BY DEF BookInit, Desks, Nobody
  <2>4. BookTyped
    BY <2>1, <2>3 DEF BookInit, BookTyped
  <2>5. LogShape /\ OpenedOnce /\ OpenedFirst
    BY <2>1, <2>3 DEF LogShape, OpenedOnce, OpenedFirst
  <2>6. Windows /\ NoneAfter
    BY <2>1, <2>2, <2>3 DEF Windows, NoneAfter
  <2>7. Confirmed
    <3>1. Charged({})
      BY FS_EmptySet DEF Charged, BookInit
    <3> QED
      BY <3>1 DEF Confirmed
  <2> QED
    BY <2>4, <2>5, <2>6, <2>7 DEF BookInv
<1>2. BookInv /\ [BookNext]_bookVars => BookInv'
  BY BookKeeps
<1> QED
  BY <1>1, <1>2, PTL DEF BookSpec

(* An answer on record is the word on a question that was not contested.    *)
LEMMA RecordStands ==
  ASSUME BookInv, NEW pair \in accepted, Asked(pair[1]), OnRecord(pair)
  PROVE  Stands(pair)
<1> DEFINE g == pair[1]
<1>1. g \in Questions
  BY DEF BookInv, BookTyped
<1>2. PICK i \in Completed : lines[i].of = Word(pair)
  BY DEF OnRecord
<1>3. Closes(i, g) /\ i \in Closing(g)
  <2>1. Closes(i, g)
    BY <1>2 DEF Closes, Word
  <2> QED
    BY <1>1, <2>1, WholeCloses
<1>4. ASSUME g \notin contested PROVE LastRecord(g) = Word(pair)
  <2>1. \A m \in Closing(g) : m <= i
    <3> SUFFICES ASSUME NEW m \in Closing(g), ~(m <= i) PROVE FALSE
      OBVIOUS
    <3>1. m \in DOMAIN lines /\ Readable(m) /\ Closes(m, g)
      BY DEF Closing, Closes
    <3>2. i \in Nat /\ m \in Nat
      BY <1>3, <3>1 DEF Closing, BookInv, BookTyped
    <3> QED
      BY <1>1, <1>3, <1>4, <3>1, <3>2 DEF BookInv, NoneAfter
  <2>2. (CHOOSE k \in Closing(g) : \A j \in Closing(g) : j <= k) = i
    <3>1. \A k \in Closing(g) : k \in Nat
      BY DEF Closing, BookInv, BookTyped
    <3>2. \A k \in Closing(g) : (\A j \in Closing(g) : j <= k) => k = i
      BY <1>3, <2>1, <3>1
    <3> QED
      BY <1>3, <2>1, <3>2
  <2>3. LastRecord(g) = lines[i].of
    BY <2>2, Zenon DEF LastRecord
  <2> QED
    BY <1>2, <2>3
<1> QED
  BY <1>3, <1>4 DEF Stands

(* A line that is spoiled is the last one still. *)
LEMMA LastReplaced ==
  ASSUME NEW s \in Seq(Lines), s # << >>, NEW l \in Lines
  PROVE  /\ Front(s) \o <<l>> # << >> /\ Last(Front(s) \o <<l>>) = l
         /\ DOMAIN (Front(s) \o <<l>>) = DOMAIN s
         /\ \A i \in DOMAIN s : (Front(s) \o <<l>>)[i] = IF i = Len(s) THEN l ELSE s[i]
<1> DEFINE n == Len(s)
<1>1. n \in Nat \ {0} /\ DOMAIN s = 1 .. n
  OBVIOUS
<1>2. <<l>> \in Seq(Lines) /\ Len(<<l>>) = 1 /\ <<l>>[1] = l
  OBVIOUS
<1>3. /\ Front(s) \in Seq(Lines) /\ Len(Front(s)) = n - 1
      /\ \A i \in 1 .. n - 1 : Front(s)[i] = s[i]
  BY <1>1 DEF Front
<1> HIDE DEF n
<1> DEFINE f == Front(s)
<1> HIDE DEF f
<1>4. /\ f \o <<l>> \in Seq(Lines) /\ Len(f \o <<l>>) = n
      /\ \A i \in 1 .. n - 1 : (f \o <<l>>)[i] = s[i]
      /\ (f \o <<l>>)[n] = l
  BY <1>1, <1>2, <1>3 DEF f
<1>5. Last(f \o <<l>>) = l /\ f \o <<l>> # << >> /\ DOMAIN (f \o <<l>>) = 1 .. n
  BY <1>1, <1>4 DEF Last
<1>6. \A i \in 1 .. n : i = n \/ i \in 1 .. n - 1
  BY <1>1
<1> QED
  BY <1>1, <1>4, <1>5, <1>6 DEF f, n

(* What a step does to the log: a record stays what it is, and a line that  *)
(* is whole stays whole; a line that is not is the work of a kill.          *)
Torn(i) == lines[i].end # "whole"
BookGrows ==
  /\ DOMAIN lines \subseteq DOMAIN lines'
  /\ \A i \in DOMAIN lines : lines'[i].of = lines[i].of
  /\ \A i \in DOMAIN lines' : Torn(i)' =>
       \/ i \in DOMAIN lines /\ Torn(i)
       \/ i = Len(lines) + 1 /\ tears' = tears + 1
  /\ tears \in Nat /\ tears' \in Nat /\ tears <= tears'

(* Each kill leaves one line that can swallow one record. *)
LEMMA TornKeeps ==
  ASSUME BookTyped, LogShape, TornInv, NEW r \in Records,
         \/ AppendLine(r) /\ tears' = tears
         \/ TearLine(r)
  PROVE  TornInv' /\ BookGrows
<1>1. /\ lines \in Seq(Lines) /\ Len(lines) \in Nat /\ DOMAIN lines = 1 .. Len(lines)
      /\ swallowed \in Nat /\ tears \in Nat
  BY BookConstants DEF BookTyped
<1>2. CASE Unended
  <2>1. /\ lines # << >> /\ Last(lines) = lines[Len(lines)] /\ Last(lines) \in Lines
        /\ Last(lines).end # "whole" /\ Len(lines) \in DOMAIN lines
    BY <1>1, <1>2 DEF Unended, Last, Ended
  <2>2. PICK e \in Spoilt :
        /\ lines' = Front(lines) \o <<[Last(lines) EXCEPT !.end = e]>>
        /\ \/ /\ e \in {"junk", "garbled"}
              /\ swallowed' = swallowed + 1 /\ tears' = tears
           \/ /\ e \in {"part", "split"}
              /\ swallowed' = swallowed /\ tears' = tears + 1
    <3>1. CASE AppendLine(r) /\ tears' = tears
      BY <1>2, <3>1 DEF AppendLine, Ending, Spoilt
    <3>2. CASE TearLine(r)
      BY <1>2, <3>2 DEF TearLine, Ending, Spoilt
    <3> QED
      BY <3>1, <3>2
  <2> DEFINE l == [Last(lines) EXCEPT !.end = e]
  <2>3. l \in Lines /\ l.end = e /\ l.of = Last(lines).of
    BY <2>1 DEF Lines, Ends, Ended, Spoilt
  <2> HIDE DEF l
  <2>4. lines' = Front(lines) \o <<l>>
    BY <2>2 DEF l
  <2>5. /\ lines' # << >> /\ Last(lines') = l /\ DOMAIN lines' = DOMAIN lines
        /\ \A i \in DOMAIN lines : lines'[i] = IF i = Len(lines) THEN l ELSE lines[i]
    BY <1>1, <2>1, <2>3, <2>4, LastReplaced
  <2>6. Unended' <=> e \in {"part", "split"}
    BY <2>3, <2>5 DEF Unended, Ended, Spoilt
  <2>7. swallowed + 1 <= tears
    BY <1>2 DEF TornInv
  <2>8. /\ swallowed' + (IF Unended' THEN 1 ELSE 0) <= tears'
        /\ tears' > 0 /\ tears' \in Nat /\ tears <= tears'
    BY <1>1, <2>2, <2>6, <2>7
  <2>9. TornInv'
    BY <2>8 DEF TornInv
  <2>10. \A i \in DOMAIN lines : lines'[i].of = lines[i].of
    BY <2>1, <2>3, <2>5
  <2>11. \A i \in DOMAIN lines : Torn(i)' => Torn(i)
    BY <2>1, <2>3, <2>5 DEF Torn
  <2>12. BookGrows
    BY <1>1, <2>5, <2>8, <2>10, <2>11 DEF BookGrows
  <2> QED
    BY <2>9, <2>12
<1>3. CASE ~Unended
  <2>1. PICK e \in {"whole", "part", "unended", "split"} :
          /\ lines' = Append(lines, [of |-> r, end |-> e])
          /\ swallowed' = swallowed /\ tears' = IF e = "whole" THEN tears ELSE tears + 1
    BY <1>3 DEF AppendLine, TearLine
  <2> DEFINE l == [of |-> r, end |-> e]
  <2>2. l \in Lines /\ l.end = e
    BY DEF Lines, Ends, Ended
  <2> HIDE DEF l
  <2>3. lines' = Append(lines, l)
    BY <2>1 DEF l
  <2>4. /\ Len(lines') = Len(lines) + 1 /\ lines'[Len(lines) + 1] = l
        /\ \A i \in 1 .. Len(lines) : lines'[i] = lines[i]
        /\ DOMAIN lines' = 1 .. Len(lines) + 1
    BY <1>1, <2>2, <2>3
  <2>5. Unended' => e # "whole"
    BY <2>2, <2>4 DEF Unended, Last, Ended
  <2>6. tears' \in Nat /\ tears <= tears'
    BY <1>1, <2>1
  <2>7. \A i \in DOMAIN lines' : i \in DOMAIN lines \/ i = Len(lines) + 1
    BY <1>1, <2>4
  <2>8. BookGrows
    BY <1>1, <2>1, <2>2, <2>4, <2>6, <2>7 DEF BookGrows, Torn
  <2>9. \A i \in DOMAIN lines' : lines'[i].end # "whole" => tears' > 0
    BY <1>1, <2>1, <2>2, <2>4, <2>6, <2>7 DEF TornInv
  <2> QED
    BY <1>1, <1>3, <2>1, <2>5, <2>8, <2>9 DEF TornInv
<1> QED
  BY <1>2, <1>3

(* Whatever is done, the log only grows, and keeps count of the kills. *)
LEMMA LogStep ==
  ASSUME BookInv, TornInv, [BookNext]_bookVars
  PROVE  TornInv' /\ BookGrows
<1>1. BookTyped /\ LogShape /\ desk \in [Terminals -> Desks] /\ tears \in Nat
  BY BookConstants DEF BookInv, BookTyped
<1>2. ASSUME UNCHANGED <<lines, tears, swallowed>> PROVE TornInv' /\ BookGrows
  BY <1>1, <1>2 DEF TornInv, Unended, BookGrows, Torn
<1>3. ASSUME NEW g \in Questions, OpenGate(g) \/ DieOpening(g) PROVE TornInv' /\ BookGrows
  <2>1. Opening(g) \in Records
    BY DEF Opening, Records
  <2>2. (AppendLine(Opening(g)) /\ tears' = tears) \/ TearLine(Opening(g))
    BY <1>3 DEF OpenGate, DieOpening
  <2> QED
    BY <1>1, <2>1, <2>2, TornKeeps
<1>4. ASSUME NEW t \in Terminals, SettleGate(t) \/ DieSettling(t) PROVE TornInv' /\ BookGrows
  <2>1. desk[t] \in Desks /\ desk[t] # Nobody
    <3>1. desk[t].doing \in {"answering", "dismissing"}
      BY <1>4 DEF SettleGate, DieSettling
    <3>2. Nobody.doing = "nothing"
      BY DEF Nobody
    <3> QED
      BY <1>1, <3>1, <3>2
  <2>2. RecordOf(t) \in Records
    BY <2>1 DEF RecordOf, Records, Desks
  <2>3. (AppendLine(RecordOf(t)) /\ tears' = tears) \/ TearLine(RecordOf(t))
    BY <1>4 DEF SettleGate, DieSettling
  <2> QED
    BY <1>1, <2>2, <2>3, TornKeeps
<1>5. ASSUME NEW t \in Terminals,
             \/ \E g \in Questions : ShowGate(t, g)
             \/ \E w \in Words : CheckGate(t, w)
             \/ Quit(t)
      PROVE  TornInv' /\ BookGrows
  BY <1>2, <1>5 DEF ShowGate, CheckGate, Quit
<1>6. CASE UNCHANGED bookVars
  BY <1>2, <1>6 DEF bookVars
<1> QED
  BY <1>3, <1>4, <1>5, <1>6 DEF BookNext

(* A line is torn by a kill, and what it swallows is one record. *)
THEOREM TornCorrect == BookSpec => []TornInv
<1>1. BookInit => TornInv
  BY DEF BookInit, TornInv, Unended
<1>2. BookInv /\ TornInv /\ [BookNext]_bookVars => TornInv'
  BY LogStep
<1> QED
  BY <1>1, <1>2, BookCorrect, PTL DEF BookSpec

(* Whoever is answered was asked; and the questions that were left without  *)
(* their end are no more than the kills.                                    *)
Attended == \A pair \in accepted : \E j \in DOMAIN lines : lines[j].of = Opening(pair[1])
Broke(B) ==
  /\ IsFiniteSet(B) /\ Cardinality(B) <= tears
  /\ \A i \in DOMAIN lines, g \in Questions :
       Torn(i) /\ lines[i].of = Opening(g) => g \in B
FewBroken == \E B \in SUBSET Questions : Broke(B)

LEMMA BrokenCounted ==
  ASSUME BookInv, Attended, FewBroken, BookGrows, [BookNext]_bookVars
  PROVE  Attended' /\ FewBroken'
<1>1. Attended'
  <2>1. ASSUME NEW pair \in accepted' PROVE \E j \in DOMAIN lines : lines[j].of = Opening(pair[1])
    <3>1. CASE pair \in accepted
      BY <3>1 DEF Attended
    <3>2. CASE pair \notin accepted
      <4>1. PICK t \in Terminals : desk[t].doing = "answering" /\ pair = <<desk[t].gate, desk[t].word>>
        <5>1. accepted' # accepted
          BY <2>1, <3>2
        <5>2. PICK t \in Terminals : SettleGate(t)
          BY <5>1 DEF BookNext, bookVars, OpenGate, DieOpening, ShowGate, CheckGate,
             DieSettling, Quit
        <5> QED
          BY <2>1, <3>2, <5>2 DEF SettleGate
      <4>2. desk[t].doing # "nothing"
        BY <4>1
      <4> QED
        BY <4>1, <4>2 DEF BookInv, OpenedFirst
    <3> QED
      BY <3>1, <3>2
  <2> QED
    BY <2>1 DEF Attended, BookGrows, Opening
<1>2. FewBroken'
  <2>1. PICK B \in SUBSET Questions : Broke(B)
    BY DEF FewBroken
  <2>2. IsFiniteSet(B) /\ Cardinality(B) \in Nat /\ Cardinality(B) <= tears
    BY <2>1, FS_CardinalityType DEF Broke
  <2>3. \A g : Opening(g)' = Opening(g)
    BY DEF Opening
  <2>4. CASE ~(\E i \in DOMAIN lines' : i = Len(lines) + 1 /\ Torn(i)')
    <3>1. Cardinality(B) <= tears'
      BY <2>2 DEF BookGrows
    <3>2. \A i \in DOMAIN lines', g \in Questions :
            Torn(i)' /\ lines'[i].of = Opening(g) => g \in B
      BY <2>1, <2>4 DEF BookGrows, Broke
    <3>3. Broke(B)'
      BY <2>2, <2>3, <3>1, <3>2 DEF Broke
    <3> QED
      BY <3>3 DEF FewBroken
  <2>5. CASE \E i \in DOMAIN lines' : i = Len(lines) + 1 /\ Torn(i)'
    <3> DEFINE n == Len(lines) + 1
    <3>0. PICK h, C : h = lines'[n].of.gate /\ C = B \cup (Questions \cap {h})
      OBVIOUS
    <3>1. n \in DOMAIN lines' /\ tears' = tears + 1
      <4>1. n \notin DOMAIN lines
        BY DEF BookInv, BookTyped
      <4> QED
        BY <2>5, <4>1 DEF BookGrows
    <3>2. IsFiniteSet(C) /\ Cardinality(C) \in Nat /\ Cardinality(C) <= Cardinality(B) + 1
      <4>1. CASE h \in Questions
        <5>1. C = B \cup {h}
          BY <3>0, <4>1
        <5>2. IsFiniteSet(C) /\ (Cardinality(C) = Cardinality(B) \/ Cardinality(C) = Cardinality(B) + 1)
          BY <2>2, <5>1, FS_AddElement
        <5> QED
          BY <2>2, <5>2, FS_CardinalityType
      <4>2. CASE h \notin Questions
        <5>1. C = B
          BY <3>0, <4>2
        <5> QED
          BY <2>2, <5>1
      <4> QED
        BY <4>1, <4>2
    <3>3. Cardinality(C) <= tears'
      BY <2>2, <3>1, <3>2 DEF BookGrows
    <3>4. \A i \in DOMAIN lines', g \in Questions :
            Torn(i)' /\ lines'[i].of = Opening(g) => g \in C
      <4> SUFFICES ASSUME NEW i \in DOMAIN lines', NEW g \in Questions,
                          Torn(i)', lines'[i].of = Opening(g)
                   PROVE  g \in C
        OBVIOUS
      <4>1. CASE i \in DOMAIN lines /\ Torn(i)
        BY <2>1, <3>0, <4>1 DEF BookGrows, Broke
      <4>2. CASE i = n
        <5>1. Opening(g).gate = g
          BY DEF Opening
        <5>2. h = g
          BY <3>0, <4>2, <5>1, Zenon
        <5> QED
          BY <3>0, <5>2
      <4> QED
        BY <4>1, <4>2 DEF BookGrows
    <3>5. C \in SUBSET Questions
      BY <3>0
    <3>6. Broke(C)'
      BY <2>3, <3>2, <3>3, <3>4 DEF Broke
    <3> QED
      BY <3>5, <3>6 DEF FewBroken
  <2> QED
    BY <2>4, <2>5
<1> QED
  BY <1>1, <1>2

THEOREM BrokenCorrect == BookSpec => [](Attended /\ FewBroken)
<1>1. BookInit => Attended /\ FewBroken
  <2> SUFFICES ASSUME BookInit PROVE Attended /\ FewBroken
    OBVIOUS
  <2>1. DOMAIN lines = {} /\ tears = 0 /\ accepted = {}
    BY DEF BookInit
  <2>2. Broke({})
    BY <2>1, FS_EmptySet DEF Broke
  <2> QED
    BY <2>1, <2>2 DEF Attended, FewBroken
<1>2. ASSUME BookInv, TornInv, Attended, FewBroken, [BookNext]_bookVars
      PROVE  Attended' /\ FewBroken'
  <2>1. BookGrows
    BY <1>2, LogStep
  <2> QED
    BY <1>2, <2>1, BrokenCounted
<1> QED
  BY <1>1, <1>2, BookCorrect, TornCorrect, PTL DEF BookSpec

(* A confirmed answer stays the word on its question, whoever asks,         *)
(* dismisses or is killed around it, wherever lines are torn: what does not *)
(* stand is charged to the record that was swallowed or to the question     *)
(* that was left without its end, and there is one of each to a kill at     *)
(* most.                                                                    *)
THEOREM AnswersSurvive == BookSpec => []AnswerSurvives
<1>1. ASSUME BookInv, TornInv, Attended, FewBroken PROVE AnswerSurvives
  <2> SUFFICES /\ Cardinality({g \in Lost : Asked(g)}) <= tears
               /\ Cardinality({g \in Lost : ~Asked(g)}) <= tears
    BY DEF AnswerSurvives
  <2>1. swallowed \in Nat /\ tears \in Nat /\ swallowed <= tears
    BY <1>1, BookConstants DEF BookInv, BookTyped, TornInv
  <2>2. PICK S \in SUBSET Questions : Charged(S)
    BY <1>1 DEF BookInv, Confirmed
  <2>3. {g \in Lost : Asked(g)} \subseteq S
    <3> SUFFICES ASSUME NEW g \in Lost, Asked(g) PROVE g \in S
      OBVIOUS
    <3>1. PICK pair \in accepted : pair[1] = g /\ ~Stands(pair)
      BY DEF Lost
    <3>2. ~OnRecord(pair)
      BY <1>1, <3>1, RecordStands
    <3> QED
      BY <2>2, <3>1, <3>2 DEF Charged
  <2>4. PICK B \in SUBSET Questions : Broke(B)
    BY <1>1 DEF FewBroken
  <2>5. {g \in Lost : ~Asked(g)} \subseteq B
    <3> SUFFICES ASSUME NEW g \in Lost, ~Asked(g) PROVE g \in B
      OBVIOUS
    <3>1. PICK pair \in accepted : pair[1] = g
      BY DEF Lost
    <3>2. PICK j \in DOMAIN lines : lines[j].of = Opening(g)
      BY <1>1, <3>1 DEF Attended
    <3>3. Torn(j) /\ g \in Questions
      BY <3>2 DEF Asked, Completed, Torn, Lost
    <3> QED
      BY <2>4, <3>2, <3>3 DEF Broke
  <2>6. ASSUME NEW X, NEW Y, X \subseteq Y, IsFiniteSet(Y), Cardinality(Y) <= tears
        PROVE  Cardinality(X) <= tears
    BY <2>1, <2>6, FS_Subset, FS_CardinalityType
  <2>7. IsFiniteSet(S) /\ Cardinality(S) <= tears
    BY <2>1, <2>2, FS_CardinalityType DEF Charged
  <2>8. IsFiniteSet(B) /\ Cardinality(B) <= tears
    BY <2>4 DEF Broke
  <2> QED
    BY <2>3, <2>5, <2>6, <2>7, <2>8
<1> QED
  BY <1>1, BookCorrect, TornCorrect, BrokenCorrect, PTL

(* A writer killed in an append costs at most one completed record, or,     *)
(* inside a character, all of them; nothing else costs any.                 *)
THEOREM KillsCostOne == BookSpec => []OneLostPerKill
<1>1. ASSUME BookInv, TornInv PROVE OneLostPerKill
  <2> DEFINE unread == Cardinality({i \in Completed : ~Readable(i)})
  <2>1. {i \in Completed : ~Readable(i)} = {}
    BY DEF Completed, Readable
  <2>2. unread = 0
    BY <2>1, FS_EmptySet
  <2>3. swallowed \in Nat /\ tears \in Nat
    BY <1>1, BookConstants DEF BookInv, BookTyped
  <2>4. swallowed <= tears
    BY <1>1, <2>3 DEF TornInv
  <2>5. Decodable \/ tears > 0
    BY <1>1 DEF Decodable, TornInv
  <2> HIDE DEF unread
  <2>6. swallowed + unread <= tears
    BY <2>2, <2>3, <2>4
  <2> QED
    BY <2>5, <2>6, Zenon DEF OneLostPerKill, unread
<1> QED
  BY <1>1, BookCorrect, TornCorrect, PTL

(* The log, the terminals and what is confirmed are of their types, and no  *)
(* more records are swallowed than lines were torn (gates.py).              *)
THEOREM BookTypesKept == BookSpec => []BookTypeOK
<1>1. ASSUME BookInv, TornInv PROVE BookTypeOK
  <2>1. swallowed \in 0 .. MaxTears
    BY <1>1, BookConstants DEF BookInv, BookTyped, TornInv
  <2> QED
    BY <1>1, <2>1 DEF BookTypeOK, BookInv, BookTyped
<1> QED
  BY <1>1, BookCorrect, TornCorrect, PTL

-----------------------------------------------------------------------------
(* The tool loop                                                            *)

(* Where the compaction cuts, and how long the deadline is that was told.   *)
LoopBounds ==
  /\ LoopTypeOK
  /\ repeats <= Len(log) /\ lastProductive <= Len(log)
  /\ outcome = "running" => Len(log) < HardCap /\ formatErrors < 3
Held(last, s) == s \subseteq 1 .. last /\ (last > 0 => 1 \in s /\ last \in s)
InOrder ==
  /\ Len(turns) <= Len(log)
  /\ \A i \in 1 .. Len(turns) : turns[i] = Len(log) - Len(turns) + i
  /\ Held(Len(log) - Len(turns), summary)
  /\ Len(turns) >= KeepTail \/ Len(turns) = Len(log)
Until(turn) == IF turn + StallWindow < HardCap THEN turn + StallWindow ELSE HardCap
Deadline == Until(lastProductive)
Promised == \A t \in 1 .. Len(told) : told[t] <= 1 \/ told[t] <= Deadline - t + 1

(* Each counter of the loop is what the turns say it is.                    *)
Nothing == ""
SeenTells == \A tool \in {"edit", "probe"} :
  tool \in seen <=> \E i \in 1 .. Len(log) : log[i].tool = tool
ProbeTells ==
  \/ lastProbe = Nothing /\ \A i \in 1 .. Len(log) : log[i].tool # "probe"
  \/ \E p \in 1 .. Len(log) :
       /\ log[p].tool = "probe" /\ log[p].output = lastProbe
       /\ \A i \in p + 1 .. Len(log) : log[i].tool # "probe"
GroundTells == lastProductive \in Ground(Len(log)) /\ \A i \in Ground(Len(log)) : i <= lastProductive

LoopInv ==
  /\ LoopBounds /\ InOrder
  /\ outcome = "running" => Promised
  /\ DeadlineIsHonest
  /\ SeenTells /\ ProbeTells /\ GroundTells
  /\ ExtensionIsEarned

(* The last part of a sequence, and the part before it. *)
LEMMA CutSequence ==
  ASSUME NEW S, NEW s \in Seq(S), NEW k \in Nat, k >= 1, k < Len(s)
  PROVE  /\ SubSeq(s, Len(s) - k + 1, Len(s)) \in Seq(S)
         /\ Len(SubSeq(s, Len(s) - k + 1, Len(s))) = k
         /\ \A i \in 1 .. k : SubSeq(s, Len(s) - k + 1, Len(s))[i] = s[Len(s) - k + i]
         /\ DOMAIN SubSeq(s, 1, Len(s) - k) = 1 .. Len(s) - k
         /\ \A i \in 1 .. Len(s) - k : SubSeq(s, 1, Len(s) - k)[i] = s[i]
<1> DEFINE n == Len(s)
           a == n - k + 1
<1>1. n \in Nat /\ a \in Int /\ a >= 1 /\ a <= n /\ n - a + 1 = k /\ n - k >= 1
  OBVIOUS
<1>2. \A i \in 1 .. n : s[i] \in S
  OBVIOUS
<1> HIDE DEF a, n
<1>3. \A i \in a .. n : s[i] \in S
  BY <1>1, <1>2
<1>4. /\ SubSeq(s, a, n) \in Seq(S) /\ Len(SubSeq(s, a, n)) = n - a + 1
      /\ \A i \in 1 .. n - a + 1 : SubSeq(s, a, n)[i] = s[a + i - 1]
  <2>1. n \in Int /\ a <= n
    BY <1>1
  <2> QED
    BY <1>1, <1>3, <2>1, SubSeqProperties
<1>5. \A i \in 1 .. k : a + i - 1 = n - k + i
  BY <1>1 DEF a
<1>6. \A i \in 1 .. n - k : s[i] \in S
  BY <1>1, <1>2
<1> DEFINE m == n - k
           head == SubSeq(s, 1, m)
<1>7. m \in Int /\ 1 <= m /\ m - 1 + 1 = m /\ \A i \in 1 .. m : 1 + i - 1 = i
  BY <1>1
<1> HIDE DEF m
<1>8. head \in Seq(S) /\ Len(head) = m /\ \A i \in 1 .. m : head[i] = s[i]
  <2>1. 1 \in Int /\ \A i \in 1 .. m : s[i] \in S
    BY <1>6 DEF m
  <2>2. /\ SubSeq(s, 1, m) \in Seq(S)
        /\ Len(SubSeq(s, 1, m)) = IF 1 <= m THEN m - 1 + 1 ELSE 0
        /\ \A i \in 1 .. m - 1 + 1 : SubSeq(s, 1, m)[i] = s[1 + i - 1]
    BY <1>7, <2>1, SubSeqProperties
  <2> QED
    BY <1>7, <2>2
<1> HIDE DEF head
<1>9. DOMAIN head = 1 .. m
  BY <1>7, <1>8
<1> QED
  BY <1>1, <1>4, <1>5, <1>8, <1>9 DEF a, n, m, head

(* The bounds of the loop are numbers, and large enough.                    *)
LEMMA LoopNumbers ==
  /\ MaxTurns \in Nat \ {0} /\ HardCap \in Nat /\ HardCap >= 2
  /\ StallWindow \in Nat /\ StallWindow >= 4
  /\ KeepTail \in Nat /\ KeepTail >= 1 /\ FewTurns \in Nat /\ FewTurns >= KeepTail
<1>1. /\ MaxTurns \in Nat \ {0} /\ StallTurns \in Nat /\ KeepTail \in Nat \ {0}
      /\ FewTurns \in Nat /\ FewTurns >= KeepTail
  BY LoopConstants
<1>2. HardCap \in Nat /\ HardCap >= 2
  BY <1>1 DEF HardCap
<1>3. StallWindow \in Nat /\ StallWindow >= 4
  BY <1>1 DEF StallWindow
<1> QED
  BY <1>1, <1>2, <1>3

(* What the types say, without the empty string, which one prover cannot    *)
(* read.                                                                    *)
LEMMA NothingIs ==
  /\ Nothing \notin Outputs /\ Nothing \notin {"edit", "probe", "ghost", "broken"}
  /\ \A r \in Replies :
       /\ r.tool \in {"broken", "ghost", "edit", "probe"} /\ r.ok \in BOOLEAN
       /\ r.tool # Nothing
       /\ r.tool = "probe" => r.ok = TRUE /\ r.output \in Outputs
       /\ r.tool \in {"edit", "probe"} <=> Known(r)
<1>1. Nothing \notin Outputs
  BY LoopConstants DEF Nothing
<1>2. Nothing \notin {"edit", "probe", "ghost", "broken"}
  BY DEF Nothing
<1>3. ASSUME NEW r \in Replies
      PROVE  /\ r.tool \in {"broken", "ghost", "edit", "probe"} /\ r.ok \in BOOLEAN
             /\ r.tool = "probe" => r.ok = TRUE /\ r.output \in Outputs
  <2>1. CASE r \in [tool : {"broken", "ghost"}, ok : {FALSE}, output : {Nothing}]
    BY <2>1
  <2>2. CASE r \in [tool : {"edit"}, ok : BOOLEAN, output : {Nothing}]
    BY <2>2
  <2>3. CASE r \in [tool : {"probe"}, ok : {TRUE}, output : Outputs]
    BY <2>3
  <2> QED
    BY <2>1, <2>2, <2>3 DEF Replies, Nothing
<1>4. \A r \in Replies : r.tool \in {"edit", "probe"} <=> Known(r)
  BY DEF Known
<1> QED
  BY <1>1, <1>2, <1>3, <1>4

(* What the types say, one by one.                                          *)
LEMMA LoopTypes ==
  ASSUME LoopTypeOK
  PROVE  /\ log \in Seq(Replies) /\ Len(log) <= HardCap
         /\ turns \in Seq(1 .. HardCap) /\ told \in Seq(0 .. HardCap) /\ Len(told) = Len(log)
         /\ formatErrors \in 0 .. 3 /\ repeats \in 0 .. HardCap
         /\ lastProductive \in 0 .. HardCap
         /\ lastSignature \in {Nothing, "ghost", "edit", "probe"}
         /\ seen \subseteq {"edit", "probe"} /\ lastProbe \in Outputs \cup {Nothing}
         /\ summary \subseteq 1 .. HardCap
         /\ outcome \in {"running", "error"} \cup Endings \cup Cuts
BY DEF LoopTypeOK, Nothing

(* A turn joins the log and what was told of it: what was there stays.      *)
LEMMA LogGrows ==
  ASSUME LoopTypeOK, NEW r \in Replies, Record(r)
  PROVE  /\ log' \in Seq(Replies) /\ Len(log') = Len(log) + 1 /\ Len(log) \in Nat
         /\ log'[Len(log) + 1] = r
         /\ \A i \in 1 .. Len(log) : log'[i] = log[i] /\ log[i] \in Replies
         /\ Recited \in Nat /\ Recited <= HardCap
         /\ told' \in Seq(0 .. HardCap) /\ Len(told') = Len(log) + 1 /\ Len(told) = Len(log)
         /\ told'[Len(log) + 1] = Recited
         /\ \A i \in 1 .. Len(log) : told'[i] = told[i] /\ told[i] \in Nat
<1>1. /\ log \in Seq(Replies) /\ Len(log) \in Nat /\ Len(told) = Len(log)
      /\ told \in Seq(0 .. HardCap) /\ lastProductive \in Nat
  <2>1. /\ log \in Seq(Replies) /\ Len(told) = Len(log)
        /\ told \in Seq(0 .. HardCap) /\ lastProductive \in 0 .. HardCap
    BY DEF LoopTypeOK
  <2> QED
    BY <2>1, LoopNumbers
<1>2. Recited \in Nat /\ Recited <= HardCap
  BY <1>1, LoopNumbers DEF Recited, TurnsLeft, TurnNo
<1>3. Recited \in 0 .. HardCap
  BY <1>2, LoopNumbers
<1>4. log' = Append(log, r) /\ told' = Append(told, Recited)
  BY DEF Record
<1>5. /\ log' \in Seq(Replies) /\ Len(log') = Len(log) + 1
      /\ log'[Len(log) + 1] = r
      /\ \A i \in 1 .. Len(log) : log'[i] = log[i] /\ log[i] \in Replies
  BY <1>1, <1>4
<1> DEFINE x == Recited
           S == 0 .. HardCap
<1>6. x \in S /\ told \in Seq(S) /\ told' = Append(told, x) /\ S \subseteq Nat
  BY <1>1, <1>3, <1>4, LoopNumbers
<1> HIDE DEF x, S
<1>7. /\ told' \in Seq(S) /\ Len(told') = Len(told) + 1
      /\ told'[Len(told) + 1] = x
      /\ \A i \in 1 .. Len(told) : told'[i] = told[i] /\ told[i] \in S
  BY <1>6
<1> QED
  BY <1>1, <1>2, <1>5, <1>6, <1>7 DEF x, S

(* The turns of the conversation, and what is folded of them. *)
LEMMA KeptTurns ==
  ASSUME LoopBounds, InOrder, Len(log) < HardCap,
         NEW kept, kept = Append(turns, TurnNo)
  PROVE  /\ kept \in Seq(1 .. HardCap) /\ Len(kept) = Len(turns) + 1
         /\ Len(turns) \in Nat /\ Len(kept) <= TurnNo
         /\ \A i \in 1 .. Len(kept) : kept[i] = TurnNo - Len(kept) + i
<1>1. turns \in Seq(1 .. HardCap) /\ Len(turns) \in Nat /\ Len(log) \in Nat
  <2>1. turns \in Seq(1 .. HardCap) /\ log \in Seq(Replies)
    BY DEF LoopBounds, LoopTypeOK
  <2> QED
    BY <2>1
<1>2. TurnNo \in 1 .. HardCap /\ TurnNo = Len(log) + 1
  BY <1>1, LoopNumbers DEF TurnNo
<1> DEFINE n == TurnNo
<1> HIDE DEF n
<1>3. kept = Append(turns, n) /\ n \in 1 .. HardCap /\ n = Len(log) + 1
  BY <1>2 DEF n
<1>4. /\ kept \in Seq(1 .. HardCap) /\ Len(kept) = Len(turns) + 1
      /\ \A i \in 1 .. Len(turns) : kept[i] = turns[i]
      /\ kept[Len(turns) + 1] = n
  BY <1>1, <1>3
<1>5. Len(turns) <= Len(log) /\ \A i \in 1 .. Len(turns) : turns[i] = Len(log) - Len(turns) + i
  BY DEF InOrder
<1>6. ASSUME NEW i \in 1 .. Len(kept) PROVE kept[i] = n - Len(kept) + i
  <2>1. CASE i = Len(turns) + 1
    BY <1>1, <1>3, <1>4, <2>1
  <2>2. CASE i \in 1 .. Len(turns)
    BY <1>1, <1>3, <1>4, <1>5, <2>2
  <2> QED
    BY <1>1, <1>4, <2>1, <2>2
<1> QED
  BY <1>1, <1>3, <1>4, <1>5, <1>6 DEF n

(* Whatever a summary loses between its ends, it has the ends.              *)
LEMMA EndsKept ==
  ASSUME NEW last \in Nat, NEW all, Held(last, all), NEW s \in Foldings(all)
  PROVE  Held(last, s)
<1> DEFINE between == {i \in all : \E l, m \in all : l < i /\ i < m}
<1>1. all \subseteq 1 .. last /\ (last > 0 => 1 \in all /\ last \in all)
  BY DEF Held
<1>2. CASE s = all
  BY <1>2
<1>3. ASSUME NEW a \in between, NEW b \in between, s = all \ (a .. b)
      PROVE  Held(last, s)
  <2>1. a \in 1 .. last /\ b \in 1 .. last /\ 1 < a /\ b < last
    BY <1>1
  <2>2. 1 \notin a .. b /\ last \notin a .. b
    BY <2>1
  <2> QED
    BY <1>1, <1>3, <2>2 DEF Held
<1> QED
  BY <1>2, <1>3 DEF Foldings

(* Compaction moves the oldest turns into the summary. *)
LEMMA FoldedTurns ==
  ASSUME LoopBounds, InOrder, Len(log) < HardCap,
         NEW kept, kept = Append(turns, TurnNo), NEW c \in Compacted(kept)
  PROVE  /\ c.turns \in Seq(1 .. HardCap) /\ Len(c.turns) \in Nat /\ Len(c.turns) <= TurnNo
         /\ \A i \in 1 .. Len(c.turns) : c.turns[i] = TurnNo - Len(c.turns) + i
         /\ Held(TurnNo - Len(c.turns), c.summary)
         /\ Len(c.turns) >= KeepTail \/ Len(c.turns) = TurnNo
<1> DEFINE n == TurnNo
           m == Len(kept)
<1>1. /\ kept \in Seq(1 .. HardCap) /\ m = Len(turns) + 1 /\ m \in Nat /\ m <= n
      /\ \A i \in 1 .. m : kept[i] = n - m + i
      /\ n \in Nat /\ n = Len(log) + 1 /\ Len(log) \in Nat /\ Len(turns) \in Nat
  <2>1. log \in Seq(Replies)
    BY DEF LoopBounds, LoopTypeOK
  <2>2. Len(log) \in Nat /\ TurnNo = Len(log) + 1
    BY <2>1 DEF TurnNo
  <2>3. /\ kept \in Seq(1 .. HardCap) /\ Len(kept) = Len(turns) + 1
        /\ Len(turns) \in Nat /\ Len(kept) <= TurnNo
        /\ \A i \in 1 .. Len(kept) : kept[i] = TurnNo - Len(kept) + i
    BY KeptTurns
  <2> QED
    BY <2>2, <2>3
<1>2. Held(n - m, summary) /\ (Len(turns) >= KeepTail \/ Len(turns) = Len(log))
  BY <1>1 DEF InOrder
<1> HIDE DEF n, m
<1>3. CASE m <= FewTurns
  <2>1. c = [turns |-> kept, summary |-> summary]
    BY <1>3 DEF Compacted, m
  <2>2. m >= KeepTail \/ m = n
    BY <1>1, <1>2, LoopNumbers DEF InOrder
  <2>3. c.turns = kept /\ Held(n - m, c.summary) /\ Len(c.turns) = m
    BY <1>2, <2>1 DEF m
  <2>4. /\ c.turns \in Seq(1 .. HardCap) /\ Len(c.turns) \in Nat /\ Len(c.turns) <= n
        /\ \A i \in 1 .. Len(c.turns) : c.turns[i] = n - Len(c.turns) + i
        /\ Held(n - Len(c.turns), c.summary)
        /\ Len(c.turns) >= KeepTail \/ Len(c.turns) = n
    BY <1>1, <2>2, <2>3
  <2> QED
    BY <2>4 DEF n
<1>4. CASE ~(m <= FewTurns)
  <2> DEFINE tail == SubSeq(kept, m - KeepTail + 1, m)
             head == SubSeq(kept, 1, m - KeepTail)
  <2>1. m > KeepTail
    BY <1>1, <1>4, LoopNumbers
  <2>2. c.turns = tail /\ c.summary \in Foldings(summary \cup ToSet(head))
    BY <1>4 DEF Compacted, Recent, Older, m
  <2>3. /\ tail \in Seq(1 .. HardCap) /\ Len(tail) = KeepTail
        /\ \A i \in 1 .. KeepTail : tail[i] = kept[m - KeepTail + i]
        /\ DOMAIN head = 1 .. m - KeepTail
        /\ \A i \in 1 .. m - KeepTail : head[i] = kept[i]
    <3>1. KeepTail < Len(kept) /\ KeepTail \in Nat /\ KeepTail >= 1
      BY <2>1, LoopNumbers DEF m
    <3> DEFINE S == 1 .. HardCap
    <3>2. kept \in Seq(S)
      BY <1>1
    <3> HIDE DEF S
    <3>3. SubSeq(kept, Len(kept) - KeepTail + 1, Len(kept)) \in Seq(S)
      BY <3>1, <3>2, CutSequence
    <3>4. Len(SubSeq(kept, Len(kept) - KeepTail + 1, Len(kept))) = KeepTail
      BY <3>1, <3>2, CutSequence
    <3>5. \A i \in 1 .. KeepTail :
            SubSeq(kept, Len(kept) - KeepTail + 1, Len(kept))[i] = kept[Len(kept) - KeepTail + i]
      BY ONLY <3>1, <3>2, CutSequence
    <3>6. DOMAIN SubSeq(kept, 1, Len(kept) - KeepTail) = 1 .. Len(kept) - KeepTail
      BY <3>1, <3>2, CutSequence
    <3>7. \A i \in 1 .. Len(kept) - KeepTail : SubSeq(kept, 1, Len(kept) - KeepTail)[i] = kept[i]
      BY <3>1, <3>2, CutSequence
    <3> QED
      BY <3>3, <3>4, <3>5, <3>6, <3>7 DEF m, S
  <2> HIDE DEF tail, head
  <2>4. \A i \in 1 .. KeepTail : tail[i] = n - KeepTail + i
    <3> SUFFICES ASSUME NEW i \in 1 .. KeepTail PROVE tail[i] = n - KeepTail + i
      OBVIOUS
    <3>1. m - KeepTail + i \in 1 .. m
      BY <1>1, <2>1, LoopNumbers
    <3>2. kept[m - KeepTail + i] = n - m + (m - KeepTail + i)
      BY <1>1, <3>1
    <3>3. n - m + (m - KeepTail + i) = n - KeepTail + i
      BY <1>1, LoopNumbers
    <3> QED
      BY <2>3, <3>2, <3>3
  <2>5. \A i \in 1 .. m - KeepTail : head[i] = n - m + i
    <3>1. \A i \in 1 .. m - KeepTail : i \in 1 .. m
      BY <1>1, LoopNumbers
    <3> QED
      BY <1>1, <2>3, <3>1
  <2>6. Held(n - KeepTail, summary \cup ToSet(head))
    <3>1. ToSet(head) = {n - m + i : i \in 1 .. m - KeepTail}
      BY <2>3, <2>5 DEF ToSet
    <3>2. \A x \in summary : x \in 1 .. n - KeepTail
      <4>1. n - m <= n - KeepTail /\ n \in Nat /\ m \in Nat /\ KeepTail \in Nat
        BY <1>1, <2>1, LoopNumbers
      <4>2. summary \subseteq 1 .. n - m
        BY <1>2 DEF Held
      <4> QED
        BY <4>1, <4>2
    <3>3. \A i \in 1 .. m - KeepTail : n - m + i \in 1 .. n - KeepTail
      BY <1>1, <2>1, LoopNumbers
    <3>4. n - KeepTail \in ToSet(head)
      <4>1. m - KeepTail \in 1 .. m - KeepTail /\ n - m + (m - KeepTail) = n - KeepTail
        BY <1>1, <2>1, LoopNumbers
      <4> QED
        BY <3>1, <4>1
    <3>5. 1 \in summary \/ 1 \in ToSet(head)
      <4>1. CASE n - m > 0
        BY <1>2, <4>1 DEF Held
      <4>2. CASE ~(n - m > 0)
        <5>1. 1 \in 1 .. m - KeepTail /\ n - m + 1 = 1
          BY <1>1, <2>1, <4>2, LoopNumbers
        <5> QED
          BY <3>1, <5>1
      <4> QED
        BY <4>1, <4>2
    <3> QED
      BY <3>1, <3>2, <3>3, <3>4, <3>5 DEF Held
  <2>7. KeepTail <= n /\ n - KeepTail \in Nat
    BY <1>1, <2>1, LoopNumbers
  <2>8. Held(n - KeepTail, c.summary)
    BY <2>2, <2>6, <2>7, EndsKept
  <2> QED
    BY <2>2, <2>3, <2>4, <2>7, <2>8, LoopNumbers DEF n
<1> QED
  BY <1>3, <1>4

(* The deadline only moves away, so nobody was promised too much; and when  *)
(* it is reached, the last turn was told that it is the last.               *)
LEMMA DeadlineHolds ==
  ASSUME LoopBounds, InOrder, Promised, Len(log) < HardCap, NEW r \in Replies, Record(r),
         lastProductive' \in {lastProductive, TurnNo},
         outcome' = "stalled" => TurnNo - lastProductive' >= StallWindow,
         outcome' \in {"ceiling", "exhausted"} => TurnNo >= HardCap
  PROVE  Promised' /\ DeadlineIsHonest'
<1> DEFINE n == Len(log)
           N == n + 1
           D == Until(lastProductive')
<1>1. LoopTypeOK /\ lastProductive \in Nat /\ lastProductive <= n /\ TurnNo = N
  <2>1. LoopTypeOK /\ lastProductive <= n
    BY DEF LoopBounds
  <2>2. lastProductive \in 0 .. HardCap
    BY <2>1 DEF LoopTypeOK
  <2> QED
    BY <2>1, <2>2, LoopNumbers DEF TurnNo
<1>2. /\ n \in Nat /\ Len(told') = N /\ Len(log') = N /\ Len(told) = n
      /\ told'[N] = Recited /\ Recited \in Nat
      /\ \A i \in 1 .. n : told'[i] = told[i] /\ told[i] \in Nat
  BY <1>1, LogGrows
<1>3. HardCap \in Nat /\ HardCap >= 2 /\ StallWindow \in Nat /\ StallWindow >= 4 /\ N <= HardCap
  BY <1>2, LoopNumbers
<1>4. lastProductive' \in Nat /\ lastProductive' >= lastProductive /\ lastProductive' <= N
  <2>1. lastProductive' = lastProductive \/ lastProductive' = N
    BY <1>1
  <2> QED
    BY <1>1, <1>2, <2>1
<1>5. Deadline \in Nat /\ D \in Nat /\ Deadline <= D /\ D <= HardCap
  <2>1. /\ lastProductive \in Nat /\ lastProductive' \in Nat /\ lastProductive' >= lastProductive
        /\ HardCap \in Nat /\ StallWindow \in Nat
    BY <1>1, <1>3, <1>4
  <2>2. /\ \A x \in Nat : Until(x) \in Nat /\ Until(x) <= HardCap
        /\ \A x, y \in Nat : x <= y => Until(x) <= Until(y)
    BY <2>1 DEF Until
  <2> QED
    BY <2>1, <2>2 DEF Deadline
<1>6. n >= 1 => Recited = IF Deadline - N + 1 > 1 THEN Deadline - N + 1 ELSE 1
  <2>1. n >= 1 => turns # << >>
    <3>1. turns = << >> => Len(turns) = 0
      OBVIOUS
    <3>2. Len(turns) >= KeepTail \/ Len(turns) = n
      BY DEF InOrder
    <3> QED
      BY <3>1, <3>2, LoopNumbers
  <2> QED
    BY <1>1, <2>1 DEF Recited, TurnsLeft, Deadline, Until
<1>7. n = 0 => Recited = 0
  <2>1. turns \in Seq(1 .. HardCap) /\ Len(turns) <= n
    BY <1>1 DEF LoopTypeOK, InOrder
  <2>2. n = 0 => turns = << >>
    BY <1>2, <2>1
  <2> QED
    BY <2>2 DEF Recited
<1>8. Recited <= 1 \/ Recited <= Deadline - N + 1
  BY <1>2, <1>5, <1>6, <1>7
<1> HIDE DEF D
<1>9. \A t \in 1 .. N : told'[t] \in Nat /\ (told'[t] <= 1 \/ told'[t] <= D - t + 1)
  <2> SUFFICES ASSUME NEW t \in 1 .. N
               PROVE  told'[t] \in Nat /\ (told'[t] <= 1 \/ told'[t] <= D - t + 1)
    OBVIOUS
  <2>1. CASE t = N
    BY <1>2, <1>5, <1>8, <2>1
  <2>2. CASE t \in 1 .. n
    <3>1. told[t] <= 1 \/ told[t] <= Deadline - t + 1
      BY <1>2, <2>2 DEF Promised
    <3> QED
      BY <1>2, <1>5, <2>2, <3>1
  <2> QED
    BY <1>2, <2>1, <2>2
<1>10. Promised'
  BY <1>2, <1>9 DEF Promised, Deadline, D, Until, StallWindow, HardCap
<1>11. ASSUME outcome' \in {"stalled", "ceiling", "exhausted"}
       PROVE  D <= N /\ Deadline <= N /\ n >= 1
  <2>1. CASE outcome' = "stalled"
    <3>1. N - lastProductive' >= StallWindow
      BY <1>1, <2>1
    <3>2. lastProductive' = lastProductive
      BY <1>1, <1>2, <1>3, <3>1
    <3> QED
      BY <1>1, <1>2, <1>3, <3>1, <3>2 DEF D, Deadline, Until
  <2>2. CASE outcome' \in {"ceiling", "exhausted"}
    BY <1>1, <1>2, <1>3, <1>5, <2>2
  <2> QED
    BY <1>11, <2>1, <2>2
<1>12. DeadlineIsHonest'
  <2> SUFFICES ASSUME outcome' \in {"stalled", "ceiling", "exhausted"}
               PROVE  (\A t \in 1 .. N : told'[t] <= N - t + 1) /\ told'[N] = 1
    BY <1>2 DEF DeadlineIsHonest
  <2>1. ASSUME NEW t \in 1 .. N PROVE told'[t] <= N - t + 1
    <3>1. told'[t] \in Nat /\ (told'[t] <= 1 \/ told'[t] <= D - t + 1)
      BY <1>9
    <3>2. D <= N /\ D \in Nat /\ N \in Nat
      BY <1>2, <1>5, <1>11
    <3> QED
      BY <3>1, <3>2
  <2>2. told'[N] = 1
    BY <1>2, <1>5, <1>6, <1>11
  <2> QED
    BY <2>1, <2>2
<1> QED
  BY <1>10, <1>12

(* A set of numbers has a least one, and when it is bounded a last one. *)
LEMMA LeastThereIs ==
  ASSUME NEW T \in SUBSET Nat, T # {}
  PROVE  \E x \in T : \A y \in T : x <= y
<1> DEFINE R == {ss \in Nat \X Nat : ss[1] < ss[2]}
<1>1. IsWellFoundedOn(R, Nat)
  BY NatLessThanWellFounded DEF OpToRel
<1>2. ASSUME NEW x \in Nat, NEW y \in Nat, y < x PROVE <<y, x>> \in R
  BY <1>2
<1> HIDE DEF R
<1>3. \E x \in T : \A y \in T : ~ (<<y, x>> \in R)
  BY <1>1, WFMin
<1>4. PICK x \in T : \A y \in T : ~ (<<y, x>> \in R)
  BY <1>3
<1>5. \A y \in T : ~(y < x)
  BY <1>2, <1>4
<1> QED
  BY <1>4, <1>5

(* And what LastOf takes of a bounded set is in it, and is its last.        *)
LEMMA LastThereIs ==
  ASSUME NEW T \in SUBSET Nat, T # {}, NEW m \in Nat, \A x \in T : x <= m
  PROVE  LastOf(T) \in T /\ \A y \in T : y <= LastOf(T)
<1> DEFINE bounds == {b \in Nat : \A x \in T : x <= b}
<1>1. PICK b \in bounds : \A c \in bounds : b <= c
  <2>1. bounds \in SUBSET Nat /\ m \in bounds
    OBVIOUS
  <2> HIDE DEF bounds
  <2> QED
    BY <2>1, LeastThereIs
<1>2. b \in T
  <2>1. SUFFICES ASSUME b \notin T PROVE FALSE
    OBVIOUS
  <2>2. PICK x \in T : x \in Nat
    OBVIOUS
  <2>3. \A y \in T : y \in Nat /\ y < b
    BY <1>1, <2>1
  <2>4. b \in Nat \ {0}
    BY <1>1, <2>2, <2>3
  <2>5. b - 1 \in bounds
    BY <2>3, <2>4
  <2> QED
    BY <1>1, <2>4, <2>5
<1>3. \E i \in T : \A j \in T : j <= i
  BY <1>1, <1>2
<1> QED
  BY <1>3 DEF LastOf

(* What was said of the first turns stays said of them. *)
LEMMA PrefixTells ==
  ASSUME LoopTypeOK, NEW r \in Replies, Record(r), NEW k \in Nat, k <= Len(log)
  PROVE  /\ \A i \in 1 .. k : Breaks(i)' <=> Breaks(i)
         /\ Ground(k)' = Ground(k) /\ (Producing(k)' <=> Producing(k))
<1> DEFINE n == Len(log)
<1>1. n \in Nat /\ \A i \in 1 .. n : log'[i] = log[i]
  BY LogGrows
<1>2. \A i \in 1 .. k : i \in 1 .. n /\ log'[i] = log[i]
  BY <1>1
<1>3. ASSUME NEW i \in 1 .. k PROVE Breaks(i)' <=> Breaks(i)
  <2> DEFINE earlier == {j \in 1 .. i - 1 : log[j].tool = "probe"}
  <2>1. \A j \in 1 .. i - 1 : j \in 1 .. k /\ log'[j] = log[j]
    BY <1>2
  <2>2. {j \in 1 .. i - 1 : log'[j].tool = "probe"} = earlier
    BY <2>1
  <2>3. earlier # {} => LastOf(earlier) \in 1 .. i - 1
    <3>1. earlier \in SUBSET Nat /\ i \in Nat /\ \A x \in earlier : x <= i /\ x \in 1 .. i - 1
      OBVIOUS
    <3> HIDE DEF earlier
    <3>2. earlier # {} => LastOf(earlier) \in earlier
      BY <3>1, LastThereIs
    <3> QED
      BY <3>1, <3>2
  <2> HIDE DEF earlier
  <2>4. earlier # {} => log'[LastOf(earlier)] = log[LastOf(earlier)]
    BY <2>1, <2>3
  <2>5. Known(log[i])' <=> Known(log[i])
    BY <1>2 DEF Known
  <2>6. (\A j \in 1 .. i - 1 : log'[j].tool # log'[i].tool) <=> (\A j \in 1 .. i - 1 : log[j].tool # log[i].tool)
    BY <1>2, <2>1
  <2>7. Breaks(i)' <=>
          /\ Known(log[i])
          /\ \/ log[i].ok /\ \A j \in 1 .. i - 1 : log[j].tool # log[i].tool
             \/ log[i].tool = "probe" /\ (earlier # {} => log[LastOf(earlier)].output # log[i].output)
    BY <1>2, <2>2, <2>4, <2>5, <2>6 DEF Breaks, LastOf, Known
  <2>8. Breaks(i) <=>
          /\ Known(log[i])
          /\ \/ log[i].ok /\ \A j \in 1 .. i - 1 : log[j].tool # log[i].tool
             \/ log[i].tool = "probe" /\ (earlier # {} => log[LastOf(earlier)].output # log[i].output)
    BY DEF Breaks, earlier
  <2> QED
    BY <2>7, <2>8
<1>4. Ground(k)' = Ground(k)
  BY <1>3 DEF Ground
<1>5. Producing(k)' <=> Producing(k)
  BY <1>4 DEF Producing, StallWindow
<1> QED
  BY <1>3, <1>4, <1>5

(* What the loop takes for new ground is new ground to who looks at all the *)
(* turns.                                                                   *)
LEMMA BreaksNow ==
  ASSUME LoopTypeOK, SeenTells, ProbeTells, NEW r \in Replies, Record(r),
         NEW n \in Nat, n = Len(log), NEW N \in Nat, N = n + 1
  PROVE  /\ Breaks(N)' <=> Known(r) /\ NewGround(r)
         /\ Ground(N)' = IF Known(r) /\ NewGround(r) THEN Ground(n) \cup {N} ELSE Ground(n)
<1> DEFINE earlier == {j \in 1 .. N - 1 : log'[j].tool = "probe"}
<1>1. /\ \A i \in 1 .. n : log'[i] = log[i]
      /\ log'[N] = r /\ Len(log') = N /\ 1 .. N - 1 = 1 .. n
  BY LogGrows
<1>2. Known(r) => r.tool \in {"edit", "probe"}
  BY DEF Known
<1>3. Known(r) => ((\A j \in 1 .. N - 1 : log'[j].tool # r.tool) <=> r.tool \notin seen)
  BY <1>1, <1>2 DEF SeenTells
<1>4. r.tool = "probe" => ((earlier # {} => log'[LastOf(earlier)].output # r.output) <=> r.output # lastProbe)
  <2> SUFFICES ASSUME r.tool = "probe"
               PROVE  (earlier # {} => log'[LastOf(earlier)].output # r.output) <=> r.output # lastProbe
    OBVIOUS
  <2>1. CASE lastProbe = Nothing /\ \A i \in 1 .. n : log[i].tool # "probe"
    <3>1. earlier = {}
      BY <1>1, <2>1
    <3>2. r.output \in Outputs
      BY NothingIs
    <3>3. r.output # Nothing
      BY <3>2, NothingIs
    <3> QED
      BY <2>1, <3>1, <3>3
  <2>2. CASE \E p \in 1 .. n : /\ log[p].tool = "probe" /\ log[p].output = lastProbe
                               /\ \A i \in p + 1 .. n : log[i].tool # "probe"
    <3>1. PICK p \in 1 .. n : /\ log[p].tool = "probe" /\ log[p].output = lastProbe
                              /\ \A i \in p + 1 .. n : log[i].tool # "probe"
      BY <2>2
    <3>2. p \in earlier
      BY <1>1, <3>1
    <3>3. \A j \in earlier : j <= p
      <4> SUFFICES ASSUME NEW j \in earlier, ~(j <= p) PROVE FALSE
        OBVIOUS
      <4>1. j \in 1 .. n /\ log[j].tool = "probe" /\ j \in p + 1 .. n
        BY <1>1
      <4> QED
        BY <3>1, <4>1
    <3>4. LastOf(earlier) = p
      <4>1. \A j \in earlier : j \in Nat
        OBVIOUS
      <4>2. \A i \in earlier : (\A j \in earlier : j <= i) => i = p
        BY <3>2, <3>3, <4>1
      <4> HIDE DEF earlier
      <4> QED
        BY <3>2, <3>3, <4>2 DEF LastOf
    <3>5. log'[p].output = lastProbe
      BY <1>1, <3>1
    <3> QED
      BY <3>2, <3>4, <3>5
  <2> QED
    BY <2>1, <2>2 DEF ProbeTells
<1>5. Breaks(N)' <=>
        /\ Known(r)
        /\ \/ r.ok /\ \A j \in 1 .. N - 1 : log'[j].tool # r.tool
           \/ r.tool = "probe" /\ (earlier # {} => log'[LastOf(earlier)].output # r.output)
  BY <1>1 DEF Breaks, LastOf, Known
<1> HIDE DEF earlier
<1>6. Breaks(N)' <=> Known(r) /\ NewGround(r)
  BY <1>3, <1>4, <1>5 DEF NewGround
<1>7. \A i \in 1 .. n : Breaks(i)' <=> Breaks(i)
  BY PrefixTells
<1>8. 1 .. N = 1 .. n \cup {N}
  OBVIOUS
<1>9. Ground(N)' = IF Known(r) /\ NewGround(r) THEN Ground(n) \cup {N} ELSE Ground(n)
  BY <1>6, <1>7, <1>8 DEF Ground
<1> QED
  BY <1>6, <1>9

(* So last_productive stays the last turn that broke new ground.            *)
LEMMA GroundKeeps ==
  ASSUME LoopTypeOK, SeenTells, ProbeTells, GroundTells, NEW r \in Replies, Record(r),
         lastProductive <= Len(log), lastProductive \in Nat,
         lastProductive' = IF Known(r) /\ NewGround(r) THEN TurnNo ELSE lastProductive
  PROVE  GroundTells' /\ Len(log') \in Nat
<1>1. /\ Len(log) \in Nat /\ Len(log') = Len(log) + 1 /\ TurnNo = Len(log) + 1
  BY LogGrows DEF TurnNo
<1>2. PICK n \in Nat, N \in Nat : n = Len(log) /\ N = n + 1
  BY <1>1
<1>3. /\ Ground(N)' = IF Known(r) /\ NewGround(r) THEN Ground(n) \cup {N} ELSE Ground(n)
      /\ Len(log') = N
  BY <1>1, <1>2, BreaksNow
<1>4. \A i \in Ground(n) : i \in Nat /\ i <= n
  BY <1>2 DEF Ground
<1>5. Ground(N)' = Ground(Len(log))'
  BY <1>3 DEF Ground
<1>6. lastProductive' \in Ground(N)' /\ \A i \in Ground(N)' : i <= lastProductive'
  <2>1. lastProductive \in Ground(n) /\ \A i \in Ground(n) : i <= lastProductive
    BY <1>2 DEF GroundTells
  <2>2. CASE Known(r) /\ NewGround(r)
    <3>1. lastProductive' = N /\ Ground(N)' = Ground(n) \cup {N}
      BY <1>1, <1>2, <1>3, <2>2
    <3> QED
      BY <1>2, <1>4, <3>1
  <2>3. CASE ~(Known(r) /\ NewGround(r))
    BY <1>3, <2>1, <2>3
  <2> QED
    BY <2>2, <2>3
<1> QED
  BY <1>1, <1>5, <1>6 DEF GroundTells

(* seen_signatures is the set of tools used so far.                         *)
LEMMA SeenKeeps ==
  ASSUME LoopTypeOK, SeenTells, NEW r \in Replies, Record(r),
         seen' = IF Known(r) THEN seen \cup {r.tool} ELSE seen
  PROVE  SeenTells'
<1>1. PICK n \in Nat, N \in Nat : n = Len(log) /\ N = n + 1
  BY LogGrows
<1>2. /\ Len(log') = N /\ log'[N] = r /\ \A i \in 1 .. n : log'[i] = log[i]
      /\ 1 .. N = 1 .. n \cup {N}
  BY <1>1, LogGrows
<1>3. ASSUME NEW tool \in {"edit", "probe"}
      PROVE  tool \in seen' <=> \E i \in 1 .. N : log'[i].tool = tool
  <2>1. tool \in seen <=> \E i \in 1 .. n : log[i].tool = tool
    BY <1>1, <1>3 DEF SeenTells
  <2>2. (\E i \in 1 .. N : log'[i].tool = tool) <=> (r.tool = tool \/ \E i \in 1 .. n : log[i].tool = tool)
    BY <1>2
  <2>3. tool \in seen' <=> (r.tool = tool \/ tool \in seen)
    BY DEF Known
  <2> QED
    BY <2>1, <2>2, <2>3
<1> QED
  BY <1>2, <1>3 DEF SeenTells

(* last_probe_output is what the last command printed.                      *)
LEMMA ProbeKeeps ==
  ASSUME LoopTypeOK, ProbeTells, NEW r \in Replies, Record(r),
         lastProbe' = IF r.tool = "probe" THEN r.output ELSE lastProbe
  PROVE  ProbeTells'
<1>1. PICK n \in Nat, N \in Nat : n = Len(log) /\ N = n + 1
  BY LogGrows
<1>2. /\ Len(log') = N /\ log'[N] = r /\ \A i \in 1 .. n : log'[i] = log[i]
  BY <1>1, LogGrows
<1>3. CASE r.tool = "probe"
  <2>1. N \in 1 .. N /\ log'[N].tool = "probe" /\ log'[N].output = lastProbe'
    BY <1>1, <1>2, <1>3
  <2>2. \A i \in N + 1 .. N : log'[i].tool # "probe"
    BY <1>1
  <2> QED
    BY <1>2, <2>1, <2>2 DEF ProbeTells
<1>4. CASE r.tool # "probe"
  <2>1. CASE lastProbe = Nothing /\ \A i \in 1 .. n : log[i].tool # "probe"
    <3>1. \A i \in 1 .. N : log'[i].tool # "probe"
      <4>1. \A i \in 1 .. N : i = N \/ i \in 1 .. n
        BY <1>1
      <4> QED
        BY <1>2, <1>4, <2>1, <4>1
    <3> QED
      BY <1>2, <1>4, <2>1, <3>1 DEF ProbeTells
  <2>2. CASE \E p \in 1 .. n : /\ log[p].tool = "probe" /\ log[p].output = lastProbe
                               /\ \A i \in p + 1 .. n : log[i].tool # "probe"
    <3>1. PICK p \in 1 .. n : /\ log[p].tool = "probe" /\ log[p].output = lastProbe
                              /\ \A i \in p + 1 .. n : log[i].tool # "probe"
      BY <2>2
    <3>2. \A i \in p + 1 .. N : log'[i].tool # "probe"
      <4>1. \A i \in p + 1 .. N : i = N \/ (i \in 1 .. n /\ i \in p + 1 .. n)
        BY <1>1
      <4> QED
        BY <1>2, <1>4, <3>1, <4>1
    <3>3. p \in 1 .. N /\ log'[p].tool = "probe" /\ log'[p].output = lastProbe'
      BY <1>1, <1>2, <1>4, <3>1
    <3> QED
      BY <1>2, <3>2, <3>3 DEF ProbeTells
  <2> QED
    BY <1>1, <2>1, <2>2 DEF ProbeTells
<1> QED
  BY <1>3, <1>4

(* What every kind of turn does.                                            *)
Turn(r) ==
  /\ r \in Replies /\ outcome = "running" /\ Record(r)
  /\ formatErrors' = IF r.tool = "broken" THEN formatErrors + 1 ELSE 0
  /\ IF r.tool = "broken" THEN UNCHANGED <<lastSignature, repeats>> ELSE Compare(r)
  /\ seen' = IF Known(r) THEN seen \cup {r.tool} ELSE seen
  /\ lastProductive' = IF Known(r) /\ NewGround(r) THEN TurnNo ELSE lastProductive
  /\ lastProbe' = IF r.tool = "probe" THEN r.output ELSE lastProbe
  /\ outcome' = IF formatErrors' >= 3 THEN "malformed"
                ELSE IF Known(r) /\ repeats' >= 2 THEN "repeated"
                ELSE IF Known(r) /\ TurnNo - lastProductive' >= StallWindow THEN "stalled"
                ELSE OutOfTurns(lastProductive')
  /\ LET kept == Append(turns, TurnNo) IN
     \/ turns' = kept /\ summary' = summary
     \/ \E c \in Compacted(kept) : turns' = c.turns /\ summary' = c.summary

(* The three kinds of turn are of that form.                                *)
LEMMA EachIsATurn ==
  ASSUME NEW r \in Replies, NEW near \in BOOLEAN,
         MalformedReply(r) \/ UnknownTool(r) \/ ToolTurn(r, near)
  PROVE  Turn(r)
<1>1. CASE MalformedReply(r)
  <2>1. r.tool = "broken" /\ ~Known(r)
    BY <1>1 DEF MalformedReply, Known
  <2> QED
    BY <1>1, <2>1 DEF MalformedReply, Turn
<1>2. CASE UnknownTool(r)
  <2>1. r.tool = "ghost" /\ ~Known(r)
    BY <1>2 DEF UnknownTool, Known
  <2>2. formatErrors' = 0 /\ ~(formatErrors' >= 3)
    BY <1>2 DEF UnknownTool
  <2> QED
    BY <1>2, <2>1, <2>2 DEF UnknownTool, Turn
<1>3. CASE ToolTurn(r, near)
  <2>1. Known(r) /\ r.tool # "broken"
    BY <1>3 DEF ToolTurn, Known
  <2>2. formatErrors' = 0 /\ ~(formatErrors' >= 3)
    BY <1>3 DEF ToolTurn
  <2> QED
    BY <1>3, <2>1, <2>2 DEF ToolTurn, Turn
<1> QED
  BY <1>1, <1>2, <1>3

(* The bounds of the counters, and the order of the conversation.           *)
LEMMA TurnInOrder ==
  ASSUME LoopBounds, InOrder, NEW r, Turn(r)
  PROVE  LoopBounds' /\ InOrder'
<1>1. PICK n \in Nat, N \in Nat : n = Len(log) /\ N = n + 1
  <2>1. LoopTypeOK
    BY DEF LoopBounds
  <2> QED
    BY <2>1, LoopTypes
<1>2. /\ r \in Replies /\ outcome = "running" /\ Record(r) /\ LoopTypeOK
      /\ n < HardCap /\ repeats <= n /\ lastProductive <= n /\ formatErrors < 3
  BY <1>1 DEF Turn, LoopBounds
<1>3. /\ log' \in Seq(Replies) /\ Len(log') = N /\ told' \in Seq(0 .. HardCap) /\ Len(told') = N
  <2>1. /\ log' \in Seq(Replies) /\ Len(log') = Len(log) + 1
        /\ told' \in Seq(0 .. HardCap) /\ Len(told') = Len(log) + 1
    BY <1>2, LogGrows
  <2> QED
    BY <1>1, <2>1
<1>4. /\ HardCap \in Nat /\ N <= HardCap /\ TurnNo = N
      /\ repeats \in Nat /\ lastProductive \in Nat /\ formatErrors \in Nat
  <2>1. repeats \in 0 .. HardCap /\ lastProductive \in 0 .. HardCap /\ formatErrors \in 0 .. 3
    BY <1>2, LoopTypes
  <2> QED
    BY <1>1, <1>2, <2>1, LoopNumbers DEF TurnNo
<1>5. /\ formatErrors' \in 0 .. 3 /\ repeats' \in 0 .. HardCap /\ repeats' <= N
      /\ lastProductive' \in 0 .. HardCap /\ lastProductive' <= N
  <2>1. /\ formatErrors' \in {formatErrors + 1, 0} /\ repeats' \in {repeats, repeats + 1, 0}
        /\ lastProductive' \in {TurnNo, lastProductive}
    BY DEF Turn, Compare
  <2> QED
    BY <1>1, <1>2, <1>4, <2>1
<1>6. /\ lastSignature' \in {Nothing, "ghost", "edit", "probe"}
      /\ seen' \subseteq {"edit", "probe"} /\ lastProbe' \in Outputs \cup {Nothing}
  <2>1. /\ lastSignature' \in {lastSignature, r.tool} /\ (r.tool = "broken" => lastSignature' = lastSignature)
        /\ seen' \in {seen, seen \cup {r.tool}} /\ (~Known(r) => seen' = seen)
        /\ lastProbe' \in {lastProbe, r.output} /\ (r.tool # "probe" => lastProbe' = lastProbe)
    BY DEF Turn, Compare
  <2>2. /\ r.tool \in {"broken", "ghost", "edit", "probe"}
        /\ r.tool = "probe" => r.output \in Outputs
        /\ r.tool \in {"edit", "probe"} <=> Known(r)
    BY <1>2, NothingIs
  <2>3. /\ lastSignature \in {Nothing, "ghost", "edit", "probe"}
        /\ seen \subseteq {"edit", "probe"} /\ lastProbe \in Outputs \cup {Nothing}
    BY <1>2, LoopTypes
  <2> QED
    BY <2>1, <2>2, <2>3
<1>7. /\ outcome' \in {"running", "error"} \cup Endings \cup Cuts
      /\ outcome' = "running" => N < HardCap /\ formatErrors' < 3
  <2>1. OutOfTurns(lastProductive') \in {"running", "ceiling", "exhausted"}
    BY DEF OutOfTurns
  <2>2. OutOfTurns(lastProductive') = "running" => N < HardCap
    BY <1>4 DEF OutOfTurns
  <2>3. outcome' \in {"malformed", "repeated", "stalled", OutOfTurns(lastProductive')}
    BY DEF Turn
  <2>4. outcome' = "running" => ~(formatErrors' >= 3) /\ outcome' = OutOfTurns(lastProductive')
    BY <2>3 DEF Turn
  <2>5. outcome' \in {"running", "malformed", "repeated", "stalled", "ceiling", "exhausted"}
    BY <2>1, <2>3
  <2>6. outcome' = "running" => N < HardCap /\ formatErrors' < 3
    BY <1>5, <2>2, <2>4
  <2> QED
    BY <2>5, <2>6 DEF Cuts
<1>8. /\ turns' \in Seq(1 .. HardCap) /\ Len(turns') \in Nat /\ Len(turns') <= N
      /\ \A i \in 1 .. Len(turns') : turns'[i] = N - Len(turns') + i
      /\ Held(N - Len(turns'), summary')
      /\ Len(turns') >= KeepTail \/ Len(turns') = N
  <2> DEFINE kept == Append(turns, TurnNo)
  <2>1. Len(log) < HardCap
    BY <1>1, <1>2
  <2>2. CASE turns' = kept /\ summary' = summary
    <3>1. /\ kept \in Seq(1 .. HardCap) /\ Len(kept) = Len(turns) + 1
          /\ Len(turns) \in Nat /\ Len(kept) <= TurnNo
          /\ \A i \in 1 .. Len(kept) : kept[i] = TurnNo - Len(kept) + i
      BY <2>1, KeptTurns
    <3>2. /\ Held(n - Len(turns), summary)
          /\ Len(turns) >= KeepTail \/ Len(turns) = n
      BY <1>1 DEF InOrder
    <3> HIDE DEF kept
    <3>3. N - Len(turns') = n - Len(turns) /\ Len(turns') = Len(turns) + 1
      BY <1>1, <2>2, <3>1
    <3>4. Len(turns') >= KeepTail \/ Len(turns') = N
      BY <1>1, <3>1, <3>2, <3>3, LoopNumbers
    <3> QED
      BY <1>4, <2>2, <3>1, <3>2, <3>3, <3>4
  <2>3. ASSUME NEW c \in Compacted(kept), turns' = c.turns, summary' = c.summary
        PROVE  /\ turns' \in Seq(1 .. HardCap) /\ Len(turns') \in Nat /\ Len(turns') <= N
               /\ \A i \in 1 .. Len(turns') : turns'[i] = N - Len(turns') + i
               /\ Held(N - Len(turns'), summary')
               /\ Len(turns') >= KeepTail \/ Len(turns') = N
    <3>1. /\ c.turns \in Seq(1 .. HardCap) /\ Len(c.turns) \in Nat /\ Len(c.turns) <= TurnNo
          /\ \A i \in 1 .. Len(c.turns) : c.turns[i] = TurnNo - Len(c.turns) + i
          /\ Held(TurnNo - Len(c.turns), c.summary)
          /\ Len(c.turns) >= KeepTail \/ Len(c.turns) = TurnNo
      BY <2>1, FoldedTurns
    <3> QED
      BY <1>4, <2>3, <3>1
  <2> QED
    BY <2>2, <2>3 DEF Turn
<1>9. summary' \subseteq 1 .. HardCap
  <2>1. \A x \in 1 .. N - Len(turns') : x \in 1 .. HardCap
    BY <1>4, <1>8
  <2> QED
    BY <1>8, <2>1 DEF Held
<1>10. LoopTypeOK'
  <2>1. Len(log') <= HardCap
    BY <1>3, <1>4
  <2> QED
    BY <1>3, <1>5, <1>6, <1>7, <1>8, <1>9, <2>1 DEF LoopTypeOK, Nothing, HardCap, Replies, Endings, Cuts
<1>11. LoopBounds'
  BY <1>3, <1>5, <1>7, <1>10 DEF LoopBounds, HardCap
<1>12. InOrder'
  BY <1>3, <1>8 DEF InOrder, Held
<1> QED
  BY <1>11, <1>12

(* A turn keeps the invariant: what it counts is what the turns say, so     *)
(* nobody is cut or kept against them.                                      *)
LEMMA TurnKeeps ==
  ASSUME LoopInv, NEW r, Turn(r)
  PROVE  LoopInv'
<1>1. PICK n \in Nat, N \in Nat : n = Len(log) /\ N = n + 1
  <2>1. LoopTypeOK
    BY DEF LoopInv, LoopBounds
  <2> QED
    BY <2>1, LoopTypes
<1>2. /\ r \in Replies /\ outcome = "running" /\ Record(r) /\ LoopTypeOK /\ LoopBounds /\ InOrder
      /\ n < HardCap /\ Promised /\ Len(log) < HardCap
  BY <1>1 DEF Turn, LoopBounds, LoopInv
<1>3. SeenTells /\ ProbeTells /\ GroundTells
  BY DEF LoopInv
<1>4. LoopBounds' /\ InOrder'
  BY <1>2, TurnInOrder
<1>5. Len(log') = N /\ log'[N] = r /\ TurnNo = N
  BY <1>1, <1>2, LogGrows DEF TurnNo
<1>8. SeenTells' /\ ProbeTells'
  <2>1. /\ seen' = IF Known(r) THEN seen \cup {r.tool} ELSE seen
        /\ lastProbe' = IF r.tool = "probe" THEN r.output ELSE lastProbe
    BY DEF Turn
  <2>2. SeenTells'
    BY <1>2, <1>3, <2>1, SeenKeeps
  <2>3. ProbeTells'
    BY <1>2, <1>3, <2>1, ProbeKeeps
  <2> QED
    BY <2>2, <2>3
<1>9. /\ lastProductive \in Nat /\ lastProductive <= Len(log)
      /\ lastProductive' = IF Known(r) /\ NewGround(r) THEN TurnNo ELSE lastProductive
  <2>1. lastProductive \in 0 .. HardCap
    BY <1>2, LoopTypes
  <2>2. lastProductive \in Nat
    BY <2>1, LoopNumbers
  <2>3. lastProductive <= Len(log)
    BY <1>2 DEF LoopBounds
  <2>4. lastProductive' = IF Known(r) /\ NewGround(r) THEN TurnNo ELSE lastProductive
    BY DEF Turn
  <2> QED
    BY <2>2, <2>3, <2>4
<1>10. GroundTells'
  BY <1>2, <1>3, <1>9, GroundKeeps
<1>11. /\ lastProductive' \in Nat
       /\ lastProductive' \in Ground(N)' /\ \A i \in Ground(N)' : i <= lastProductive'
  <2>1. lastProductive' \in Ground(Len(log))' /\ \A i \in Ground(Len(log))' : i <= lastProductive'
    BY <1>10 DEF GroundTells
  <2>2. Ground(Len(log))' = Ground(N)'
    BY <1>5 DEF Ground
  <2>3. lastProductive' \in Nat
    BY <1>1, <1>5, <1>9
  <2> QED
    BY <2>1, <2>2, <2>3
<1>12. outcome' = IF formatErrors' >= 3 THEN "malformed"
                  ELSE IF Known(r) /\ repeats' >= 2 THEN "repeated"
                  ELSE IF Known(r) /\ N - lastProductive' >= StallWindow THEN "stalled"
                  ELSE OutOfTurns(lastProductive')
  BY <1>5 DEF Turn
<1>13. Producing(N)' <=> N - lastProductive' < StallWindow
  <2>1. \A i \in Ground(N)' : i \in Nat /\ i <= N
    BY <1>1 DEF Ground
  <2> DEFINE G == Ground(N)'
             p == lastProductive'
  <2>2. p \in Nat /\ p \in G /\ (\A i \in G : i <= p) /\ \A i \in G : i \in Nat
    BY <1>11, <2>1
  <2>4. Producing(N)' <=> \E i \in G : N - i < StallWindow
    BY DEF Producing, StallWindow
  <2> HIDE DEF G, p
  <2>3. (\E i \in G : N - i < StallWindow) <=> N - p < StallWindow
    <3>1. \A i \in G : N - i < StallWindow => N - p < StallWindow
      BY <1>1, <2>2, LoopNumbers
    <3> QED
      BY <2>2, <3>1
  <2> QED
    BY <2>3, <2>4 DEF p
<1>14. /\ outcome' \in {"stalled", "exhausted"} => ~(N - lastProductive' < StallWindow)
       /\ outcome' = "ceiling" => N - lastProductive' < StallWindow /\ N = HardCap
       /\ outcome' = "running" /\ Known(r) => N - lastProductive' < StallWindow
  <2>1. N \in Nat /\ N <= HardCap /\ HardCap \in Nat /\ StallWindow \in Nat
    BY <1>1, <1>2, LoopNumbers
  <2>2. OutOfTurns(lastProductive') = IF N < HardCap THEN "running"
          ELSE IF HardCap - lastProductive' < StallWindow THEN "ceiling" ELSE "exhausted"
    BY <1>5 DEF OutOfTurns
  <2>3. ~(N < HardCap) => N = HardCap
    BY <2>1
  <2>4. N - lastProductive' >= StallWindow <=> ~(N - lastProductive' < StallWindow)
    <3> DEFINE p == lastProductive'
    <3>1. p \in Nat
      BY <1>11
    <3> HIDE DEF p
    <3>2. N - p >= StallWindow <=> ~(N - p < StallWindow)
      BY <2>1, <3>1
    <3> QED
      BY <3>2 DEF p
  <2> QED
    BY <1>12, <2>2, <2>3, <2>4
<1>15. \A i \in 1 .. N :
         (i < N \/ outcome' = "running") /\ Known(log[i])' => Producing(i)'
  <2> SUFFICES ASSUME NEW i \in 1 .. N, i < N \/ outcome' = "running", Known(log'[i])
               PROVE  Producing(i)'
    BY DEF Known
  <2>1. CASE i = N
    <3>1. outcome' = "running" /\ Known(r)
      BY <1>1, <1>5, <2>1
    <3>2. Producing(N)'
      BY <1>13, <1>14, <3>1
    <3> QED
      BY <2>1, <3>2 DEF Producing, Ground, Breaks
  <2>2. CASE i # N
    <3>1. i \in 1 .. n /\ i \in Nat /\ i <= Len(log)
      BY <1>1, <2>2
    <3>2. log'[i] = log[i]
      BY <1>1, <1>2, <3>1, LogGrows
    <3>3. Producing(i)
      BY <1>1, <1>2, <3>1, <3>2 DEF LoopInv, ExtensionIsEarned
    <3>4. Producing(i)' <=> Producing(i)
      BY <1>2, <3>1, PrefixTells
    <3> QED
      BY <3>3, <3>4
  <2> QED
    BY <2>1, <2>2
<1>16. ExtensionIsEarned'
  <2>1. Producing(Len(log))' <=> Producing(N)'
    BY <1>5 DEF Producing, Ground, Breaks
  <2> QED
    BY <1>5, <1>13, <1>14, <1>15, <2>1 DEF ExtensionIsEarned, HardCap
<1>17. Promised' /\ DeadlineIsHonest'
  <2>1. lastProductive' \in {lastProductive, TurnNo}
    BY <1>9
  <2>2. outcome' = "stalled" => TurnNo - lastProductive' >= StallWindow
    <3>1. OutOfTurns(lastProductive') \in {"running", "ceiling", "exhausted"}
      BY DEF OutOfTurns
    <3> QED
      BY <1>5, <1>12, <3>1
  <2>3. outcome' \in {"ceiling", "exhausted"} => TurnNo >= HardCap
    <3>1. outcome' \in {"ceiling", "exhausted"} => outcome' = OutOfTurns(lastProductive')
      BY <1>12
    <3>2. TurnNo < HardCap => OutOfTurns(lastProductive') = "running"
      BY DEF OutOfTurns
    <3> QED
      BY <1>1, <1>5, <3>1, <3>2, LoopNumbers
  <2> QED
    BY <1>2, <2>1, <2>2, <2>3, DeadlineHolds
<1> QED
  BY <1>4, <1>8, <1>10, <1>16, <1>17 DEF LoopInv

(* An attempt that ends without a turn, and a step that is none of the      *)
(* loop's, leave all that was counted as it was.                            *)
LEMMA EndKeeps ==
  ASSUME LoopInv, UNCHANGED <<turns, summary, counters, log, told>>,
         outcome' = outcome \/ outcome' \in Endings \cup {"error"}
  PROVE  LoopInv'
<1>1. /\ turns' = turns /\ summary' = summary /\ log' = log /\ told' = told
      /\ formatErrors' = formatErrors /\ repeats' = repeats /\ lastSignature' = lastSignature
      /\ seen' = seen /\ lastProductive' = lastProductive /\ lastProbe' = lastProbe
  BY DEF counters
<1>2. outcome' = outcome \/ outcome' \notin {"running", "stalled", "ceiling", "exhausted"} \cup Cuts
  BY DEF Endings, Cuts
<1>3. LoopTypeOK'
  <2>1. outcome' \in {"running", "error"} \cup Endings \cup Cuts
    BY DEF LoopInv, LoopBounds, LoopTypeOK
  <2> QED
    BY <1>1, <2>1 DEF LoopInv, LoopBounds, LoopTypeOK
<1>4. LoopBounds'
  BY <1>1, <1>2, <1>3 DEF LoopInv, LoopBounds
<1>5. InOrder'
  BY <1>1 DEF LoopInv, InOrder, Held
<1>6. (outcome' = "running" => Promised') /\ DeadlineIsHonest'
  BY <1>1, <1>2 DEF LoopInv, Promised, Deadline, DeadlineIsHonest
<1>7. SeenTells' /\ ProbeTells'
  BY <1>1 DEF LoopInv, SeenTells, ProbeTells
<1>8. ASSUME NEW k PROVE Ground(k)' = Ground(k) /\ (Producing(k)' <=> Producing(k))
  <2>1. log' = log
    BY <1>1
  <2>2. ASSUME NEW i PROVE Breaks(i)' <=> Breaks(i)
    <3>1. {j \in 1 .. i - 1 : log'[j].tool = "probe"} = {j \in 1 .. i - 1 : log[j].tool = "probe"}
      BY <1>1
    <3> QED
      BY ONLY <2>1, <3>1 DEF Breaks, Known, LastOf
  <2>3. Ground(k)' = Ground(k)
    BY <2>2 DEF Ground
  <2>4. Producing(k)' <=> Producing(k)
    BY <2>3 DEF Producing, StallWindow
  <2> QED
    BY <2>3, <2>4
<1>9. GroundTells' /\ ExtensionIsEarned'
  <2>1. PICK n : n = Len(log)
    OBVIOUS
  <2>2. Len(log') = n
    BY <1>1, <2>1
  <2>3. lastProductive' \in Ground(n)' /\ \A i \in Ground(n)' : i <= lastProductive'
    BY <1>1, <1>8, <2>1 DEF LoopInv, GroundTells
  <2>4. GroundTells'
    BY <2>2, <2>3 DEF GroundTells, Ground
  <2>5. Producing(Len(log))' <=> Producing(n)
    BY <1>8, <2>2 DEF Producing, Ground, Breaks
  <2>6. \A i \in 1 .. n : (i < n \/ outcome' = "running") /\ Known(log[i])' => Producing(i)'
    <3> SUFFICES ASSUME NEW i \in 1 .. n, i < n \/ outcome' = "running", Known(log[i])'
                 PROVE  Producing(i)'
      OBVIOUS
    <3>1. Known(log[i])
      BY <1>1 DEF Known
    <3>2. Producing(i)
      BY <1>2, <2>1, <3>1 DEF LoopInv, ExtensionIsEarned
    <3> QED
      BY <1>8, <3>2
  <2>7. /\ outcome' \in {"stalled", "exhausted"} => ~Producing(n)
        /\ outcome' = "ceiling" => Producing(n) /\ n = HardCap
    BY <1>2, <2>1 DEF LoopInv, ExtensionIsEarned, Cuts
  <2>8. ExtensionIsEarned'
    BY <2>2, <2>5, <2>6, <2>7 DEF ExtensionIsEarned, HardCap
  <2> QED
    BY <2>4, <2>8
<1> QED
  BY <1>4, <1>5, <1>6, <1>7, <1>9 DEF LoopInv

(* Nothing is said yet, nothing counted.                                    *)
LEMMA LoopStart == LoopInit => LoopInv
<1> SUFFICES ASSUME LoopInit PROVE LoopInv
  OBVIOUS
<1>1. /\ outcome = "running" /\ turns = << >> /\ summary = {} /\ log = << >> /\ told = << >>
      /\ formatErrors = 0 /\ repeats = 0 /\ lastSignature = Nothing /\ seen = {}
      /\ lastProductive = 0 /\ lastProbe = Nothing
  BY DEF LoopInit, Nothing
<1>2. Len(log) = 0 /\ Len(turns) = 0 /\ Len(told) = 0
  BY <1>1
<1>3. LoopTypeOK
  <2>1. log \in Seq(Replies)
    BY <1>1
  <2>2. turns \in Seq(1 .. HardCap)
    BY <1>1
  <2>3. told \in Seq(0 .. HardCap)
    BY <1>1
  <2>4. /\ formatErrors \in 0 .. 3 /\ repeats \in 0 .. HardCap /\ lastProductive \in 0 .. HardCap
        /\ Len(log) <= HardCap
    BY <1>1, <1>2, LoopNumbers
  <2> QED
    BY <1>1, <1>2, <2>1, <2>2, <2>3, <2>4 DEF LoopTypeOK, Nothing
<1>4. LoopBounds
  BY <1>1, <1>2, <1>3, LoopNumbers DEF LoopBounds
<1>5. InOrder
  BY <1>1, <1>2 DEF InOrder, Held
<1>6. Promised /\ DeadlineIsHonest
  BY <1>1, <1>2 DEF Promised, DeadlineIsHonest
<1>7. SeenTells /\ ProbeTells
  BY <1>1, <1>2 DEF SeenTells, ProbeTells
<1>8. Ground(0) = {0}
  BY DEF Ground
<1>9. GroundTells
  BY <1>1, <1>2, <1>8 DEF GroundTells
<1>10. ExtensionIsEarned
  BY <1>1, <1>2 DEF ExtensionIsEarned
<1> QED
  BY <1>4, <1>5, <1>6, <1>7, <1>9, <1>10 DEF LoopInv

(* The invariant of the loop: its counters are what the turns say they are. *)
THEOREM LoopCorrect == LoopSpec => []LoopInv
<1>1. LoopInit => LoopInv
  BY LoopStart
<1>2. LoopInv /\ [LoopNext]_loopVars => LoopInv'
  <2> SUFFICES ASSUME LoopInv, [LoopNext]_loopVars PROVE LoopInv'
    OBVIOUS
  <2>1. CASE \E r \in Replies : \/ MalformedReply(r) \/ UnknownTool(r)
                                \/ \E near \in BOOLEAN : ToolTurn(r, near)
    <3>1. PICK r \in Replies : \/ MalformedReply(r) \/ UnknownTool(r)
                               \/ \E near \in BOOLEAN : ToolTurn(r, near)
      BY <2>1
    <3>2. PICK near \in BOOLEAN : MalformedReply(r) \/ UnknownTool(r) \/ ToolTurn(r, near)
      BY <3>1
    <3> QED
      BY <3>2, EachIsATurn, TurnKeeps
  <2>2. CASE \E status \in Endings : EndAttempt(status)
    <3>1. outcome' \in Endings /\ UNCHANGED <<turns, summary, counters, log, told>>
      BY <2>2 DEF EndAttempt
    <3> QED
      BY <3>1, EndKeeps
  <2>3. CASE CallFails
    <3>1. outcome' = "error" /\ UNCHANGED <<turns, summary, counters, log, told>>
      BY <2>3 DEF CallFails
    <3> QED
      BY <3>1, EndKeeps
  <2>4. CASE UNCHANGED loopVars
    <3>1. outcome' = outcome /\ UNCHANGED <<turns, summary, counters, log, told>>
      BY <2>4 DEF loopVars
    <3> QED
      BY <3>1, EndKeeps
  <2> QED
    BY <2>1, <2>2, <2>3, <2>4 DEF LoopNext
<1> QED
  BY <1>1, <1>2, PTL DEF LoopSpec

(* The variables of an attempt keep their types and their bounds: the       *)
(* counters of runtime.py never leave them.                                 *)
THEOREM LoopTypesKept == LoopSpec => []LoopTypeOK
<1>1. LoopInv => LoopTypeOK
  BY DEF LoopInv, LoopBounds
<1> QED
  BY <1>1, LoopCorrect, PTL

(* Who goes on past a turn with a tool has broken new ground within the     *)
(* window, who is cut for want of it has not, and the hard ceiling is for   *)
(* who has (runtime.py:207-330).                                            *)
THEOREM ExtensionsAreEarned == LoopSpec => []ExtensionIsEarned
<1>1. LoopInv => ExtensionIsEarned
  BY DEF LoopInv
<1> QED
  BY <1>1, LoopCorrect, PTL

(* Compaction never folds the tail nor keeps a turn twice, and a summary    *)
(* of summaries has the first turn and the last that was folded, however    *)
(* much of the middle summarize cuts (runtime.py:460-481).                  *)
THEOREM EndsAreKept == LoopSpec => []CompactionKeepsEnds
<1>1. LoopInv => CompactionKeepsEnds
  <2> SUFFICES ASSUME LoopInv PROVE CompactionKeepsEnds
    OBVIOUS
  <2>1. /\ turns \in Seq(1 .. HardCap) /\ log \in Seq(Replies)
    BY LoopTypes DEF LoopInv, LoopBounds
  <2>2. /\ Len(turns) \in Nat /\ Len(log) \in Nat /\ Len(turns) <= Len(log)
        /\ \A i \in 1 .. Len(turns) : turns[i] = Len(log) - Len(turns) + i
        /\ Held(Len(log) - Len(turns), summary)
        /\ Len(turns) >= KeepTail \/ Len(turns) = Len(log)
    BY <2>1 DEF LoopInv, InOrder
  <2>3. turns = [i \in 1 .. Len(turns) |-> turns[i]]
    BY <2>1
  <2>4. turns = [i \in 1 .. Len(turns) |-> Len(log) - Len(turns) + i]
    BY <2>2, <2>3
  <2>5. Len(turns) >= IF Len(log) < KeepTail THEN Len(log) ELSE KeepTail
    BY <2>2, LoopNumbers
  <2> QED
    BY <2>2, <2>4, <2>5 DEF CompactionKeepsEnds, Held
<1> QED
  BY <1>1, LoopCorrect, PTL

(* No attempt is cut before the deadline its recitation promised, and one   *)
(* that is cut was told in its last turn (runtime.py:220-222).              *)
THEOREM DeadlinesAreHonest == LoopSpec => []DeadlineIsHonest
<1>1. LoopInv => DeadlineIsHonest
  BY DEF LoopInv
<1> QED
  BY <1>1, LoopCorrect, PTL

-----------------------------------------------------------------------------
(* The four together                                                        *)

(* A step of one component is none of the others': each of them runs by its *)
(* own specification.                                                       *)
LEMMA EachOnItsOwn ==
  AgentsSpec => LoopSpec /\ CallSpec /\ IndexSpec /\ BookSpec /\ [](part \in AgentsParts)
<1>1. AgentsInit => LoopInit /\ CallInit /\ IndexInit /\ BookInit /\ part \in AgentsParts
  BY DEF AgentsInit
<1>2. [AgentsNext]_agentsVars =>
        /\ [LoopNext]_loopVars /\ [CallNext]_callVars
        /\ [IndexNext]_indexVars /\ [BookNext]_bookVars /\ part' = part
  BY DEF AgentsNext, LoopPart, CallPart, IndexPart, BookPart, agentsVars
<1>3. part \in AgentsParts /\ part' = part => (part \in AgentsParts)'
  BY DEF AgentsParts
<1> QED
  BY <1>1, <1>2, <1>3, PTL DEF AgentsSpec, LoopSpec, CallSpec, IndexSpec, BookSpec

(* What an agent works with stays of its type: the counters of its loop,    *)
(* its calls, the index and the log of its questions.                       *)
THEOREM AgentsTypesKept == AgentsSpec => []AgentsTypeOK
<1>1. LoopTypeOK /\ CallTypeOK /\ IndexTypeOK /\ BookTypeOK /\ part \in AgentsParts => AgentsTypeOK
  BY DEF AgentsTypeOK
<1> QED
  BY <1>1, EachOnItsOwn, LoopTypesKept, CallTypesKept, IndexTypesKept, BookTypesKept, PTL

=============================================================================
