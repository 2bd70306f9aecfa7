------------------------- MODULE ReviewPanel_proofs -------------------------
(***************************************************************************)
(* The review of an item, for any number of seats, contents, attempts and  *)
(* kills: the verdicts that decide are about the content under review as   *)
(* long as nothing disturbs the workroom, and the panel with its ledger,   *)
(* kills, torn rows and resumptions implements SignOff.                    *)
(***************************************************************************)
EXTENDS ReviewPanel, SequenceTheorems, TLAPS

(* The sha the next attempt starts from if its checkpoint can be committed. *)
NextBase == HeadSha + (IF Dirty \/ HeadSha = 0 THEN 1 ELSE 0)

AroundDiff == {"panel", "file", "commit", "close"}

(* Each attempt adds at most one commit of work to what its checkpoint      *)
(* makes up for: so the shas stay within the bound.                         *)
Typed ==
  /\ ReviewTypeOK
  /\ NextBase <= attempts + 1 + (IF disturbed THEN 1 ELSE 0)

(* What the place of the process says of the rest. *)
InPlace ==
  /\ at \in {"idle", "verify"} => results = Nothing /\ diff = NoDiff
  /\ at \in {"verify", "panel", "file"} => stage = "review"
  /\ at \in {"panel", "file"} => diff \in Trees
  /\ at = "file" => seat \in Seats /\ results[seat] \in Verdicts
  /\ at \in {"commit", "close"} /\ diff # NoDiff => seat > NumSeats /\ ~Blocked
  /\ stage = "done" => at = "idle"
  /\ stage # "done" => merged = NoMerge

(* The process never forgets a verdict that is on record for the attempt.   *)
OnRecord ==
  /\ \A s \in Seats : ledger[<<0, s>>] = NoRow
  /\ at \in AroundDiff /\ diff # NoDiff =>
       \A s \in Seats : s < seat /\ ledger[<<base, s>>] # NoRow => results[s] = ledger[<<base, s>>]
  /\ at = "file" => ledger[<<base, seat>>] = NoRow

(* While nothing is disturbed, an attempt starts from a sha that no row of  *)
(* the ledger has yet, and its rows are about the content it left.          *)
Current ==
  ~disturbed =>
    /\ at \in {"panel", "file"} => diff = tree
    /\ \A b \in Shas, s \in Seats : ledger[<<b, s>>] # NoRow => b < NextBase
    /\ stage = "review" =>
         /\ base < NextBase
         /\ \A s \in Seats : ledger[<<base, s>>] # NoRow => ledger[<<base, s>>].about = tree
    /\ at \in AroundDiff => \A s \in Seats : results[s] # NoRow => results[s].about = diff

ReviewInv == Typed /\ InPlace /\ OnRecord /\ Current

-----------------------------------------------------------------------------
(* Trees and commits                                                        *)

(* What a commit holds is a tree.                                           *)
LEMMA TreeAtType ==
  ASSUME NEW log \in Seq(Trees)
  PROVE  TreeAt(log, Len(log)) \in Trees
<1>1. 0 \in Trees
  BY ReviewConstants DEF Trees
<1>2. Len(log) # 0 => log[Len(log)] \in Trees
  OBVIOUS
<1> QED
  BY <1>1, <1>2 DEF TreeAt

(* The mark for no row in the ledger is none of the verdicts.               *)
LEMMA NoRowIsNone == NoRow \notin Verdicts
BY DEF NoRow, Verdicts

(* The checkpoint of an attempt is where the next base is expected, unless  *)
(* it could not be committed, which is a disturbance.                       *)
LEMMA CheckpointLog ==
  ASSUME ReviewTypeOK, NEW log \in Checkpoint
  PROVE  /\ log \in Seq(Trees) /\ Len(log) \in Nat /\ NextBase \in Nat
         /\ Len(log) <= NextBase
         /\ ~(log = commits /\ (Dirty \/ HeadSha = 0)) => Len(log) = NextBase
<1>1. commits \in Seq(Trees) /\ HeadSha \in Nat /\ tree \in Trees
  BY DEF ReviewTypeOK, HeadSha
<1>2. Append(commits, tree) \in Seq(Trees) /\ Len(Append(commits, tree)) = HeadSha + 1
  BY <1>1 DEF HeadSha
<1>3. (log = Append(commits, tree) /\ (Dirty \/ HeadSha = 0)) \/ log = commits
  BY DEF Checkpoint
<1> QED
  BY <1>1, <1>2, <1>3 DEF NextBase, HeadSha

(* An agent that delivers leaves something its base does not have: either   *)
(* it is committed, or it will be.                                          *)
LEMMA CommittedLog ==
  ASSUME NEW log \in Seq(Trees), NEW t \in Trees,
         commits' \in Committed(log, t), tree' = t
  PROVE  /\ commits' \in Seq(Trees) /\ Len(log) \in Nat /\ NextBase' \in Nat
         /\ HeadSha' <= NextBase' /\ Len(log) <= NextBase' /\ NextBase' <= Len(log) + 1
         /\ t # TreeAt(log, Len(log)) => NextBase' = Len(log) + 1
<1> DEFINE more == Append(log, t)
<1>1. /\ more \in Seq(Trees) /\ Len(more) = Len(log) + 1
      /\ more[Len(log) + 1] = t /\ Len(log) \in Nat
  OBVIOUS
<1>2. TreeAt(more, Len(more)) = t /\ Len(more) # 0
  BY <1>1 DEF TreeAt
<1>3. CASE commits' = log
  <2>1. Dirty' <=> t # TreeAt(log, Len(log))
    BY <1>3 DEF Dirty, HeadSha
  <2> QED
    BY <1>1, <1>3, <2>1 DEF NextBase, HeadSha
<1>4. CASE commits' = more /\ t # TreeAt(log, Len(log))
  <2>1. ~Dirty'
    BY <1>2, <1>4 DEF Dirty, HeadSha
  <2> HIDE DEF more
  <2> QED
    BY <1>1, <1>2, <1>4, <2>1 DEF NextBase, HeadSha
<1> QED
  BY <1>3, <1>4 DEF Committed

(* A commit of what the workroom holds, or none: the next base stays.       *)
LEMMA CommitKeepsBase ==
  ASSUME ReviewTypeOK, tree' = tree,
         commits' = commits \/ (Dirty /\ commits' = Append(commits, tree))
  PROVE  NextBase' = NextBase /\ commits' \in Seq(Trees) /\ HeadSha' <= NextBase'
<1>1. commits \in Seq(Trees) /\ HeadSha \in Nat /\ tree \in Trees
  BY DEF ReviewTypeOK, HeadSha
<1>2. CASE commits' = commits
  BY <1>1, <1>2 DEF NextBase, Dirty, HeadSha
<1>3. CASE Dirty /\ commits' = Append(commits, tree)
  <2>1. /\ commits' \in Seq(Trees) /\ Len(commits') = HeadSha + 1
        /\ commits'[HeadSha + 1] = tree
    BY <1>1, <1>3 DEF HeadSha
  <2>2. ~Dirty' /\ HeadSha' = HeadSha + 1
    BY <1>1, <2>1 DEF Dirty, TreeAt, HeadSha
  <2> QED
    BY <1>1, <1>3, <2>1, <2>2 DEF NextBase
<1> QED
  BY <1>2, <1>3

-----------------------------------------------------------------------------
(* Steps                                                                    *)

(* An attempt may change the tree, commit it, and hand it in or not; no     *)
(* verdict is about the new tree yet.                                       *)
LEMMA AttemptKeeps ==
  ASSUME ReviewInv, NEW delivered \in BOOLEAN, Attempt(delivered)
  PROVE  ReviewInv'
<1> USE DEF ReviewInv
<1>1. PICK log \in Checkpoint :
        /\ disturbed' = (disturbed \/ (log = commits /\ (Dirty \/ HeadSha = 0)))
        /\ \E t \in Leaves(log) :
             /\ tree' = t /\ newest' = IF t > newest THEN t ELSE newest
             /\ commits' \in Committed(log, t)
             /\ IF delivered
                THEN IF t = TreeAt(log, Len(log))
                     THEN GoTo("commit") /\ UNCHANGED item
                     ELSE base' = Len(log) /\ stage' = "review" /\ GoTo("verify")
                ELSE Leave /\ UNCHANGED item
  BY DEF Attempt
<1>2. PICK t \in Leaves(log) :
        /\ tree' = t /\ newest' = IF t > newest THEN t ELSE newest
        /\ commits' \in Committed(log, t)
        /\ IF delivered
           THEN IF t = TreeAt(log, Len(log))
                THEN GoTo("commit") /\ UNCHANGED item
                ELSE base' = Len(log) /\ stage' = "review" /\ GoTo("verify")
           ELSE Leave /\ UNCHANGED item
  BY <1>1
<1>3. /\ stage = "todo" /\ at = "idle" /\ attempts < MaxAttempts /\ attempts' = attempts + 1
      /\ UNCHANGED <<ledger, tornRow, garbled, killed, merged>>
  BY DEF Attempt, reviewFiles
<1>4. ReviewTypeOK /\ results = Nothing /\ diff = NoDiff
  BY <1>3 DEF Typed, InPlace
<1>5. log \in Seq(Trees) /\ Len(log) \in Nat /\ NextBase \in Nat /\ Len(log) <= NextBase
  BY <1>4, CheckpointLog
<1>6. ~disturbed' => ~disturbed /\ Len(log) = NextBase
  BY <1>1, <1>4, CheckpointLog
<1>7. t \in Trees
  BY <1>4, <1>5, TreeAtType, ReviewConstants DEF Leaves, Trees, ReviewTypeOK
<1>8. /\ commits' \in Seq(Trees) /\ NextBase' \in Nat
      /\ HeadSha' <= NextBase' /\ Len(log) <= NextBase' /\ NextBase' <= Len(log) + 1
      /\ t # TreeAt(log, Len(log)) => NextBase' = Len(log) + 1
  BY <1>2, <1>5, <1>7, CommittedLog
<1>9. attempts \in Nat /\ disturbed \in BOOLEAN /\ disturbed' \in BOOLEAN
      /\ (disturbed => disturbed')
  BY <1>1, <1>4, ReviewConstants DEF ReviewTypeOK
<1>10. NextBase' <= attempts' + 1 + (IF disturbed' THEN 1 ELSE 0)
  BY <1>3, <1>5, <1>8, <1>9 DEF Typed
<1>11. HeadSha' \in Shas /\ Len(log) \in Shas
  <2>1. HeadSha' \in Nat /\ MaxAttempts \in Nat
    BY <1>8, ReviewConstants DEF HeadSha
  <2> QED
    BY <1>3, <1>5, <1>8, <1>9, <1>10, <2>1 DEF Typed, Shas
<1>12. /\ at' \in {"commit", "verify", "idle"}
       /\ results' = Nothing /\ diff' = NoDiff /\ seat' \in {seat, 1}
       /\ (at' = "verify" => stage' = "review")
       /\ (stage' = "review" => base' = Len(log) /\ t # TreeAt(log, Len(log)))
       /\ (stage' \in {"todo", "review"}) /\ base' \in {base, Len(log)}
  BY <1>2, <1>3, <1>4 DEF GoTo, Leave, item
<1>13. ReviewTypeOK'
  <2>1. newest' \in Trees /\ tree' \in Trees /\ attempts' \in 0 .. MaxAttempts
    BY <1>2, <1>3, <1>4, <1>7, ReviewConstants DEF ReviewTypeOK, Trees
  <2>2. seat' \in 1 .. NumSeats + 1 /\ results' \in [Seats -> Verdicts \cup {NoRow}]
    BY <1>4, <1>12, ReviewConstants DEF ReviewTypeOK, Nothing
  <2> QED
    BY <1>3, <1>4, <1>8, <1>9, <1>11, <1>12, <2>1, <2>2 DEF ReviewTypeOK
<1>14. InPlace'
  BY <1>3, <1>12 DEF InPlace, Nothing
<1>15. OnRecord'
  BY <1>3, <1>12 DEF OnRecord
<1>16. Current'
  <2> SUFFICES ASSUME ~disturbed' PROVE Current'
    BY DEF Current
  <2>1. ~disturbed /\ Len(log) = NextBase
    BY <1>6
  <2>2. \A b \in Shas, s \in Seats : ledger[<<b, s>>] # NoRow => b < NextBase
    BY <2>1 DEF Current
  <2>3. \A b \in Shas, s \in Seats : ledger'[<<b, s>>] # NoRow => b < NextBase'
    BY <1>3, <1>5, <1>8, <2>1, <2>2 DEF Shas
  <2>4. stage' = "review" => base' < NextBase' /\ \A s \in Seats : ledger'[<<base', s>>] = NoRow
    BY <1>3, <1>5, <1>8, <1>11, <1>12, <2>1, <2>2
  <2>5. \A s \in Seats : results'[s] = NoRow
    BY <1>12 DEF Nothing
  <2> QED
    BY <1>12, <2>3, <2>4, <2>5 DEF Current
<1> QED
  BY <1>10, <1>13, <1>14, <1>15, <1>16 DEF Typed

(* Steps of the process alone: the workroom, the ledger and the attempt     *)
(* stay as they are, and an item in review has been in review.              *)
LEMMA SameRoom ==
  ASSUME Typed, Current, ReviewTypeOK', UNCHANGED <<workroom, base, ledger, attempts, disturbed>>,
         stage' = "review" => stage = "review",
         ~disturbed => /\ at' \in {"panel", "file"} => diff' = tree
                       /\ at' \in AroundDiff =>
                            \A s \in Seats : results'[s] # NoRow => results'[s].about = diff'
  PROVE  Typed' /\ Current'
<1>1. NextBase' = NextBase
  BY DEF NextBase, Dirty, HeadSha, workroom
<1> QED
  BY <1>1 DEF Typed, Current, workroom

(* The process lets go of the review. *)
LEMMA LeaveKeeps ==
  ASSUME ReviewInv, Leave, UNCHANGED <<workroom, base, ledger, attempts, disturbed, merged>>,
         stage' = stage \/ (stage = "review" /\ stage' = "todo"),
         tornRow' \in BOOLEAN, garbled' \in BOOLEAN, killed' \in 0 .. MaxKills
  PROVE  ReviewInv'
<1>1. ReviewTypeOK'
  BY ReviewConstants
  DEF ReviewInv, Typed, ReviewTypeOK, Leave, workroom, HeadSha, Nothing
<1>2. Typed' /\ Current'
  BY <1>1, SameRoom DEF ReviewInv, Leave, AroundDiff
<1>3. InPlace' /\ OnRecord'
  BY DEF ReviewInv, InPlace, OnRecord, Leave, AroundDiff, Nothing
<1> QED
  BY <1>2, <1>3 DEF ReviewInv

(* The ways a review is resumed, interrupted or sent back. *)
LEMMA TurnsKeep ==
  ASSUME ReviewInv, Resume \/ Regressed \/ LedgerRaises \/ TurnDown \/ KillReview
  PROVE  ReviewInv'
<1> USE DEF ReviewInv
<1>1. tornRow \in BOOLEAN /\ garbled \in BOOLEAN /\ killed \in 0 .. MaxKills
  BY DEF Typed, ReviewTypeOK
<1>2. CASE Resume /\ base = 0
  BY <1>1, <1>2, LeaveKeeps DEF Resume, reviewFiles
<1>3. CASE Regressed \/ TurnDown
  <2>1. stage = "review" /\ stage' = "todo" /\ Leave
    BY <1>3 DEF Regressed, TurnDown, InPlace
  <2> QED
    BY <1>1, <1>3, <2>1, LeaveKeeps DEF Regressed, TurnDown, reviewFiles
<1>4. CASE KillReview
  <2>1. killed' \in 0 .. MaxKills
    BY <1>1, <1>4, ReviewConstants DEF KillReview
  <2>2. tornRow' \in BOOLEAN /\ garbled' \in BOOLEAN
    BY <1>1, <1>4, Zenon DEF KillReview
  <2> QED
    BY <1>4, <2>1, <2>2, LeaveKeeps DEF KillReview, item
<1>5. CASE Resume /\ base # 0
  <2>1. /\ UNCHANGED <<workroom, item, reviewFiles, attempts, killed, disturbed, merged>>
        /\ at' = "verify" /\ stage = "review" /\ UNCHANGED <<seat, results, diff>>
        /\ at = "idle"
    BY <1>5 DEF Resume, GoTo, item
  <2>2. ReviewTypeOK'
    BY <2>1 DEF Typed, ReviewTypeOK, workroom, item, reviewFiles, HeadSha
  <2>3. Typed' /\ Current'
    BY <2>1, <2>2, SameRoom DEF item, reviewFiles, AroundDiff
  <2> QED
    BY <2>1, <2>3 DEF InPlace, OnRecord, item, reviewFiles, AroundDiff
<1>6. CASE LedgerRaises
  BY <1>1, <1>6, LeaveKeeps DEF LedgerRaises, item, reviewFiles
<1> QED
  BY <1>2, <1>3, <1>4, <1>5, <1>6 DEF Resume

(* What the seats are shown is what the workroom holds. *)
LEMMA ConveneKeeps ==
  ASSUME ReviewInv, Convene
  PROVE  ReviewInv'
<1> USE DEF ReviewInv
<1>1. /\ UNCHANGED <<workroom, item, reviewFiles, attempts, killed, disturbed, merged>>
      /\ at = "verify" /\ stage = "review" /\ results = Nothing /\ diff = NoDiff
  BY DEF Convene, InPlace
<1>2. /\ results' = Nothing /\ (seat' = seat \/ seat' = 1)
      /\ \/ at' = "commit" /\ diff' = NoDiff
         \/ at' = "panel" /\ diff' = tree /\ seat' = 1
  BY <1>1 DEF Convene, GoTo
<1>3. ReviewTypeOK'
  BY <1>1, <1>2, ReviewConstants
  DEF Typed, ReviewTypeOK, workroom, item, reviewFiles, HeadSha, Nothing
<1>4. Typed' /\ Current'
  BY <1>1, <1>2, <1>3, SameRoom DEF item, reviewFiles, Nothing
<1>5. tree \in Trees
  BY DEF Typed, ReviewTypeOK
<1>6. InPlace'
  BY <1>1, <1>2, <1>5 DEF InPlace, item
<1>7. OnRecord'
  BY <1>1, <1>2 DEF OnRecord, item, reviewFiles, Seats
<1> QED
  BY <1>4, <1>6, <1>7

(* A seat whose verdict is on record, or which is missing, is passed.       *)
LEMMA PassSeatKeeps ==
  ASSUME ReviewInv, Reuse \/ SkipSeat
  PROVE  ReviewInv'
<1> USE DEF ReviewInv
<1>1. /\ UNCHANGED <<workroom, item, reviewFiles, at, diff, attempts, killed, disturbed, merged>>
      /\ at = "panel" /\ seat \in Seats /\ seat' = seat + 1 /\ stage = "review"
  BY DEF Reuse, SkipSeat, InPlace
<1>2. /\ results \in [Seats -> Verdicts \cup {NoRow}]
      /\ ledger \in [Shas \X Seats -> Verdicts \cup {NoRow}] /\ base \in Shas
  BY DEF Typed, ReviewTypeOK
<1>3. base = 0 => ledger[<<base, seat>>] = NoRow
  BY <1>1 DEF OnRecord
<1>4. /\ results' \in [Seats -> Verdicts \cup {NoRow}]
      /\ \A s \in Seats \ {seat} : results'[s] = results[s]
      /\ ledger[<<base, seat>>] # NoRow => results'[seat] = ledger[<<base, seat>>]
      /\ results'[seat] \in {results[seat], ledger[<<base, seat>>]}
  BY <1>1, <1>2, <1>3 DEF Reuse, SkipSeat, Row
<1>5. ReviewTypeOK'
  BY <1>1, <1>4, ReviewConstants
  DEF Typed, ReviewTypeOK, workroom, item, reviewFiles, HeadSha, Seats
<1>6. ~disturbed => \A s \in Seats : results'[s] # NoRow => results'[s].about = diff'
  BY <1>1, <1>4 DEF Current, AroundDiff
<1>7. Typed' /\ Current'
  BY <1>1, <1>5, <1>6, SameRoom DEF Current, item, reviewFiles
<1>8. InPlace'
  BY <1>1 DEF InPlace, item
<1>9. OnRecord'
  BY <1>1, <1>4 DEF OnRecord, item, reviewFiles, AroundDiff, Seats
<1> QED
  BY <1>7, <1>8, <1>9

(* A seat answers about the diff it was shown, and its row joins the round. *)
LEMMA AskSeatKeeps ==
  ASSUME ReviewInv, NEW v \in Verdicts, AskSeat(v)
  PROVE  ReviewInv'
<1> USE DEF ReviewInv
<1>1. /\ UNCHANGED <<workroom, item, reviewFiles, seat, diff, attempts, killed, disturbed, merged>>
      /\ at = "panel" /\ seat \in Seats /\ at' = "file" /\ stage = "review"
      /\ v.about = diff /\ Row(seat) = NoRow
      /\ results' = [results EXCEPT ![seat] = v]
  BY DEF AskSeat, InPlace
<1>2. results \in [Seats -> Verdicts \cup {NoRow}]
  BY DEF Typed, ReviewTypeOK
<1>3. /\ results' \in [Seats -> Verdicts \cup {NoRow}] /\ results'[seat] = v
      /\ \A s \in Seats \ {seat} : results'[s] = results[s]
  BY <1>1, <1>2
<1>4. ledger[<<base, seat>>] = NoRow
  BY <1>1 DEF Row, OnRecord
<1>5. ReviewTypeOK'
  BY <1>1, <1>3 DEF Typed, ReviewTypeOK, workroom, item, reviewFiles, HeadSha
<1>6. ~disturbed => \A s \in Seats : results'[s] # NoRow => results'[s].about = diff'
  BY <1>1, <1>3 DEF Current, AroundDiff
<1>7. Typed' /\ Current'
  BY <1>1, <1>5, <1>6, SameRoom DEF Current, item, reviewFiles
<1>8. InPlace'
  BY <1>1, <1>3 DEF InPlace, item
<1>9. OnRecord'
  BY <1>1, <1>3, <1>4 DEF OnRecord, item, reviewFiles, AroundDiff, Seats
<1> QED
  BY <1>7, <1>8, <1>9

(* A verdict gets its row, or is lost with a torn one. *)
LEMMA FileVerdictKeeps ==
  ASSUME ReviewInv, FileVerdict
  PROVE  ReviewInv'
<1> USE DEF ReviewInv
<1>1. /\ UNCHANGED <<workroom, item, results, diff, attempts, killed, disturbed, merged>>
      /\ at = "file" /\ at' = "panel" /\ seat' = seat + 1 /\ stage = "review"
      /\ seat \in Seats /\ results[seat] \in Verdicts /\ ledger[<<base, seat>>] = NoRow
  BY DEF FileVerdict, InPlace, OnRecord
<1>2. /\ ledger \in [Shas \X Seats -> Verdicts \cup {NoRow}] /\ base \in Shas
      /\ tornRow \in BOOLEAN /\ garbled \in BOOLEAN
  BY DEF Typed, ReviewTypeOK
<1>3. ledger' = ledger \/ (base # 0 /\ ledger' = [ledger EXCEPT ![<<base, seat>>] = results[seat]])
  BY DEF FileVerdict, reviewFiles
<1>4. tornRow' \in BOOLEAN /\ garbled' \in BOOLEAN
  BY <1>2 DEF FileVerdict, reviewFiles
<1>5. /\ ledger' \in [Shas \X Seats -> Verdicts \cup {NoRow}]
      /\ \A b \in Shas, s \in Seats : <<b, s>> # <<base, seat>> => ledger'[<<b, s>>] = ledger[<<b, s>>]
      /\ ledger'[<<base, seat>>] \in {NoRow, results[seat]}
      /\ base = 0 => ledger' = ledger
  BY <1>1, <1>2, <1>3
<1>6. ReviewTypeOK'
  BY <1>1, <1>4, <1>5, ReviewConstants
  DEF Typed, ReviewTypeOK, workroom, item, HeadSha, Seats
<1>7. NextBase' = NextBase
  BY <1>1 DEF NextBase, Dirty, HeadSha, workroom
<1>8. Typed'
  BY <1>1, <1>6, <1>7 DEF Typed
<1>9. InPlace'
  BY <1>1 DEF InPlace, item
<1>10. OnRecord'
  <2>1. \A s \in Seats : ledger'[<<0, s>>] = NoRow
    <3>1. 0 \in Shas
      BY ReviewConstants DEF Shas
    <3> QED
      BY <1>5, <3>1 DEF OnRecord
  <2>2. \A s \in Seats : s < seat' /\ ledger'[<<base, s>>] # NoRow => results[s] = ledger'[<<base, s>>]
    <3> SUFFICES ASSUME NEW s \in Seats, s < seat + 1, ledger'[<<base, s>>] # NoRow
                 PROVE  results[s] = ledger'[<<base, s>>]
      BY <1>1
    <3>1. CASE s = seat
      BY <1>5, <3>1
    <3>2. CASE s # seat
      <4>1. s < seat /\ ledger'[<<base, s>>] = ledger[<<base, s>>]
        BY <1>1, <1>2, <1>5, <3>2 DEF Seats
      <4>2. diff # NoDiff
        BY <1>1, ReviewConstants DEF InPlace, NoDiff, Trees
      <4> QED
        BY <1>1, <4>1, <4>2 DEF OnRecord, AroundDiff
    <3> QED
      BY <3>1, <3>2
  <2> QED
    BY <1>1, <2>1, <2>2 DEF OnRecord, item
<1>11. Current'
  <2> SUFFICES ASSUME ~disturbed PROVE Current'
    BY <1>1 DEF Current
  <2>1. /\ diff = tree /\ base < NextBase
        /\ \A b \in Shas, s \in Seats : ledger[<<b, s>>] # NoRow => b < NextBase
        /\ \A s \in Seats : ledger[<<base, s>>] # NoRow => ledger[<<base, s>>].about = tree
        /\ \A s \in Seats : results[s] # NoRow => results[s].about = diff
    BY <1>1 DEF Current, AroundDiff
  <2>2. \A b \in Shas, s \in Seats : ledger'[<<b, s>>] # NoRow => b < NextBase
    BY <1>5, <2>1
  <2>3. \A s \in Seats : ledger'[<<base, s>>] # NoRow => ledger'[<<base, s>>].about = tree
    BY <1>1, <1>2, <1>5, <2>1
  <2> QED
    BY <1>1, <1>7, <2>1, <2>2, <2>3 DEF Current, workroom, item
<1> QED
  BY <1>8, <1>9, <1>10, <1>11

(* The panel is through, nobody objected, and the work is committed.        *)
LEMMA IntegrationKeeps ==
  ASSUME ReviewInv, Approve \/ CommitWork
  PROVE  ReviewInv'
<1> USE DEF ReviewInv
<1>1. /\ UNCHANGED <<tree, newest, item, reviewFiles, attempts, killed, disturbed, merged,
                     seat, results, diff>>
      /\ at' \in {"commit", "close"} /\ at \in {"panel", "commit"}
      /\ at = "panel" => seat > NumSeats /\ ~Blocked
  BY DEF Approve, CommitWork, GoTo, workroom
<1>2. commits' = commits \/ (Dirty /\ commits' = Append(commits, tree))
  BY DEF Approve, CommitWork, workroom
<1>3. ReviewTypeOK /\ NextBase <= attempts + 1 + (IF disturbed THEN 1 ELSE 0)
  BY DEF Typed
<1>4. NextBase' = NextBase /\ commits' \in Seq(Trees) /\ HeadSha' <= NextBase'
  BY <1>1, <1>2, <1>3, CommitKeepsBase
<1>5. HeadSha' \in Shas
  <2>1. HeadSha' \in Nat /\ NextBase \in Nat /\ attempts \in 0 .. MaxAttempts
    BY <1>3, <1>4 DEF HeadSha, NextBase, ReviewTypeOK
  <2> QED
    BY <1>3, <1>4, <2>1, ReviewConstants DEF Shas
<1>6. ReviewTypeOK'
  BY <1>1, <1>3, <1>4, <1>5 DEF ReviewTypeOK, item, reviewFiles
<1>7. Typed'
  BY <1>1, <1>3, <1>4, <1>6 DEF Typed
<1>8. Blocked' <=> Blocked
  BY <1>1 DEF Blocked
<1>9. stage # "done"
  BY <1>1 DEF InPlace
<1>10. InPlace'
  BY <1>1, <1>8, <1>9 DEF InPlace, item
<1>11. OnRecord'
  BY <1>1 DEF OnRecord, item, reviewFiles, AroundDiff
<1>12. Current'
  BY <1>1, <1>4 DEF Current, item, reviewFiles, AroundDiff
<1> QED
  BY <1>7, <1>10, <1>11, <1>12

(* The item is done, and what is merged is noted: the ledger stays.         *)
LEMMA MarkItemDoneKeeps ==
  ASSUME ReviewInv, MarkItemDone
  PROVE  ReviewInv'
<1> USE DEF ReviewInv
<1>1. /\ UNCHANGED <<workroom, base, reviewFiles, attempts, killed, disturbed>>
      /\ stage' = "done" /\ Leave
  BY DEF MarkItemDone
<1>2. merged' \in Merges
  BY DEF MarkItemDone, Merges, Typed, ReviewTypeOK
<1>3. ReviewTypeOK'
  BY <1>1, <1>2, ReviewConstants
  DEF Typed, ReviewTypeOK, Leave, workroom, reviewFiles, HeadSha, Nothing
<1>4. Typed' /\ Current'
  BY <1>1, <1>3, SameRoom DEF Leave, AroundDiff, reviewFiles
<1>5. InPlace' /\ OnRecord'
  BY <1>1 DEF InPlace, OnRecord, Leave, AroundDiff, reviewFiles, Nothing
<1> QED
  BY <1>4, <1>5

(* The user's edit is the disturbance that the conclusion excludes. *)
LEMMA EditByHandKeeps ==
  ASSUME ReviewInv, EditByHand
  PROVE  ReviewInv'
<1> USE DEF ReviewInv
<1>1. /\ UNCHANGED <<commits, item, reviewFiles, process, attempts, killed, merged>>
      /\ tree' = newest + 1 /\ newest' = newest + 1 /\ newest < MaxTrees
      /\ ~disturbed /\ disturbed'
      /\ disturbed' = TRUE
  BY DEF EditByHand
<1>2. ReviewTypeOK'
  <2>1. newest + 1 \in Trees /\ TRUE \in BOOLEAN
    BY <1>1, ReviewConstants DEF Typed, ReviewTypeOK, Trees
  <2> QED
    BY <1>1, <2>1 DEF Typed, ReviewTypeOK, item, reviewFiles, process, HeadSha
<1>3. NextBase' <= NextBase + 1 /\ NextBase \in Nat /\ NextBase' \in Nat
  BY <1>1 DEF NextBase, HeadSha, Typed, ReviewTypeOK
<1>4. attempts \in Nat
  BY ReviewConstants DEF Typed, ReviewTypeOK
<1>5. Typed'
  BY <1>1, <1>2, <1>3, <1>4 DEF Typed
<1>6. InPlace' /\ OnRecord'
  BY <1>1 DEF InPlace, OnRecord, item, reviewFiles, process, Blocked
<1>7. Current'
  BY <1>1 DEF Current
<1> QED
  BY <1>5, <1>6, <1>7

(* At first nothing is reviewed.                                            *)
LEMMA ReviewStart == ReviewInit => ReviewInv
<1> SUFFICES ASSUME ReviewInit PROVE ReviewInv
  OBVIOUS
<1>1. /\ 0 \in Trees /\ 0 \in Shas /\ 1 \in 1 .. NumSeats + 1
      /\ 0 \in 0 .. MaxAttempts /\ 0 \in 0 .. MaxKills
  BY ReviewConstants DEF Trees, Shas
<1>2. commits = << >> /\ HeadSha = 0 /\ commits \in Seq(Trees)
  BY DEF ReviewInit, HeadSha
<1>3. ReviewTypeOK
  BY <1>1, <1>2 DEF ReviewInit, ReviewTypeOK, Nothing
<1>4. NextBase = 1
  BY <1>2 DEF NextBase
<1>5. Typed
  BY <1>3, <1>4 DEF Typed, ReviewInit
<1>6. \A b \in Shas, s \in Seats : ledger[<<b, s>>] = NoRow
  BY DEF ReviewInit
<1>7. InPlace /\ OnRecord
  BY <1>1, <1>6 DEF ReviewInit, InPlace, OnRecord, AroundDiff
<1>8. Current
  BY <1>6 DEF ReviewInit, Current, AroundDiff
<1> QED
  BY <1>5, <1>7, <1>8 DEF ReviewInv

(* Every step keeps the invariant.                                          *)
LEMMA ReviewKept == ReviewInv /\ [ReviewNext]_reviewVars => ReviewInv'
<1> SUFFICES ASSUME ReviewInv, [ReviewNext]_reviewVars PROVE ReviewInv'
  OBVIOUS
<1>1. CASE ReviewStep
  BY <1>1, AttemptKeeps, TurnsKeep, ConveneKeeps, PassSeatKeeps, AskSeatKeeps,
     FileVerdictKeeps, IntegrationKeeps, MarkItemDoneKeeps
  DEF ReviewStep
<1>2. CASE KillReview \/ EditByHand
  BY <1>2, TurnsKeep, EditByHandKeeps
<1>3. CASE UNCHANGED reviewVars
  BY <1>3
  DEF reviewVars, workroom, item, reviewFiles, process, ReviewInv, Typed, ReviewTypeOK,
      InPlace, OnRecord, Current, NextBase, Dirty, HeadSha, Blocked
<1> QED
  BY <1>1, <1>2, <1>3 DEF ReviewNext

-----------------------------------------------------------------------------
(* The ledger, the diff the seats are shown and the work tree stay as       *)
(* ReviewInv relates them, for any seats, attempts and kills                *)
(* (phases.py:1060-1130).                                                   *)
THEOREM ReviewCorrect == ReviewSpec => []ReviewInv
BY ReviewStart, ReviewKept, PTL DEF ReviewSpec

(* All that a review has on disk and in hand stays of its type.             *)
THEOREM ReviewTypesKept == ReviewSpec => []ReviewTypeOK
<1>1. ReviewInv => ReviewTypeOK
  BY DEF ReviewInv, Typed
<1> QED
  BY <1>1, ReviewCorrect, PTL

(* As long as no hand edit and no failed commit came between, every verdict *)
(* that decides, replayed ones too, is about the diff that is there now     *)
(* (phases.py:1066).                                                        *)
THEOREM VerdictsMatchDiff == ReviewSpec => []VerdictsAboutDiff
<1>1. ReviewInv => VerdictsAboutDiff
  BY DEF ReviewInv, Current, AroundDiff, VerdictsAboutDiff
<1> QED
  BY <1>1, ReviewCorrect, PTL

-----------------------------------------------------------------------------
(* The panel implements SignOff                                             *)

(* What the ledger tells of each round, and the round that passed. *)
Opinion == [x \in Shas \X Seats |->
              IF ledger[x] = NoRow THEN "none"
              ELSE IF Objects(ledger[x]) THEN "object" ELSE "approve"]
Passed  == IF merged.after \in {"panel", "nobody"} THEN {base} ELSE {}

(* Almost every step is invisible: no row is written, and either the base   *)
(* or the outcome stays as it is, or nothing has passed before or after.    *)
LEMMA Invisible ==
  ASSUME UNCHANGED <<ledger, merged>>, UNCHANGED base \/ merged = NoMerge
  PROVE  Opinion' = Opinion /\ Passed' = Passed
<1>1. Opinion' = Opinion
  BY DEF Opinion
<1>2. merged = NoMerge => Passed = {} /\ Passed' = {}
  BY DEF Passed, NoMerge
<1> QED
  BY <1>1, <1>2 DEF Passed

(* A row is an opinion given for the first time, on a round still open. *)
LEMMA FilingGives ==
  ASSUME ReviewInv, FileVerdict, ledger' # ledger
  PROVE  \E r \in Shas, s \in Seats, o \in {"approve", "object"} : Panel!Give(r, s, o)
<1> DEFINE o == IF Objects(results[seat]) THEN "object" ELSE "approve"
<1>1. /\ seat \in Seats /\ base \in Shas /\ results[seat] \in Verdicts
      /\ ledger[<<base, seat>>] = NoRow /\ merged = NoMerge
      /\ ledger \in [Shas \X Seats -> Verdicts \cup {NoRow}]
  BY DEF FileVerdict, ReviewInv, InPlace, OnRecord, Typed, ReviewTypeOK
<1>2. ledger' = [ledger EXCEPT ![<<base, seat>>] = results[seat]]
  BY DEF FileVerdict, reviewFiles
<1>3. UNCHANGED <<base, merged>>
  BY DEF FileVerdict, item
<1>4. Passed = {} /\ Passed' = {}
  BY <1>1, <1>3 DEF Passed, NoMerge
<1>5. results[seat] # NoRow
  BY <1>1, NoRowIsNone
<1>6. Opinion[<<base, seat>>] = "none"
  BY <1>1 DEF Opinion
<1>7. Opinion' = [Opinion EXCEPT ![<<base, seat>>] = o]
  <2> HIDE DEF o
  <2>1. \A x \in Shas \X Seats : x # <<base, seat>> => ledger'[x] = ledger[x]
    BY <1>1, <1>2
  <2>2. ledger'[<<base, seat>>] = results[seat]
    BY <1>1, <1>2
  <2>3. \A x \in Shas \X Seats :
          Opinion'[x] = IF x = <<base, seat>> THEN o ELSE Opinion[x]
    BY <1>1, <1>5, <2>1, <2>2 DEF Opinion, o
  <2>4. Opinion' = [x \in Shas \X Seats |-> Opinion'[x]]
    BY DEF Opinion
  <2>5. DOMAIN Opinion = Shas \X Seats
    BY DEF Opinion
  <2> QED
    BY <2>3, <2>4, <2>5
<1>8. o \in {"approve", "object"}
  OBVIOUS
<1> HIDE DEF o
<1> QED
  BY <1>1, <1>4, <1>6, <1>7, <1>8 DEF Panel!Give, Opinion, Passed

(* Work is integrated in a round to which no seat has an objection on       *)
(* record, since the process has not forgotten any.                         *)
LEMMA MarkingPasses ==
  ASSUME ReviewInv, MarkItemDone
  PROVE  UNCHANGED <<Opinion, Passed>> \/ \E r \in Shas : Panel!Pass(r)
<1>1. /\ at = "close" /\ UNCHANGED <<ledger, base>>
      /\ merged' = [work |-> tree,
                    after |-> IF diff = NoDiff THEN "no changes"
                              ELSE IF results = Nothing THEN "nobody" ELSE "panel"]
  BY DEF MarkItemDone, reviewFiles
<1>2. base \in Shas /\ merged = NoMerge
  BY <1>1 DEF ReviewInv, InPlace, Typed, ReviewTypeOK
<1>3. Opinion' = Opinion /\ Passed = {}
  BY <1>1, <1>2 DEF Opinion, Passed, NoMerge
<1>4. CASE diff = NoDiff
  BY <1>1, <1>3, <1>4 DEF Passed
<1>5. CASE diff # NoDiff
  <2>1. Passed' = {base}
    BY <1>1, <1>5 DEF Passed
  <2>2. \A s \in Seats : Opinion[<<base, s>>] # "object"
    <3> SUFFICES ASSUME NEW s \in Seats, ledger[<<base, s>>] # NoRow
                 PROVE  ~Objects(ledger[<<base, s>>])
      BY <1>2 DEF Opinion
    <3>1. seat > NumSeats /\ ~Blocked
      BY <1>1, <1>5 DEF ReviewInv, InPlace
    <3>2. s < seat
      BY <3>1, ReviewConstants DEF Seats, ReviewInv, Typed, ReviewTypeOK
    <3>3. results[s] = ledger[<<base, s>>]
      BY <1>1, <1>5, <3>2 DEF ReviewInv, OnRecord, AroundDiff
    <3> QED
      BY <3>1, <3>3 DEF Blocked
  <2>3. Panel!Pass(base)
    BY <1>3, <2>1, <2>2 DEF Panel!Pass, Opinion, Passed
  <2> QED
    BY <1>2, <2>3
<1> QED
  BY <1>4, <1>5

(* Each step of the panel is a step of SignOff or none. *)
LEMMA StepSignsOff ==
  ASSUME ReviewInv, [ReviewNext]_reviewVars
  PROVE  [Panel!SignOffNext]_<<Opinion, Passed>>
<1>1. CASE FileVerdict
  <2>1. CASE ledger' = ledger
    BY <1>1, <2>1, Invisible DEF FileVerdict, item
  <2>2. CASE ledger' # ledger
    BY <1>1, <2>2, FilingGives DEF Panel!SignOffNext
  <2> QED
    BY <2>1, <2>2
<1>2. CASE MarkItemDone
  BY <1>2, MarkingPasses DEF Panel!SignOffNext
<1>3. CASE \E delivered \in BOOLEAN : Attempt(delivered)
  <2>1. UNCHANGED <<ledger, merged>> /\ stage = "todo"
    BY <1>3 DEF Attempt, reviewFiles
  <2>2. merged = NoMerge
    BY <2>1 DEF ReviewInv, InPlace
  <2> QED
    BY <2>1, <2>2, Invisible
<1>4. CASE Resume \/ Regressed \/ LedgerRaises \/ TurnDown \/ KillReview \/ Convene \/ Reuse \/ SkipSeat
           \/ Approve \/ CommitWork \/ EditByHand
  <2>1. UNCHANGED <<ledger, merged, base>>
    BY <1>4
    DEF Resume, Regressed, LedgerRaises, TurnDown, KillReview, Convene, Reuse, SkipSeat, Approve,
        CommitWork, EditByHand, item, reviewFiles
  <2> QED
    BY <2>1, Invisible
<1>5. CASE \E v \in Verdicts : AskSeat(v)
  <2>1. UNCHANGED <<ledger, merged, base>>
    BY <1>5 DEF AskSeat, item, reviewFiles
  <2> QED
    BY <2>1, Invisible
<1>6. CASE UNCHANGED reviewVars
  <2>1. UNCHANGED <<ledger, merged, base>>
    BY <1>6 DEF reviewVars, item, reviewFiles
  <2> QED
    BY <2>1, Invisible
<1> QED
  BY <1>1, <1>2, <1>3, <1>4, <1>5, <1>6 DEF ReviewNext, ReviewStep

(* An objection once on record cannot be shaken off by a kill, a torn row   *)
(* or a new start, however many seats and attempts there are.               *)
THEOREM PanelImplementsSignOff == ReviewSpec => ImplementsSignOff
<1>1. ReviewInit => Panel!SignOffInit
  <2> SUFFICES ASSUME ReviewInit PROVE Panel!SignOffInit
    OBVIOUS
  <2>1. Opinion = [x \in Shas \X Seats |-> "none"]
    BY DEF ReviewInit, Opinion
  <2>2. Passed = {}
    BY DEF ReviewInit, Passed, NoMerge
  <2> QED
    BY <2>1, <2>2 DEF Panel!SignOffInit, Opinion, Passed
<1>2. ReviewInv /\ [ReviewNext]_reviewVars => [Panel!SignOffNext]_<<Opinion, Passed>>
  BY StepSignsOff
<1> QED
  BY <1>1, <1>2, ReviewCorrect, PTL
  DEF ReviewSpec, ImplementsSignOff, Panel!SignOffSpec, Opinion, Passed

=============================================================================
