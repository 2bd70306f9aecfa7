----------------------------- MODULE ReviewPanel -----------------------------
(***************************************************************************)
(* The review of one work item: attempts on a workroom under git, the      *)
(* panel whose seats are asked one after another, the ledger of verdicts   *)
(* that lets an interrupted review resume, and the integration             *)
(* (orchestrator/phases.py, project.py, agents/toolbox/git.py).            *)
(*                                                                         *)
(* Contents of the workroom are numbered: a tree is a number, 0 the empty  *)
(* one.  A sha is a position in the list of commits, 0 the unborn HEAD.    *)
(* BuildPhase has this review as one choice of its outcome.                *)
(***************************************************************************)
EXTENDS Naturals, Sequences

CONSTANTS
  NumSeats,      \* config.review.panel
  MaxTrees,      \* bound: different contents of the workroom
  MaxAttempts,   \* bound: attempts on the item
  MaxKills,      \* bound: kills of the process
  CommitsFail,   \* may `git commit` fail (a hook, no identity)?
  HandEdits      \* may the user change the workroom meanwhile?

ASSUME ReviewConstants ==
  /\ NumSeats \in Nat /\ MaxTrees \in Nat /\ MaxAttempts \in Nat /\ MaxKills \in Nat
  /\ CommitsFail \in BOOLEAN /\ HandEdits \in BOOLEAN

VARIABLES
  tree,       \* the content of the workroom
  newest,     \* the highest content number used
  commits,    \* the commits, oldest first: the content of each
  stage,      \* the status of the item: todo, review, done
  base,       \* attempt.base_sha
  ledger,     \* reviews.jsonl: the last readable row of each base and seat
  tornRow,    \* the ledger ends in the middle of a row
  garbled,    \* somewhere in it a character is cut in two
  at,         \* where the process is
  seat,       \* the seat it is at
  results,    \* the verdicts it has collected
  diff,       \* the content it shows to the seats, or NoDiff
  attempts, killed,
  disturbed,  \* history: a commit failed or the user edited the workroom
  merged      \* history: what was integrated, after what

workroom   == <<tree, newest, commits>>
item       == <<stage, base>>
reviewFiles == <<ledger, tornRow, garbled>>
process    == <<at, seat, results, diff>>
reviewVars == <<workroom, item, reviewFiles, process, attempts, killed, disturbed, merged>>

Seats == 1 .. NumSeats
Trees == 0 .. MaxTrees
HeadSha == Len(commits)
Shas  == 0 .. 2 * MaxAttempts + 2
NoDiff == MaxTrees + 1
TreeAt(log, sha) == IF sha = 0 THEN 0 ELSE log[sha]

(* A verdict asks for changes, and may name blocking findings: only both    *)
(* together object.  `about` is history: the content that was judged.       *)
Verdicts == [asks : {"approve", "request_changes"}, blockers : BOOLEAN, about : Trees]
NoRow    == [asks |-> "nothing", blockers |-> FALSE, about |-> 0]
Objects(v) == v.asks = "request_changes" /\ v.blockers

Merges   == [work : Trees, after : {"panel", "nobody", "no changes"}]
NoMerge  == [work |-> 0, after |-> "open"]

ReviewTypeOK ==
  /\ tree \in Trees /\ newest \in Trees
  /\ commits \in Seq(Trees) /\ HeadSha \in Shas
  /\ stage \in {"todo", "review", "done"} /\ base \in Shas
  /\ ledger \in [Shas \X Seats -> Verdicts \cup {NoRow}]
  /\ tornRow \in BOOLEAN /\ garbled \in BOOLEAN
  /\ at \in {"idle", "verify", "panel", "file", "commit", "close"}
  /\ seat \in 1 .. NumSeats + 1 /\ diff \in Trees \cup {NoDiff}
  /\ results \in [Seats -> Verdicts \cup {NoRow}]
  /\ attempts \in 0 .. MaxAttempts /\ killed \in 0 .. MaxKills
  /\ disturbed \in BOOLEAN /\ merged \in Merges \cup {NoMerge}

Nothing == [s \in Seats |-> NoRow]

ReviewInit ==
  /\ tree = 0 /\ newest = 0 /\ commits = << >>
  /\ stage = "todo" /\ base = 0
  /\ ledger = [x \in Shas \X Seats |-> NoRow] /\ tornRow = FALSE /\ garbled = FALSE
  /\ at = "idle" /\ seat = 1 /\ results = Nothing /\ diff = NoDiff
  /\ attempts = 0 /\ killed = 0 /\ disturbed = FALSE /\ merged = NoMerge

GoTo(where) == at' = where /\ UNCHANGED <<seat, results, diff>>
Leave       == at' = "idle" /\ seat' = 1 /\ results' = Nothing /\ diff' = NoDiff

-----------------------------------------------------------------------------
(* The workroom.                                                            *)

Dirty == tree # TreeAt(commits, HeadSha)

(* ensure_repo and the checkpoint of what earlier attempts left behind: one *)
(* commit, unless there is nothing to commit, or the commit fails.  One     *)
(* disturbance in a run, of this kind or by hand, is the bound.             *)
Checkpoint ==
  IF Dirty \/ HeadSha = 0
  THEN {Append(commits, tree)}
       \cup (IF CommitsFail /\ ~disturbed THEN {commits} ELSE {})
  ELSE {commits}

(* An agent leaves the workroom as it was, takes everything back, or makes  *)
(* something new; it has a shell and may commit.                            *)
Leaves(log) == {tree, TreeAt(log, Len(log))}
               \cup (IF newest < MaxTrees THEN {newest + 1} ELSE {})
Committed(log, t) == IF t = TreeAt(log, Len(log)) THEN {log} ELSE {log, Append(log, t)}

(* phase_build up to the review: the checkpoint, the attempt from the HEAD  *)
(* it started at, the verification.  It is delivered and verified, or the   *)
(* item goes back to todo (a kill on the way leaves the same).              *)
Attempt(delivered) ==
  /\ stage = "todo" /\ at = "idle" /\ attempts < MaxAttempts
  /\ attempts' = attempts + 1
  /\ \E log \in Checkpoint :
       /\ disturbed' = (disturbed \/ (log = commits /\ (Dirty \/ HeadSha = 0)))
       /\ \E t \in Leaves(log) :
            /\ tree' = t /\ newest' = IF t > newest THEN t ELSE newest
            /\ commits' \in Committed(log, t)
            /\ IF delivered
               THEN IF t = TreeAt(log, Len(log))
                    THEN GoTo("commit") /\ UNCHANGED item
                    ELSE base' = Len(log) /\ stage' = "review" /\ GoTo("verify")
               ELSE Leave /\ UNCHANGED item
  /\ UNCHANGED <<reviewFiles, killed, merged>>

-----------------------------------------------------------------------------
(* The review.                                                              *)

(* phase_build finds an item in review.  Without a base the attempt cannot  *)
(* be found again.                                                          *)
Resume ==
  /\ stage = "review" /\ at = "idle"
  /\ IF base = 0 THEN stage' = "todo" /\ Leave
                 ELSE stage' = stage /\ GoTo("verify")
  /\ UNCHANGED <<workroom, base, reviewFiles, attempts, killed, disturbed, merged>>

(* A slip: the item stays in review.                                        *)
RegressedKept ==
  /\ at = "verify"
  /\ Leave
  /\ UNCHANGED <<workroom, item, reviewFiles, attempts, killed, disturbed, merged>>
Regressed ==
  /\ at = "verify"
  /\ stage' = "todo" /\ Leave
  /\ UNCHANGED <<workroom, base, reviewFiles, attempts, killed, disturbed, merged>>

(* The ledger is read before the first seat: one that does not decode       *)
(* raises, and the visit is over.                                           *)
Decodes == garbled => base = 0

LedgerRaises ==
  /\ at = "verify" /\ tree # TreeAt(commits, base) /\ ~Decodes
  /\ Leave
  /\ UNCHANGED <<workroom, item, reviewFiles, attempts, killed, disturbed, merged>>

Convene ==
  /\ at = "verify" /\ (tree = TreeAt(commits, base) \/ Decodes)
  /\ IF tree = TreeAt(commits, base)
     THEN GoTo("commit")
     ELSE at' = "panel" /\ seat' = 1 /\ results' = Nothing /\ diff' = tree
  /\ UNCHANGED <<workroom, item, reviewFiles, attempts, killed, disturbed, merged>>

(* project.reviews_for: the row of this seat with this base.                *)
(* A slip: any base.                                                        *)
RowOfAnyBase(s) ==
  IF \E b \in Shas : ledger[<<b, s>>] # NoRow
  THEN ledger[<<CHOOSE b \in Shas : ledger[<<b, s>>] # NoRow, s>>]
  ELSE NoRow
Row(s) == IF base = 0 THEN NoRow ELSE ledger[<<base, s>>]

Reuse ==
  /\ at = "panel" /\ seat \in Seats /\ Row(seat) # NoRow
  /\ results' = [results EXCEPT ![seat] = Row(seat)]
  /\ seat' = seat + 1
  /\ UNCHANGED <<workroom, item, reviewFiles, at, diff, attempts, killed, disturbed, merged>>

(* A seat whose model is not configured or whose call fails is skipped.     *)
SkipSeat ==
  /\ at = "panel" /\ seat \in Seats /\ Row(seat) = NoRow
  /\ seat' = seat + 1
  /\ UNCHANGED <<workroom, item, reviewFiles, at, results, diff, attempts, killed,
                 disturbed, merged>>

(* A slip: the seat is asked although its verdict is on record.             *)
AskSeatAgain(v) ==
  /\ at = "panel" /\ seat \in Seats /\ v.about = diff
  /\ results' = [results EXCEPT ![seat] = v]
  /\ at' = "file"
  /\ UNCHANGED <<workroom, item, reviewFiles, seat, diff, attempts, killed, disturbed, merged>>
AskSeat(v) ==
  /\ at = "panel" /\ seat \in Seats /\ Row(seat) = NoRow /\ v.about = diff
  /\ results' = [results EXCEPT ![seat] = v]
  /\ at' = "file"
  /\ UNCHANGED <<workroom, item, reviewFiles, seat, diff, attempts, killed, disturbed, merged>>

(* project.record_review.  A row appended after a torn one is one line with *)
(* it, which the reader skips.                                              *)
FileVerdict ==
  /\ at = "file"
  /\ IF base = 0 THEN UNCHANGED reviewFiles
     ELSE /\ tornRow' = FALSE /\ UNCHANGED garbled
          /\ ledger' = IF tornRow THEN ledger
                       ELSE [ledger EXCEPT ![<<base, seat>>] = results[seat]]
  /\ at' = "panel" /\ seat' = seat + 1
  /\ UNCHANGED <<workroom, item, results, diff, attempts, killed, disturbed, merged>>

(* panel_outcome: a verdict blocks when it asks for changes and names       *)
(* blockers.                                                                *)
Blocked == \E s \in Seats : Objects(results[s])

TurnDown ==
  /\ at = "panel" /\ seat > NumSeats /\ Blocked
  /\ stage' = "todo" /\ Leave
  /\ UNCHANGED <<workroom, base, reviewFiles, attempts, killed, disturbed, merged>>

(* Approved, or no seat was available.                                      *)
Approve ==
  /\ at = "panel" /\ seat > NumSeats /\ ~Blocked
  /\ GoTo("commit")
  /\ UNCHANGED <<workroom, item, reviewFiles, attempts, killed, disturbed, merged>>

-----------------------------------------------------------------------------
(* _integrate_item.                                                         *)

CommitWork ==
  /\ at = "commit"
  /\ commits' \in (IF Dirty THEN {Append(commits, tree)} ELSE {commits})
                  \cup (IF CommitsFail THEN {commits} ELSE {})
  /\ GoTo("close")
  /\ UNCHANGED <<tree, newest, item, reviewFiles, attempts, killed, disturbed, merged>>

MarkItemDone ==
  /\ at = "close"
  /\ stage' = "done" /\ Leave
  /\ merged' = [work |-> tree,
                after |-> IF diff = NoDiff THEN "no changes"
                          ELSE IF results = Nothing THEN "nobody" ELSE "panel"]
  /\ UNCHANGED <<workroom, base, reviewFiles, attempts, killed, disturbed>>

(* Killed, also in the middle of an append, of a character even.            *)
KillReview ==
  /\ at # "idle" /\ killed < MaxKills
  /\ killed' = killed + 1
  /\ Leave
  /\ \/ UNCHANGED <<tornRow, garbled>>
     \/ at = "file" /\ base # 0 /\ tornRow' = TRUE /\ garbled' \in {garbled, TRUE}
  /\ UNCHANGED <<workroom, item, ledger, attempts, disturbed, merged>>

EditByHand ==
  /\ HandEdits /\ ~disturbed /\ stage # "done" /\ newest < MaxTrees
  /\ tree' = newest + 1 /\ newest' = newest + 1 /\ disturbed' = TRUE
  /\ UNCHANGED <<commits, item, reviewFiles, process, attempts, killed, merged>>

ReviewStep ==
  \/ \E delivered \in BOOLEAN : Attempt(delivered)
  \/ Resume \/ Regressed \/ LedgerRaises \/ Convene
  \/ Reuse \/ SkipSeat \/ (\E v \in Verdicts : AskSeat(v)) \/ FileVerdict
  \/ TurnDown \/ Approve \/ CommitWork \/ MarkItemDone

ReviewNext == ReviewStep \/ KillReview \/ EditByHand

ReviewSpec == ReviewInit /\ [][ReviewNext]_reviewVars /\ WF_reviewVars(ReviewStep)

-----------------------------------------------------------------------------
(* The verdicts that decide are about the content under review, replayed    *)
(* ones too: phases.py:1066 reuses a verdict as `already recorded for this  *)
(* diff`, but the ledger only knows the sha the attempt started from.  It   *)
(* holds as long as the checkpoint can be committed and nobody edits the    *)
(* workroom between a kill and the resumption.                              *)
VerdictsAboutDiff ==
  ~disturbed /\ at \in {"panel", "file", "commit", "close"} =>
    \A s \in Seats : results[s] # NoRow => results[s].about = diff

(* A review comes to an end, whichever seats are missing and however the    *)
(* verification turns out: `a dead reviewer must never wedge the pipeline`  *)
(* (phases.py:982).  A character cut in two by a kill does wedge it: no     *)
(* line of the ledger is read again (fsio.py:81-89 only skips what does not *)
(* parse), so that every review raises.                                     *)
ReviewEnds == stage = "review" ~> stage # "review" \/ garbled

(* Kills, torn rows and resumptions do not show: with the ledger as the     *)
(* opinions and the base as the round, the panel is that of SignOff, where  *)
(* an objection once recorded can never be shaken off by starting over.     *)
Panel == INSTANCE SignOff WITH
  Rounds  <- Shas,
  opinion <- [x \in Shas \X Seats |->
                IF ledger[x] = NoRow THEN "none"
                ELSE IF Objects(ledger[x]) THEN "object" ELSE "approve"],
  passed  <- IF merged.after \in {"panel", "nobody"} THEN {base} ELSE {}
ImplementsSignOff == Panel!SignOffSpec

(* Work that a seat objected to is not integrated: `Sign-off requires every *)
(* panelist to approve` (phases.py:1179).                                   *)
SignedOff ==
  merged # NoMerge =>
    \A x \in Shas \X Seats : ~(Objects(ledger[x]) /\ ledger[x].about = merged.work)

=============================================================================
