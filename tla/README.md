# eng-orc, specified

TLA+ specifications of the orchestrator in `src/src/engorc`: what its phases,
its plan, its review panel, its agents, its questions to the user, its memory
and its files do under crashes, outages, late answers and concurrent commands;
TLC configurations that check them on small instances; and proofs, checked by
TLAPS, of what holds for every instance. Paths below are relative to
`src/src/engorc` unless they say otherwise.

## The system

eng-orc drives software projects on one machine with local language models.
Every fact lives in files; each `orc run` is a process that repeats *visits*:
pick a project, run one phase of it, write what came of it. A process may be
killed at any time and the next visit starts from the files.

| part | state | operations | talks to |
|---|---|---|---|
| plan (`plan.py`) | `plan.yaml`: items with status, attempts, dependencies, notes | load, save (atomic), `ready_items`, `is_complete`, `validate_graph`, `add_items`, `set_status` | phases |
| supervision policy (`orchestrator/supervisor.py`) | none | `next_phase`, `pick_item`, `exhausted_items`, `cleanup_dangling_attempts` | graph, phases |
| phases (`orchestrator/phases.py`) | the plan object of the visit | scout, charter, design, plan, request, build, wrap | everything |
| questions (`gates.py`) | `gates.jsonl`, a fold of opened/answered/dismissed | `open`, `answer`, `dismiss`, `open_gates` | agents, phases, user |
| project record (`project.py`) | `project.json` (phase, state), `consumed_gates.json`, `requests.jsonl`, `reviews.jsonl` | `set_phase`, `set_state`, `is_runnable`, `queue_request`, `mark_gates_consumed`, `record_review` | phases, scheduler, command line |
| graph (`orchestrator/graph.py`) | checkpoints, not read back | route on `next_phase`, record the phase, run it | scheduler |
| scheduler (`orchestrator/scheduler.py`, `sessions.py`) | the step lease, the memory of the loop guard, session files | `runnable`, `step`, `run` | projects |
| command line (`cli.py`, `interactive.py`, `intake.py`) | none | `request`, `answer`, `pause`, `resume`, `abandon`, `new`, `query` | project record, questions |
| tool loop (`agents/runtime.py`) | turns, budgets, repetition counters, the conversation | run an agent to `done`, `failed`, `stuck`, `error` or `blocked_on_user` | models, tools |
| agents' tools (`agents/toolbox/`) | the workroom, its git repository | files, commands, git, verification, search | tool loop, phases |
| review panel (`phases.py`, `reviews.jsonl`) | verdicts by (item, base sha, lens, role) | run the seats, replay recorded ones | phases |
| structured calls (`llm/structured.py`, `llm/client.py`) | repair rounds, retries | `chat`, `call`, `one_shot_prose` | tool loop, phases |
| briefs (`orchestrator/briefs.py`, `llm/budget.py`) | — | choose what a prompt holds, cut it to its budget | phases |
| code index (`context/`) | cached symbol map, vectors, document store | look up, refresh, rebuild, gather | tools, briefs |
| memory (`memory/`) | local database, outbox, remote mirror | `save`, `sync`, `set_block`, `get_block` | wrap phase, briefs |
| GPU timeline (`llm/timeline.py`) | last observation, log of transitions | `observe` | scheduler, panel, dashboard |
| durable files (`fsio.py`) | — | atomic write, locked append, tolerant read, `FileLock` | everything |
| dashboard, bug reports, self test, configuration | — | read, format, print | — |

What is hard: a visit holds a plan in memory for hours while the user answers
questions and queues requests; one change is several file writes, any two of
which a kill may separate; an answer is read at one point and marked consumed
at another; models may ask for any rewrite of the plan; a review resumes from
verdicts that only know the commit an attempt started from; an agent is cut by
counters that some turns skip; several processes read a file without its lock
and write it later. `PROJECT.json` lists each hazard at its line with the
property that covers it.

## The modules

| module | of |
|---|---|
| `WorkPlan` | the plan and the policy over it, as operators |
| `BuildPhase` | one project from its saved plan on: build, wrap, request, routing, user, crashes |
| `Definition` | one project up to its saved plan: scout, charter, design, plan, early requests |
| `Scheduler` | several projects and processes, the lease, the user's commands |
| `ReviewPanel`, `SignOff` | the review of an item, and what a panel promises |
| `ToolLoop`, `ModelCall` | an attempt of an agent; one call of a model |
| `QuestionBook` | `gates.jsonl` under several terminals and torn lines |
| `CodeIndex` | symbol map, vectors and document store under a changing tree |
| `MemorySync`, `GpuTimeline` | memory and its mirror; observers of the GPU |
| `ShellCommand`, `ContextPacker` | the commands of a verification; the packing of a prompt |
| `MCBuildPhase`, `MCScheduler`, `MCAgents`, `MCMissions` | instances for TLC |
| `WorkPlan_proofs`, `BuildPhase_proofs`, `BuildWork_proofs` | theorems on the plan; types and questions; work and answers |
| `Definition_proofs`, `Scheduler_proofs`, `ReviewPanel_proofs` | theorems on the module of that name |
| `Agents_proofs`, `Shared_proofs` | theorems on `ToolLoop`, `ModelCall`, `CodeIndex`, `QuestionBook`, and on `MemorySync`, `GpuTimeline`, `ShellCommand`, `ContextPacker`, each alone and together |

`WorkPlan` has no variables. It is the plan and the policy over it: what is
ready, pickable, exhausted, complete; when a graph is valid (Kahn's rounds as
`_has_cycle` runs them); and the rewrites: cleanup of interrupted attempts,
revival, a failed attempt, a triage marker, a split. Of an item's attempt list
it keeps what the policy reads (failures counted, an attempt without an
outcome, a finished one to review, a successful tester); of its notes the
number of triage markers, as far as `triage_rounds` looks at it (`OneMore`
stops counting there; triage does not stop), and the user's confirmation.

`BuildPhase` extends it with one project's working life from the saved plan
on: build, wrap and request phases, routing, the user and crashes.

| variables | in the code |
|---|---|
| `plan`, `phase`, `state` | `plan.yaml`; `phase` and `state` of `project.json` |
| `gates` | `gates.jsonl` folded, minus `consumed_gates.json`; dismissed and consumed questions free their slot, since nothing reads them again |
| `requests` | counts of queued and done records in `requests.jsonl` |
| `pc`, `mem`, `item` | where the visit stands, the plan object it loaded, the item it is about |
| `brief` | the answers `item_brief` put into the prompt, marked consumed when the loop returns |
| `cands`, `asks`, `acted` | the triage report being applied |
| `crashes` | only counted |

An action is what happens between two points at which the rest of the world
may intervene: a durable write, or the return of a model, a tool loop or a
verification run. So the build phase is one action per write: `LoadPlan`
(load, clean, save), `AbsorbGuidance` (mark consumed), `SaveGuidance`,
`ResumeReview`/`RequeueReview`/`NoReview`, `StartAttempt` (record the attempt,
save, compose the brief), `AgentAsks`, `LoopBlocked`/`LoopFailed`/
`LoopHitCeiling`/`TestsDelivered`/`WorkDelivered` (consume the brief, set the
outcome in memory; the ceiling leads to triage however often),
`SaveBlocked`/`SaveItem`/`SaveCeiling`, `Verified` (save the review stage),
`Reverified`, `PanelPassed`, `TurnedDown`, `AlreadySatisfied`, `Integrate`
(save done), `DismissGates`; when nothing can be picked, `MarkExhausted`, the
triage actions, `AskForDirection`, `Park`. `Return` empties the memory. What
models and commands answer is nondeterministic. `Crash` stands for a kill and
for an exception, which the scheduler catches; either way the next visit
starts from the disk.

`Scheduler` has the other side: several projects, several `orc run` processes,
the lease, and the user's commands, which write the same `project.json`. A
visit is here only what it writes there, the question it may open and the
note it returns.

| variables | in the code |
|---|---|
| `meta` | state, phase and `last_active` of each `project.json` |
| `asking`, `answered`, `pending` | which projects have an open question, an unconsumed answer, a queued request |
| `lease`, `session` | the lock on `gpu.lock`; a conversation's file under `sessions/` and its process |
| `pc`, `target`, `result` | where a runner stands in `Scheduler.step`, its project, whether the note is news |
| `last`, `repeats` | the loop guard's `last_result` and `repeats` |
| `saves`, `copy` | a writer's updates of `project.json` still to be made; the record it has read and not yet written back |

`set_phase`, `set_state` and the stamp each become a `Read` and a `Save` of
the whole record, by runners and by the user alike; everything between them is
open to the others, and what they write there, a `last_active` too, the `Save`
takes back. A phase the record has already is not written (`Skip`). A stamp is
not a time but the number of older stamps on disk, numbered anew at each
`Save`: `runnable` only compares them. "paused" stands for "abandoned" too,
and "working" for every phase before "done". `Choose` is one pass over the
projects and queues the unparking of those with an answer; `TakeLease`
includes the routing that follows; `Works`, `Asks`, `Wraps`,
`PlansRequest`/`MarksRequest` and `Raises` are how a visit may end; `Release`
gives the lease back and queues the stamp, `Judge` and `LoopGuard` are the end
of the loop in `run`; `Kill`, `LeaseTimeout` and `Start` are processes that
come and go.

`Definition` is a project before `BuildPhase` takes over. `files` says which
of report, charter, ready-to-build charter, design and plan are on disk, and
`NextPhase` routes from it as `next_phase` does, a waiting request before
everything else once there is a design; `questions` are the gates of the
charterer, `requests` what is queued and done in `requests.jsonl`, `brief` the
answers its prompt holds, `planRound` the round of `phase_plan`. One action
per write: `WriteCharter`, `ConsumeAnswers`, `AskQuestion` (one gate after
another), `ParkCharter`, `ActivateCharter`, `EnterDesign`, and so on to
`EnterBuild`; `PhaseFails` is a model that gave nothing usable, `PlanInvalid`
and `PlanCriticized` a round of planning, `PlanApproved` the reviewer's
consent or absence. `ExtensionRefused` or `ExtensionPlanned`,
`ReactivateProject` and `MarkRequest` are the request phase; what it saves is
the plan there is with the request's items, or these alone.

`ReviewPanel` is the part of the build phase that `BuildPhase` has as one
choice: `Attempt` (checkpoint of what was left behind, base sha, what the agent
leaves in the workroom, verification), `Resume` after a kill, `Regressed`,
`Convene`, then one seat at a time - `Reuse` a recorded verdict, `SkipSeat`,
`AskSeat` and `FileVerdict` - and `TurnDown`, or `Approve`, `CommitWork`,
`MarkItemDone`. The workroom is the number of its content, the repository the
list of committed contents, `ledger` is `reviews.jsonl` as `reviews_for` reads
it, `tornRow` a last line without its end, `garbled` one that ends inside a
character, which makes the ledger raise (`LedgerRaises`) wherever it is read.
`KillReview` may also tear a row, in either way; `EditByHand` is the user; a
checkpoint may fail to commit.

`SignOff` is what a panel promises, without seats in turn, files or kills: a
seat may give one opinion on a round of work, the opinion stands, and a round
passes only if nobody objects. `ReviewPanel` implements it
(`ImplementsSignOff`, through `Panel == INSTANCE SignOff WITH`): the ledger is
the opinions, the base sha the round, and an integration after a panel - or
after a panel nobody could be found for - the passing. Recording a verdict
maps to `Give`, `MarkItemDone` to `Pass`, all else stutters; so a panel that is
killed and convened again can neither change an opinion on record nor forget
an objection. Work that shows no difference to its base passes no panel, in
the code as in the mapping; what comes of that is `rejected_merged` below.

`ToolLoop` is one attempt of an agent turn by turn. `turns` and `summary` are
the conversation and the turns of which the summary still has something:
`Compacted` folds all but the tail, and `Foldings` lets `summarize` lose any
stretch between the first and the last of what it is given, as its two cuts in
the middle may. The counters carry the code's names. `MalformedReply`,
`UnknownTool`, `ToolTurn`, `EndAttempt` and `CallFails` are the ways a turn
goes. Three tools stand for all: one that repeats itself exactly, one whose
output may differ, one that does not exist. The history `log` holds every
turn, `told` the number of turns the agent was promised at each; the
properties compute new ground from the log in their own way.

`ModelCall` is a call with its retries (`PostFails`), used for a document, an
object of a schema, or a stream. A reply is whether the budget cut it, the
channel the answer is in, its length, and whether it fits the schema. `cuts`,
`best` and `posts` are `length_failures`, `best_partial` and the attempt.

`QuestionBook` is `gates.jsonl` line by line. A terminal shows a question
(`ShowGate`), checks that it is still open (`CheckGate`) and appends
(`SettleGate`); these are three steps, because only the append is locked.
`DieOpening` and `DieSettling` leave a part of a line, a line without its
newline, or a part that ends inside a character of several bytes; the next
append continues it, and is confirmed to the user all the same. `Readable`,
`Opened` and `Closing` are the reader and the fold; of a log with a torn
character (`Decodable`) nothing can be read.

`CodeIndex` has the files as version numbers with the time they were written;
`mapCache` is the cached symbol map with its digest, `vectors` and `docstore`
the two stores of the index, `job` what the process is in the middle of. A
lookup is `LookUpSymbols`, `TagFiles`, `SaveMap`; a refresh `ReadDocuments`,
`DeleteChunks`, `AddChunks`, `PersistDocstore`; a rebuild deletes the two
stores first; `ChangeFile`, which may put a file back to what it was, and
`StopJob`, a kill or embeddings that fail, fall anywhere between. The history
`robbed` is of files whose chunks a job had deleted when it was stopped. How
the library's pipeline treats the two stores is external.

`MemorySync` is `save` (local store, then the server, then the outbox if that
failed) and `sync` (the list read once, each item sent and then removed) of
several sessions, over one server that comes and goes (`GoDown`, `ComeBack`).
`attached` is whether a session found the server when it opened: one that did
not saves locally and queues nothing (`offline` remembers what). A call that
fails may have stored the item. `cutOff` is of items whose session was killed
between the local save and the call or the queue.

`GpuTimeline` is `observe` of several observers: `Look` (before the lock),
`Enter` (under it, with the difference to the record), `Append1` (one event),
`WriteRecord`. `logged` is what the last event of each model says.

`ShellCommand` is a verification: `left` commands to go, the shell of the
current one, and its helpers, in its process group or out of it, each with the
pipes it holds open. The caller waits (`WaitOver`), kills the group
(`KillGroup`), and joins its readers (`CollectResult`), which is possible only
when nobody has a pipe. The command itself may do anything.

`ContextPacker` is `pack` with its three loops - `Shrink`, `DropSection`,
`Clamp` - in the code's arithmetic: characters, tokens of 3.6 characters, the
length of the mark a cut leaves.

`MCAgents` and `MCMissions` put several of these in one run each. The
components share no state there, so a variable `part` chooses, in the first
state, the one that moves: the state space is the sum of theirs, not the
product, and each property speaks of its own component only. The fairness each
module states of itself is restated for the part that moves.

Definitions whose comment begins or ends with "A slip" are plausible mistakes
in the definition after them; they are used by nothing and serve to show that
each property would notice one. Variables called history in their comment are
written for the properties, to say what these need to know of the past; no
other variable depends on them (`found` and `tags` in `CodeIndex` are also what
the lookup before a `Gather` returned).

## What is checked

Deadlock is not checked because the system may really stop: closed, parked
with nobody answering, or a call that has returned.

One project with a plan, and several:

* `build_crashes`. One planned test-first item with budget for one failure, one
  spare identifier for requests and build fixes, two questions at a time, one
  request, one crash anywhere, repositories with and without a first commit.
  - `ParkedHasQuestion`: a parked project has a question, open or answered and
    unconsumed. `IInv`: why, in the form that is inductive.
  - `OneInFlight`: on disk, at most one item is under work or review.
  - `AttemptBudget`: no item fails more often than allowed, none is in flight
    without budget.
  - `ClosedIsSettled`: a closed mission has every item finished and every
    dropped one confirmed, though confirmation, consumption, phase and state
    are separate writes.
  - `DoneIsFinal`, `QuestionsPersist`, `ConsumedWasRead`: no step reopens
    finished work, withdraws a question whose item is not done, or marks an
    answer consumed that nobody entitled to it had read.
* `build_splits`. Two dependent items, two spare ones, triage that retries,
  drops, splits and repairs, a cyclic repair among the repairs; drafts in any
  order. `WorkRespectsDeps`, `SplitKeepsOrder` (what waited for a split item
  waits for every part), `OnlySplitsTangle` (a plan becomes cyclic only by a
  split with a part drafted to follow a later one; no repair, revival, request
  or stale copy does it).
* `build_progress`. Liveness under `WF_vars(Runner)`: `VisitsEnd`,
  `ReadyWorkIsTaken`, `SettledMissionCloses`. Ready work is taken unless triage
  for ever retries an item that hits the turn ceiling, which the code bounds by
  nothing.
* `runners_share` (`MCScheduler`). Two projects, two runners, one command,
  conversation or death at any point.
  - `OneVisit`: visits are serial. `LeaseInv`: the lease belongs to the runner
    inside a visit, and to no one when there is none, whatever raises or dies.
  - `TurnComes`: a project that no other is more urgent than is visited again
    and again as long as it can run, although stamps are written late and the
    lock has no queue; unless writers put older stamps back over newer ones
    endlessly often, which a stale `project.json` may do.

What an agent works with, `agents_work` (`MCAgents`):

  - `ExtensionIsEarned`: an attempt is cut for want of progress only when its
    whole log has no new ground in the window, ends at the ceiling only when it
    has, and never goes on past a turn with a tool without; though format
    errors and unknown tools skip counters, success resets some, and progress
    moves the deadline.
  - `CompactionKeepsEnds`: however often the conversation is compacted, it is
    the latest turns in order, none of them folded too, and the summary has
    something of the first and the last turn that were folded, though those
    between may be lost.
  - `DeadlineIsHonest`: an attempt that is cut never was promised more turns
    than it got, and knew its last turn for the last.
  - `AnswerIsWhole`: a caller never takes a part for the whole, and never loses
    the best of what it had, over retries, cuts and thinking turned off.
  - `LookupsAreCurrent`: a map that was made on a quiet tree answers for that
    tree, and snippets have the lines of the text they show; a rebuild leaves
    the chunks of the tree and no other; a refresh finds every file but those
    whose chunks an earlier job had deleted when it was stopped.
  - `OneLostPerKill`: a killed writer costs at most one record of somebody else
    while the log can be read, and only a kill makes it unreadable.
    `AnswerSurvives`: an answer confirmed to the user stays the word on its
    question, but for at most one question per kill whose answer went behind
    the torn line, and one whose opening was that line; where two terminals
    settled it at the same moment one of them has the word.

What a mission passes through, `missions_pass` (`MCMissions`):

  - `QuestionBudget`, `AnswersReachCharter`: over revisions, late answers and
    kills the charterer asks no more than its budget, and an answer is marked
    consumed only when a charter written from it is on disk.
    `DefinitionSettles`: a plan gets written, or the project is parked on an
    open question. With a request that came early it may be the request's.
  - `VerdictsAboutDiff`: every verdict that counts, a replayed one too, is
    about the content now under review, while no commit failed and nobody
    edited by hand. `ReviewEnds`: a review ends, whichever seats are dead,
    unless a torn character made the ledger unreadable. `ImplementsSignOff`:
    the refinement.
  - `MirrorGaps`: what a session that found the server saves is there, queued
    or on its way, through racing syncs, outages and calls that fail half-way,
    but for what a kill interrupted; what a session without the server saves
    is never brought there. `OutboxDrains`: what is queued gets there.
  - `LogMatchesRecord`, `RecordCatchesUp`: outside the lock the log and the
    record of the GPU agree; when the server is quiet, the record is right.
  - `VerificationEnds`: a verification ends, unless a process that left the
    group keeps a pipe for ever. `PackEnds`: packing ends, within its room or
    empty.

Fairness. In `BuildPhase`: `orc run --watch` visits for ever, and models,
tools and verification commands have timeouts, so a runner that can step does.
Nothing is assumed of the user, and no particular model verdict is assumed to
recur; properties that would need that (a mission is eventually closed) are
not stated. `Definition` and `ReviewPanel` say the same with weak fairness of
their steps. In `Scheduler` it is weak, for each runner and for the user's
writes: the lock is polled, so a runner may lose every race for it, and strong
fairness would hide that. A runner goes on with its steps or its writes.
Nothing makes the user act or a dead runner come back. `TurnComes` holds
because all runners there take any project: one with a focus may keep the lock
from the others for ever. In `ShellCommand` only the caller is fair; nothing
is assumed of a command. In `GpuTimeline` the observers observe again and
again, as the dashboard's tick and the scheduler's step make them, and a
waiting one gets the lock in the end (strong, because others take it in
between; the lock is held for two file writes). In `MemorySync` calls return,
the server comes back, sessions end and others begin, and each wrap syncs;
strong fairness of `StartSync` and `SyncSend` says that an outage does not
fall on every single attempt.

Bounds. `Items` and `MaxGates` limit identifiers and concurrently waiting
questions, `MaxRequests` and `MaxCrashes` what would be unbounded;
a report holds at most one entry per item and one repair; a request is planned
as one item. Two items suffice for one item's answers being taken by another,
for dependencies, and for a sign-off that misses an item; four for a split with
a dependent. One crash separates any two writes; the state after it is an
ordinary initial state of a visit. One failure per attempt budget reaches the
exhausted, triaged and revived cases in the fewest steps; the violation runs
use two. In `Scheduler`, two projects are what rotation needs and two runners
what a race needs; one of them makes one visit and may be started again, which
covers `--once` and a runner that comes back. One disturbance separates any two
steps; `Eventful` and `Steered` make one project the one that asks and wraps
and the other the one commands are about. `Spinning` names the projects whose
visits repeat their note; the notes of the others are taken to differ from
visit to visit. `Askers` keeps agents from asking in `build_progress`: their
unconsumed answers pile up without bound (see below).

In the other modules: a budget of three turns and a stall window of four let
an attempt stall, be extended to its hard cap of six, and be compacted more
than once (`KeepTail` 1, `FewTurns` 2). Three rounds of a call are what two
cuts and a third round without thinking take. Two files, three changes and one
stop put a change or a stop between any two steps of a refresh. Two questions
and two terminals, four lines and one torn one reach every order of asking,
settling and dying. Three questions against a budget of two overdraw it; three
rounds of planning and two kills are the code's three rounds and a kill in a
visit that repairs another. Two seats, two attempts and two contents are what
a replayed verdict needs to be about something else; one kill, and one
disturbance - a commit that fails or an edit by hand - as everything before it
repeats. Two sessions, items and observers race; one outage and one kill fall
anywhere. The packer's lengths and rooms make sections that fit, shrink, go,
and must be clamped.

No constant takes a case of the code away. Where a property holds but for
named cases (`offline`, `robbed`, `contested`, `disturbed`, torn characters,
endless retries, stamps put back), the cases are in the run, and the list below
says what happens in them.

### Where the code does not do what it says

Six runs expect a violation, each of one statement of the repository.

| run | what is said | what happens |
|---|---|---|
| `answered_item` | answering unparks the work (`gates.py` 6-7, `src/docs/TROUBLESHOOTING.md` 37-38) | the asking item is `blocked` (`phases.py` 1328), and nothing makes it `todo` again |
| `guidance_lost` | guidance revives failed items (`phases.py` 537-540) | an answer that comes after the absorption is consumed by another item's brief (865, 883-884) |
| `signoff_stale` | only the user closes a mission without an item (`phases.py` 1627) | an old answer confirms items dropped since (1532-1537) |
| `split_cycle` | the plan is a DAG (`plan.py` 1-7) | chaining a split's parts over their drafted dependencies closes a cycle, saved unvalidated (684, 734) |
| `pause_forgotten` | a paused project is skipped until resumed, an abandoned one never scheduled (`cli.py` 236, 257) | the runner's next write of `project.json` puts the state it had read, or its own, over the user's (`scheduler.py` 99-102, `project.py` 154-167) |
| `rejected_merged` | sign-off requires every panelist to approve (`phases.py` 1179) | the checkpoint of the next attempt commits the rejected tree (1317-1319); an attempt that changes nothing then shows no difference and is integrated as already satisfied (1415-1424) |

Seen while modelling and not given a run.

Phases and scheduling:
- A visit in flight writes `done` or `blocked_on_user` over the `active` of a
  request queued meanwhile, which `cli.py` 206-209 says the next run picks up;
  it waits until something else makes the project runnable.
- The loop guard compares a step with the step before (`scheduler.py` 127,
  144), so two projects that each change nothing and take turns are never
  parked by it.
- `src/ARCHITECTURE.md` 52-53 says an interrupted attempt is closed as `error`
  and counts, while `cleanup_dangling_attempts` removes it.
- `triage_rounds` does not bound triage entered from the turn ceiling
  (`phases.py` 1333-1344), and a retry empties the attempts (659-660): an item
  can hit the ceiling and be sent back for ever while ready items wait
  (`RetriesAtCeiling`), and with an `ask_user` verdict go round ceiling,
  question, guidance.
- A request that waits when the design is written is routed first
  (`orchestrator/supervisor.py` 21-22) and saves a plan of its own
  (`phases.py` 503); the plan then has items, so `phase_plan` never runs and
  the design is not built. `supervisor.py` 19-20 says that the definition
  phases must exist first.
- A write of `project.json` from an older read puts back a `last_active`
  stamped meanwhile (`project.py` 141-166); done again and again it starves a
  project of its priority, although `scheduler.py` says that the one that has
  waited longest is next.
- A parked project with an unconsumed answer is runnable, so `orc run` spins
  on it.
- Answering one of two charter questions unparks the project; with the budget
  spent, the revised charter is ready to build while the other question is
  open, and its late answer revises the charter only, not design or plan.

Agents and models:
- A command that is run again with another output each time is new ground, and
  still the third in a row ends the attempt as repetition; `agents/runtime.py`
  207-212 calls an agent producing that re-runs a command with another output,
  and says that one that keeps producing earns extension.
- An agent that only calls tools that do not exist is never stalled or
  repeating and uses all of the doubled budget; the same comment says that one
  that stalls is cut.
- Compaction loses turns: `summarize` cuts the middle out of what it is given
  (`context/summarizer.py` 80), and keeps 1800 characters of it when the model
  fails or says nothing (90). Whole turns between the first and the last may be
  gone (`Foldings`).
- A server that cannot be reached is retried when streaming only; a retried
  stream shows its first pieces again.
- Embeddings retry transport errors only, chats 5xx and 429 as well.
- `budget.py` 26 says priority 1 is never sacrificed first, yet the clamp may
  drop such a section whole (`src/tests/test_llm_layer.py` 286-289 passes with
  an empty prompt); answers in a section that was dropped are consumed all the
  same (`orchestrator/briefs.py` 55).
- What `_finalize` salvages of an attempt covers the turns since the last
  compaction.
- `agents/toolbox/shell.py` 145-150 and 181 say, of detached children too,
  that killing the group guarantees the end of the pipes; a child that left the
  group keeps them open, and the readers are joined without a limit (`Stray`).

Files and stores:
- A record that is appended behind a torn line becomes part of it, and the
  answer in it is confirmed to the user all the same (`gates.py` 88-92,
  `cli.py` 416-418, `interactive.py` 150-152): the question is open again.
- Of two answers confirmed at the same moment one is not the word that counts.
- A line torn inside a character of several bytes (`fsio.py` 72 writes them as
  they are) makes the whole log unreadable: `iter_jsonl` skips lines that do
  not parse, not text that does not decode, although its comment (89) calls a
  torn line skippable noise. In `reviews.jsonl` every later review of any item
  with a base then raises (`phases.py` 1058).
- A job that is stopped after it deleted chunks - killed, or because the
  embeddings fail - leaves a document store that still lists them. A file that
  by the next refresh is what it was then is never indexed again until a
  rebuild (`robbed`); between the two deletions of a rebuild
  (`context/indexer.py` 214-217) that is every file. A rebuild deletes before
  it knows that embeddings answer.
- A document store that does not load leaves the chunks of files removed
  meanwhile; `indexer.py` 178 says it just means a full re-embed. The `search`
  tool serves text stored in the index, which `context/retriever.py` 83-94
  calls a phantom version.
- Observers whose answer is older than the record log transitions that never
  happened, and take them back later.
- A session that finds no memory server at its start queues nothing for it, so
  no sync ever sends what it saves (`memory/store.py` 67-75, 153-159).
  `store.py` 5-6, `src/ARCHITECTURE.md` 170-172 and
  `src/docs/TROUBLESHOOTING.md` 75-82 say that writes queue in an outbox while
  the server is down. `MirrorGaps` states both halves.

## What is proved

Every theorem holds for every value of the constants: any finite set of items,
any number of runners, projects, seats, questions, observers, sessions, turns,
helpers, crashes and kills, under the named assumptions of the modules
(`WorkPlanAssumption`, `BuildPhaseAssumption`, `InitialPlansAssumption`,
`SchedulerConstants`, `DefinitionConstants`, `ReviewConstants`,
`MemoryConstants`, `TimelineConstants`, `LoopConstants`, `CallConstants`,
`IndexConstants`, `BookConstants`, `ShellConstants`, `PackerConstants`):
bounds are natural numbers, sets that are counted are finite, drafts and
repairs are well formed, a first plan is one the plan phase can save (nothing
begun, a valid graph), and the markers of the model ("nobody", the empty text)
are none of the values they stand beside. TLC evaluates each of them in the
runs. Where a theorem needs more, its statement says so as a hypothesis.

The argument is the same throughout. The property is seldom inductive; a
stronger invariant is, and was checked by TLC on the instance of a run before
it was proved. One lemma per action (or per shape of action) shows that it is
kept.

### Build and plan (`WorkPlan_proofs`, `BuildPhase_proofs`, `BuildWork_proofs`)

* `TypeCorrect`: `[](TypeOK /\ WorkHasItem)`. `TypeOK` alone is not inductive:
  an attempt that ends changes `mem[item]`, so a visit past the choice of an
  item must have one. The operators of `WorkPlan` take plans to plans
  (`SplitType` is the one with an argument).
* `QuestionsCorrect`, `ParkedCorrect`: `[]ParkedHasQuestion`. The question is
  opened several writes before the state is set, so the invariant `IInv`
  follows it: what an agent asks is never in its own brief (`BriefIsKept`), so
  that consuming the brief leaves the question (`QuestionWaits`) up to the
  write that parks. All other steps fall under one lemma, `CalmStep`.
* `WorkCorrect`: `[]WorkInv`, and from it `OneAtATime` (`OneInFlight`),
  `BudgetKept` (`AttemptBudget`), `DepsRespected` (`WorkRespectsDeps`),
  `ClosedSettled` (`ClosedIsSettled`) and `FinishedForGood` (`DoneIsFinal`).
  A visit writes the plan it has in memory over the one on disk, so neither
  copy can be reasoned about alone. `WorkInv` says of both that they are
  `Sound` (one item under way, within its budget, after its dependencies, all
  of which are in the plan); at which places of the visit the two may differ
  (`MemoryIsPlan`), and that what is done on disk is done in memory
  (`DoneIsKept`); and what the place of the visit says of its item
  (`ItemAtWork`) and of what is under way (`WorkUnderWay`) - a split or a
  rewiring is safe because nothing is under way when triage reports.
  The lemmas on `Split`, `Rewired`, `Revived` and the others say when each
  keeps a plan `Sound`.
* `QuestionsKept` (`QuestionsPersist`) and `AnswersAreRead`
  (`ConsumedWasRead`), action properties, from the same invariant and `IInv`.
* `CyclesComeFromSplits` (`OnlySplitsTangle`), for any drafts. A cycle is what
  the loop of `validate_graph` finds, round by round, and nothing can be said
  of it along the steps of a visit. So `KnotInv`, which every other step keeps
  (`StepKnots`), says it without rounds, of the plan on disk and the copy in
  memory: neither has a knot, a non-empty set of items of which each waits for
  one of the set (`NoKnot`). `AcyclicNoKnot` and `NoKnotAcyclic` show the two
  to be the same, by the first round at which an item of the knot is free, and
  by the rounds that must end before the items do; `DequeuedRounds` unfolds
  the recursive function and `IterationExists` shows that there is one. A
  write that adds no wait between items of the plan ties no knot
  (`NoNewKnot`); a split replaces an item by parts of which a knot would be a
  knot through the item before (`SplitNoKnot`). One split is left out: with a
  part drafted to follow a later one (`Tangles`), which the code does not
  check, and which `split_cycle` shows to make a cycle.
* `SplitsKeepOrder` (`SplitKeepsOrder`): every part
  comes before what waited for the item, because the dependents are rewired to
  the last part and that waits for all others (`SplitOrder`, along the rounds
  of `Before` that `BeforeRounds` unfolds). It needs `GraphCorrect`
  (`[]GraphInv`): no item waits for itself, and the copy in memory lacks no
  item of the plan on disk.

### Definition (`Definition_proofs`)

`DefinitionCorrect`: `[]DefInv`, and from it `DefTypesKept`,
`QuestionsWithinBudget` (`QuestionBudget`) and `AnswersAreHeard`
(`AnswersReachCharter`), requests and their extensions of the plan among the
steps. The budget holds because what is still to be asked in
this visit is counted with what was asked before; the answers because a brief
that is being consumed was heard, that is, written into the charter.

### Scheduler (`Scheduler_proofs`)

`LeaseCorrect` (`LeaseKept`), and from it `VisitsAreSerial` (`OneVisit`) and
`LeaseIsKept` (`LeaseInv`): that the lock is free says that nobody visits only
if every visitor holds it. `SchedulerCorrect` and `TypesKept` (`TypeOK`):
that a project's record is never something else needs that whoever holds a
copy of it to write back has updates left to write (`SchedulerInv`); that a
stamp stays one, that numbering them anew after a write counts fewer than there
are projects (`RedatedType`).

### Review (`ReviewPanel_proofs`)

`ReviewCorrect`: `[]ReviewInv`, and from it `ReviewTypesKept` and
`VerdictsMatchDiff` (`VerdictsAboutDiff`), torn and unreadable rows among the
steps: rows of the ledger name the base an
attempt started from, and that names one content only while nothing disturbed
the tree (`Current`), which is what lets a replayed verdict count.
`PanelImplementsSignOff`: `ReviewSpec => ImplementsSignOff`, the safety part
of the refinement, step by step: the initial state maps to an initial state of
`SignOff` and every step of the panel, its kills and torn rows too, to a step
of it or to a stutter.

### Agents (`Agents_proofs`)

* Tool loop: `LoopCorrect`: `[]LoopInv`, and from it `LoopTypesKept`,
  `ExtensionsAreEarned` (`ExtensionIsEarned`), `EndsAreKept`
  (`CompactionKeepsEnds`) and `DeadlinesAreHonest` (`DeadlineIsHonest`), for
  every budget and stall window. The properties decide from the log of all
  turns, the loop from counters that different turns skip or reset, so the
  invariant says of each what it means in the log: `seen` is the tools that
  ran (`SeenTells`), `lastProbe` the output of the last command (`ProbeTells`),
  `lastProductive` the last turn that broke new ground (`GroundTells`).
  `BreaksNow` turns new ground as the counters have it into new ground as the
  log has it, and `PrefixTells` says that later turns change nothing about
  earlier ones. `DeadlineHolds` needs that nobody was promised more than the
  deadline leaves (`Promised`), which only moves away. Whatever the summary
  loses, it keeps the first and the last turn folded (`EndsKept`,
  `FoldedTurns`), and that is enough to keep them through the next one.
* Model calls: `CallCorrect`, `CallTypesKept`, `WholeAnswers`
  (`AnswerIsWhole`): the invariant `CallInv` counts the replies that were cut
  and remembers that the longest is kept.
* Code index, whatever is changed, put back, killed or fails: `MapCorrect`
  (`MapInv`), `RefreshCorrect` (`RefreshInv`), and from both
  `LookupsStayCurrent` (`LookupsAreCurrent`). What makes the index right again
  after a stop is `Backed`: a file has the chunks the document store says,
  unless a job that deleted them was stopped; a rebuild starts from empty
  stores, so it ends with the chunks of what it read.
* Questions, whatever is torn: `BookCorrect` (`BookInv`), `TornCorrect`
  (`TornInv`), `BrokenCorrect`, and from these `AnswersSurvive`
  (`AnswerSurvives`), `KillsCostOne` (`OneLostPerKill`) and `BookTypesKept`.
  `BookInv` describes the log: only its last line can be without its end, a
  question has one opening record, before all others about it (`OpenedOnce`,
  `OpenedFirst`), what a terminal has read and not yet answered (`Windows`), so
  that a later word on a confirmed answer is a contest, and that an answer is
  on record unless a record about its question was swallowed (`Confirmed`).
  `TornInv` charges each swallowed record to a kill, `BrokenCorrect` each
  question whose own line lost its end.
* `AgentsTypesKept` (`AgentsTypeOK`): the four run side by side, each by its
  own specification (`EachOnItsOwn`), so what is proved of each holds of them
  together.

### Memory, timeline, and what a mission passes through (`Shared_proofs`)

`MemoryCorrect`, `MemoryTypesKept`, `MirrorLacksOnly` (`MirrorGaps`): an item
leaves the outbox only after it is on the server, which must be said of the
item in a session's hand (`InHand`) and not of the outbox, because syncs race;
and what a session without the server saved is in no store but the local one
and in nobody's hand (`OfflineApart`). `TimelineCorrect`, `TimelineTypesKept`,
`LogIsTheRecord` (`LogMatchesRecord`): under the lock the log is ahead of the
record by exactly what is not yet written (`Halfway`).

`MissionsCorrect`: `[]MissionsInv`, and from it `MissionsTypesKept`
(`MissionsTypeOK`): review, definition, memory, timeline, commands and packer
side by side keep what each keeps on its own. For the commands that is
`ShellInv`: as long as one is being run it is counted in those left, so a
report never counts below none. For the packer, `PackInv`: a cut section is
still a length and a cut. What is over decides what a section is cut to, so it
has to be a number: `TotalIsNumber` shows that the sum over the live sections
is one, for any lengths, by unfolding the fold one section after the other
(`OneMoreSums`).

Two theorems are the safe part of properties that are liveness. `StraysAlone`:
while a verification cannot collect its result, a process that left the group
holds a pipe, which is the exception `VerificationEnds` makes. `CutsSettle`:
three cuts to the same length make a text that a fourth does not change, which
is when the clamp drops it; the clamp has no other count of its rounds.

### Only model-checked

* All liveness and leads-to properties, and the fairness they need; ENABLED.
* That packing ends (`PackEnds`), of which only `CutsSettle` is proved.
* The properties that are false of the code, each on its own run.

## What is not modelled, and the plan

All modules of the plan are written, and every invariant and every action
property of a passing run is proved. What the plan still has is to prove what
lies under the properties that are only model-checked:

| to prove | module | why |
|---|---|---|
| what a round of the clamp leaves is smaller, fewer, or cut once more to the same length | `ContextPacker` | with `CutsSettle`, the measure behind `PackEnds` |
| a free lease goes to a runner that looks, and its visit gives it back | `Scheduler` | the step behind `TurnComes` |
| from every place of a visit a step leads on | `BuildPhase` | the safe part of `VisitsEnd` |

Left out for good: in `Scheduler` the write of a phase other than "done" over
another such phase; the texts of prompts, reports and journal lines; ranking
and splitting in the index; the file and search tools and the virtual
environment, beyond their outcomes; memory blocks and the curation of memory;
the conversation of the intake; dashboard, bug reports and self test, which
read state and print it; configuration files; the prototype under
`src/legacy`; hand edits of the plan during a visit (`phases.py` 1228), which
the documentation does not provide for; and a conversation that starts after
the session check of a step (`scheduler.py` 53), of which nothing is promised.
