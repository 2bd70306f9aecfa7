----------------------------- MODULE Scheduler -----------------------------
(***************************************************************************)
(* Many missions, several `orc run` processes, one GPU                     *)
(* (orchestrator/scheduler.py, sessions.py, the lease of fsio.py).         *)
(*                                                                         *)
(* A runner looks for conversations in other terminals, picks the runnable *)
(* project that has waited longest, waits for the lease, runs one visit,   *)
(* gives the lease back and stamps the project.  Every change of           *)
(* project.json, by a runner or by a command of the user, reads the whole  *)
(* record and later writes the whole record back (`Read`, `Save`): two     *)
(* steps that nothing protects, the lease least of all.  What a visit does *)
(* inside is in BuildPhase; here it is its effect on project.json, on the  *)
(* questions and on the note that the loop guard compares.                 *)
(***************************************************************************)
EXTENDS Naturals, FiniteSets, SequencesExt

CONSTANTS
  Projects,
  Runners,       \* processes running `orc run --watch`
  Anything,      \* the focus of a runner that takes any project
  Once,          \* the runners that make a single visit (--once)
  Focus,         \* [Runners -> Projects \cup {Anything}]
  Priority,      \* [Projects -> 1 .. 5], 1 is urgent
  Spinning,      \* projects whose visits only repeat themselves: nothing to do, the
                 \* same exception.  The notes of the others differ each time.
  Eventful,      \* bound: projects that ask or wrap; the others only work
  Nobody,        \* no holder, no target, no result
  User,          \* the one who gives commands, a writer of project.json too
  Steered,       \* bound: projects the user gives commands about
  MaxDisturbances \* bound: commands, conversations, runners killed or timed out

ASSUME SchedulerConstants ==
  /\ IsFiniteSet(Projects) /\ Projects # {}
  /\ Once \subseteq Runners
  /\ Focus \in [Runners -> Projects \cup {Anything}]
  /\ Priority \in [Projects -> 1 .. 5]
  /\ Spinning \subseteq Projects /\ Eventful \subseteq Projects \ Spinning
  /\ Anything \notin Projects
  /\ Nobody \notin Projects \cup Runners /\ User \notin Runners
  /\ MaxDisturbances \in Nat /\ Steered \subseteq Projects

VARIABLES
  meta,       \* project.json: state, whether the phase is "done", last_active
  asking,     \* projects with an open question
  answered,   \* projects with an answer no visit has consumed
  pending,    \* projects with a queued change request
  lease,      \* who holds the lock on gpu.lock
  session,    \* a conversation elsewhere: its file and its process
  pc,         \* where each runner stands
  target,     \* the project it has picked
  result,     \* the note its visit returned
  last,       \* the project whose standing note came back last, for the loop guard
  repeats,    \* how often it has come back since
  saves,      \* each writer's updates of project.json still to be made
  copy,       \* the record it has read and will write back
  disturbances

files   == <<meta, asking, answered, pending>>
machine == <<lease, session>>
runner  == <<pc, target, result, last, repeats>>
writing == <<saves, copy>>
bounds  == <<disturbances>>
vars    == <<files, machine, runner, writing, bounds>>

Writers == Runners \cup {User}

(* "paused" stands for "abandoned" too: nothing here tells them apart. *)
States  == {"active", "paused", "blocked_on_user", "done"}
Phases  == {"working", "done"}

(* last_active only tells which projects have waited longer, so a stamp is  *)
(* the number of the stamps on disk that are older: Now is newer than all.  *)
(* Two stamps that fall between the same others are taken for equal, and of *)
(* equal ones either may come first, so no order of the code is left out.   *)
Now     == Cardinality(Projects)
Metas   == [state : States, phase : Phases, last_active : 0 .. Now]

(* A note is news, or it is the one its project always gives. *)
Notes   == {"news", "same"}

(* One update of project.json: what set_phase, set_state and the stamp of   *)
(* a finished step do to the record.                                        *)
Updates == [project : Projects, field : {"state"}, value : States]
           \cup [project : Projects, field : {"phase"}, value : Phases]
           \cup [project : Projects, field : {"last_active"}, value : {Now}]
SetState(p, s) == [project |-> p, field |-> "state", value |-> s]
SetPhase(p, f) == [project |-> p, field |-> "phase", value |-> f]
Stamp(p)       == [project |-> p, field |-> "last_active", value |-> Now]

Pcs == {"look", "lease", "body", "request", "mark", "release",
        "judge", "gone"}
Visiting == {"body", "request", "mark", "release"}

TypeOK ==
  /\ meta \in [Projects -> Metas]
  /\ asking \subseteq Projects /\ answered \subseteq Projects /\ pending \subseteq Projects
  /\ lease \in Runners \cup {Nobody}
  /\ session \in {"none", "live", "dead"}
  /\ pc \in [Runners -> Pcs]
  /\ target \in [Runners -> Projects \cup {Nobody}]
  /\ result \in [Runners -> Notes]
  /\ last \in [Runners -> Projects \cup {Nobody}]
  /\ repeats \in [Runners -> 0 .. 2]
  /\ saves \in [Writers -> Seq(Updates)]
  /\ copy \in [Writers -> Metas \cup {Nobody}]
  /\ disturbances \in Nat

Disturbance ==
  disturbances < MaxDisturbances /\ disturbances' = disturbances + 1

-----------------------------------------------------------------------------
(* Projects *)

Runnable(p) ==
  \/ meta[p].state = "active"
  \/ meta[p].state = "blocked_on_user" /\ p \in answered

Pool(r) == {p \in Projects : Runnable(p) /\ Focus[r] \in {p, Anything}}

(* A slip: only urgency counts. *)
BeforeByUrgency(p, q) == Priority[p] <= Priority[q]

(* p is taken before q: more urgent, or as urgent and waiting longer.       *)
(* Stamps count seconds, and the names decide between two that are the      *)
(* same: here either may come first.                                        *)
Before(p, q) ==
  \/ Priority[p] < Priority[q]
  \/ Priority[p] = Priority[q] /\ meta[p].last_active <= meta[q].last_active

Woken(r) == {p \in Pool(r) : meta[p].state = "blocked_on_user"}

-----------------------------------------------------------------------------
(* Reading and writing project.json *)

Queue(w, updates) == saves' = [saves EXCEPT ![w] = updates]
Settled(w) == saves[w] = <<>>
Goto(r, where) == pc' = [pc EXCEPT ![r] = where]

Updated(record, u) ==
  CASE u.field = "state" -> [record EXCEPT !.state = u.value]
    [] u.field = "phase" -> [record EXCEPT !.phase = u.value]
    [] u.field = "last_active" -> [record EXCEPT !.last_active = u.value]

(* The stamps are numbered afresh. *)
Redated(record, disk) ==
  LET older == {p \in Projects : disk[p].last_active < record.last_active}
  IN  [record EXCEPT !.last_active = Cardinality({disk[p].last_active : p \in older})]

(* A phase the record already has is not written again.  A state is: the    *)
(* reason stored beside it is nearly always another one.                    *)
Skip(w) ==
  /\ saves[w] # <<>> /\ copy[w] = Nobody
  /\ LET u == Head(saves[w]) IN u.field = "phase" /\ meta[u.project].phase = u.value
  /\ Queue(w, Tail(saves[w]))
  /\ UNCHANGED <<files, copy, machine, runner, bounds>>

(* The record is read and changed in memory; *)
Read(w) ==
  /\ saves[w] # <<>> /\ copy[w] = Nobody
  /\ LET u == Head(saves[w])
     IN  /\ u.field = "phase" => meta[u.project].phase # u.value
         /\ copy' = [copy EXCEPT ![w] = Updated(meta[u.project], u)]
  /\ UNCHANGED <<files, saves, machine, runner, bounds>>

(* and written back whole over whatever is there now, its stamp included.   *)
Save(w) ==
  /\ copy[w] # Nobody
  /\ LET disk == [meta EXCEPT ![Head(saves[w]).project] = copy[w]]
     IN  /\ meta' = [p \in Projects |-> Redated(disk[p], disk)]
         /\ copy' = [v \in Writers |-> IF v = w \/ copy[v] = Nobody THEN Nobody
                                       ELSE Redated(copy[v], disk)]
  /\ Queue(w, Tail(saves[w]))
  /\ UNCHANGED <<asking, answered, pending, machine, runner, bounds>>

-----------------------------------------------------------------------------
(* A runner *)

(* One pass over the files.  A conversation in another terminal keeps the   *)
(* GPU: the runner looks again later; the file of one whose process is gone *)
(* is removed.  Every project of the pool that an answer has freed is made  *)
(* active and the first in line is taken.  None of this is looked at again  *)
(* once the lease is there.                                                 *)
Choose(r) ==
  /\ pc[r] = "look" /\ Settled(r)
  /\ session # "live" /\ session' = "none"
  /\ \E p \in Pool(r) :
       /\ \A q \in Pool(r) : Before(p, q)
       /\ target' = [target EXCEPT ![r] = p]
  /\ Queue(r, SetToSeq({SetState(p, "active") : p \in Woken(r)}))
  /\ Goto(r, "lease")
  /\ UNCHANGED <<files, lease, result, last, repeats, copy, bounds>>

(* With the lease a queued request comes before "done", which comes before  *)
(* the rest; entering a phase records it.                                   *)
Route(r) ==
  LET p == target[r]
      finished == p \notin pending /\ meta[p].phase = "done"
  IN  /\ result' = [result EXCEPT ![r] = IF finished THEN "same" ELSE @]
      /\ Goto(r, IF finished THEN "release" ELSE IF p \in pending THEN "request" ELSE "body")
      /\ Queue(r, IF finished THEN <<>> ELSE <<SetPhase(p, "working")>>)

(* A slip: the lock is not asked for. *)
TakeLeaseUnasked(r) ==
  /\ pc[r] = "lease" /\ Settled(r)
  /\ lease' = r
  /\ Route(r)
  /\ UNCHANGED <<files, session, target, last, repeats, copy, bounds>>

TakeLease(r) ==
  /\ pc[r] = "lease" /\ Settled(r) /\ lease = Nobody
  /\ lease' = r
  /\ Route(r)
  /\ UNCHANGED <<files, session, target, last, repeats, copy, bounds>>

(* A process that ends takes along what it had picked and compared. *)
Lose(r) == /\ target' = [target EXCEPT ![r] = Nobody]
           /\ result' = [result EXCEPT ![r] = "news"]
           /\ last' = [last EXCEPT ![r] = Nobody]
           /\ repeats' = [repeats EXCEPT ![r] = 0]

(* Waiting ends with an exception that nothing catches. *)
LeaseTimeout(r) ==
  /\ pc[r] = "lease" /\ Settled(r) /\ lease # Nobody
  /\ Disturbance
  /\ Goto(r, "gone") /\ Lose(r)
  /\ UNCHANGED <<files, machine, writing>>

Standing(r) == IF target[r] \in Spinning THEN "same" ELSE "news"

(* Work is done, and answers that waited may be consumed. *)
Works(r) ==
  /\ pc[r] = "body" /\ Settled(r)
  /\ \E used \in SUBSET ({target[r]} \cap answered) : answered' = answered \ used
  /\ result' = [result EXCEPT ![r] = Standing(r)]
  /\ Goto(r, "release")
  /\ UNCHANGED <<meta, asking, pending, machine, target, last, repeats, writing, bounds>>

(* A question is opened, then the project is parked. *)
Asks(r) ==
  /\ pc[r] = "body" /\ Settled(r) /\ target[r] \in Eventful
  /\ asking' = asking \cup {target[r]}
  /\ Queue(r, <<SetState(target[r], "blocked_on_user")>>)
  /\ result' = [result EXCEPT ![r] = "news"]
  /\ Goto(r, "release")
  /\ UNCHANGED <<meta, answered, pending, machine, target, last, repeats, copy, bounds>>

Wraps(r) ==
  /\ pc[r] = "body" /\ Settled(r) /\ target[r] \in Eventful
  /\ Queue(r, <<SetPhase(target[r], "done"), SetState(target[r], "done")>>)
  /\ result' = [result EXCEPT ![r] = "news"]
  /\ Goto(r, "release")
  /\ UNCHANGED <<files, machine, target, last, repeats, copy, bounds>>

(* The request is planned, which reactivates the project, or turned down,   *)
(* and only then marked done.                                               *)
PlansRequest(r) ==
  /\ pc[r] = "request" /\ Settled(r)
  /\ \E planned \in BOOLEAN :
       Queue(r, IF planned THEN <<SetState(target[r], "active")>> ELSE <<>>)
  /\ result' = [result EXCEPT ![r] = "news"]
  /\ Goto(r, "mark")
  /\ UNCHANGED <<files, machine, target, last, repeats, copy, bounds>>

MarksRequest(r) ==
  /\ pc[r] = "mark" /\ Settled(r)
  /\ pending' = pending \ {target[r]}
  /\ Goto(r, "release")
  /\ UNCHANGED <<meta, asking, answered, machine, target, result, last, repeats,
                 writing, bounds>>

(* Any step of a visit may raise: what it had still to write is not written. *)
Raises(r) ==
  /\ pc[r] \in {"body", "request", "mark"}
  /\ Queue(r, <<>>) /\ copy' = [copy EXCEPT ![r] = Nobody]
  /\ result' = [result EXCEPT ![r] = Standing(r)]
  /\ Goto(r, "release")
  /\ UNCHANGED <<files, machine, target, last, repeats, bounds>>

(* The stamp is made after the lease is given back. *)
Release(r) ==
  /\ pc[r] = "release" /\ Settled(r)
  /\ lease' = Nobody
  /\ Queue(r, <<Stamp(target[r])>>)
  /\ Goto(r, "judge")
  /\ UNCHANGED <<files, session, target, result, last, repeats, copy, bounds>>

Repeated(r) == result[r] = "same" /\ last[r] = target[r]

(* What the next step overwrites before it reads it. *)
Forget(r) == /\ target' = [target EXCEPT ![r] = Nobody]
             /\ result' = [result EXCEPT ![r] = "news"]

(* The same result for the fourth time: the project is parked, behind a     *)
(* question if none is open.                                                *)
LoopGuard(r) ==
  /\ pc[r] = "judge" /\ Settled(r) /\ Repeated(r) /\ repeats[r] = 2
  /\ asking' = asking \cup {target[r]}
  /\ Queue(r, <<SetState(target[r], "blocked_on_user")>>)
  /\ last' = [last EXCEPT ![r] = Nobody] /\ repeats' = [repeats EXCEPT ![r] = 0]
  /\ Goto(r, "look") /\ Forget(r)
  /\ UNCHANGED <<meta, answered, pending, machine, copy, bounds>>

(* A slip: the threshold is not looked at. *)
JudgeUncapped(r) ==
  /\ pc[r] = "judge" /\ Settled(r)
  /\ repeats' = [repeats EXCEPT ![r] = IF Repeated(r) THEN @ + 1 ELSE 0]
  /\ last' = [last EXCEPT ![r] = IF result[r] = "same" THEN target[r] ELSE Nobody]
  /\ Goto(r, "look") /\ Forget(r)
  /\ UNCHANGED <<files, machine, writing, bounds>>

(* Otherwise the result is remembered.  A runner with its visit behind it,  *)
(* or of one project that can no longer run, stops.                         *)
Judge(r) ==
  /\ pc[r] = "judge" /\ Settled(r) /\ ~(Repeated(r) /\ repeats[r] = 2)
  /\ IF r \in Once \/ (Focus[r] # Anything /\ Pool(r) = {})
       THEN Goto(r, "gone") /\ Lose(r)
       ELSE /\ repeats' = [repeats EXCEPT ![r] = IF Repeated(r) THEN @ + 1 ELSE 0]
            /\ last' = [last EXCEPT ![r] = IF result[r] = "same" THEN target[r] ELSE Nobody]
            /\ Goto(r, "look") /\ Forget(r)
  /\ UNCHANGED <<files, machine, writing, bounds>>

(* A slip: the lock outlives its process. *)
KillKeepsLease(r) ==
  /\ pc[r] # "gone" /\ Disturbance
  /\ Queue(r, <<>>) /\ copy' = [copy EXCEPT ![r] = Nobody]
  /\ Goto(r, "gone") /\ Lose(r)
  /\ UNCHANGED <<files, machine>>

(* The process is killed; the lock goes with it. *)
Kill(r) ==
  /\ pc[r] # "gone" /\ Disturbance
  /\ lease' = IF lease = r THEN Nobody ELSE lease
  /\ Queue(r, <<>>) /\ copy' = [copy EXCEPT ![r] = Nobody]
  /\ Goto(r, "gone") /\ Lose(r)
  /\ UNCHANGED <<files, session>>

Start(r) ==
  /\ pc[r] = "gone"
  /\ Goto(r, "look") /\ Lose(r)
  /\ UNCHANGED <<files, machine, writing, bounds>>

-----------------------------------------------------------------------------
(* The user *)

Answer(p) ==
  /\ p \in asking
  /\ asking' = asking \ {p} /\ answered' = answered \cup {p}
  /\ UNCHANGED <<meta, pending, machine, runner, writing, bounds>>

Command(updates) ==
  /\ Settled(User) /\ Disturbance
  /\ Queue(User, updates)
  /\ UNCHANGED <<meta, asking, answered, machine, runner, copy>>

(* orc pause and orc abandon *)
Pause(p) ==
  Command(<<SetState(p, "paused")>>) /\ UNCHANGED pending

(* A finished mission is reopened before it is made active. *)
Resume(p) ==
  Command(<<SetPhase(p, "working"), SetState(p, "active")>>) /\ UNCHANGED pending

Request(p) ==
  /\ p \notin pending /\ pending' = pending \cup {p}
  /\ Command(<<SetState(p, "active")>>)

(* A conversation begins without a look at the lease, ends, or is killed    *)
(* and leaves its file behind.                                              *)
Converse ==
  /\ session # "live" /\ session' = "live"
  /\ Disturbance
  /\ UNCHANGED <<files, lease, runner, writing>>

HangUp ==
  /\ session = "live" /\ session' \in {"none", "dead"}
  /\ UNCHANGED <<files, lease, runner, writing, bounds>>

-----------------------------------------------------------------------------
Init ==
  /\ meta = [p \in Projects |-> [state |-> "active", phase |-> "working", last_active |-> 0]]
  /\ asking = {} /\ answered = {} /\ pending = {}
  /\ lease = Nobody /\ session = "none"
  /\ pc = [r \in Runners |-> "look"]
  /\ target = [r \in Runners |-> Nobody]
  /\ result = [r \in Runners |-> "news"]
  /\ last = [r \in Runners |-> Nobody] /\ repeats = [r \in Runners |-> 0]
  /\ saves = [w \in Writers |-> <<>>] /\ copy = [w \in Writers |-> Nobody]
  /\ disturbances = 0

(* What a runner does by itself. *)
Looks(r)  == Choose(r) \/ TakeLease(r)
Visits(r) == Works(r) \/ Asks(r) \/ Wraps(r) \/ PlansRequest(r) \/ MarksRequest(r)
Judges(r) == Release(r) \/ LoopGuard(r) \/ Judge(r)
Runs(r)   == Looks(r) \/ Visits(r) \/ Judges(r)
Ends(r)   == Raises(r) \/ LeaseTimeout(r) \/ Kill(r) \/ Start(r)
Writes(w) == Skip(w) \/ Read(w) \/ Save(w)

Commands ==
  \/ \E p \in Projects : Answer(p)
  \/ \E p \in Steered : Pause(p) \/ Resume(p) \/ Request(p)
  \/ Converse \/ HangUp

Next ==
  \/ \E r \in Runners : Runs(r) \/ Ends(r)
  \/ \E w \in Writers : Writes(w)
  \/ Commands

Spec == Init /\ [][Next]_vars

(* A runner goes on with what it is doing.  The lock is polled, twice a     *)
(* second and without a queue, so a runner may miss it whenever it is free: *)
(* weak fairness is all there is.                                           *)
FairSpec ==
  /\ Spec
  /\ \A r \in Runners : WF_vars(Runs(r) \/ Writes(r))
  /\ WF_vars(Writes(User))

-----------------------------------------------------------------------------
(* Properties *)

(* Only one visit at a time runs on the machine, whatever processes come,   *)
(* go or are killed.  (scheduler.py: "the lease serializes actual model     *)
(* work".)                                                                  *)
OneVisit ==
  \A r, s \in Runners : pc[r] \in Visiting /\ pc[s] \in Visiting => r = s

(* The lease is held exactly by the runner inside a visit: a runner that    *)
(* was killed or whose visit raised has given it back.                      *)
LeaseInv ==
  \A r \in Runners : lease = r <=> pc[r] \in Visiting

Settle(p) ==
  \/ ~Runnable(p)
  \/ session = "live"
  \/ \E r \in Runners : pc[r] \in Visiting /\ target[r] = p
  \/ \A r \in Runners : Focus[r] = Anything /\ r \notin Once => pc[r] = "gone"

(* A project that no other is more urgent than gets its turn, again and     *)
(* again, while it can run and a runner of all projects watches: the stamps *)
(* rotate the others behind it, and a runner that loses every race for the  *)
(* lock leaves the visits to another.  (scheduler.py: "picks the runnable   *)
(* project that has waited longest (within priority class)".)               *)
(* Only a stamp that is lost can starve it, and for that another writer has *)
(* to put back an older one again and again: project.py:141-166 writes the  *)
(* whole record that was read, and the stamp is made without the lease.     *)
PutsBack(w) ==
  /\ copy[w] # Nobody
  /\ LET u == Head(saves[w])
     IN  /\ u.field # "last_active"
         /\ copy[w].last_active < meta[u.project].last_active
  /\ Save(w)
TurnComes ==
  \/ \A p \in Projects :
       (\A q \in Projects : Priority[p] <= Priority[q]) => []<>Settle(p)
  \/ []<><<\E w \in Writers : PutsBack(w)>>_vars

(* `orc pause`: "the scheduler will skip it until resumed"; `orc abandon`:  *)
(* "never scheduled".  Only the user takes a project out of these states.   *)
PauseHolds ==
  [][\A p \in Projects :
       meta[p].state = "paused" /\ meta'[p].state # "paused"
         => saves[User] # saves'[User]]_vars

=============================================================================
