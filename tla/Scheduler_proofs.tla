-------------------------- MODULE Scheduler_proofs --------------------------
(***************************************************************************)
(* The lease, and the types of everything the runners and the user keep,   *)
(* for any number of runners, projects, commands and deaths.               *)
(***************************************************************************)
EXTENDS Scheduler, FiniteSetTheorems, SequenceTheorems, TLAPS

(* What a step keeps: the lease is held by the one runner that visits.      *)
LeaseKept ==
  /\ pc \in [Runners -> Pcs]
  /\ lease \in Runners \cup {Nobody}
  /\ LeaseInv

(* A runner that moves on without touching the lease stays on its side of   *)
(* the visit.                                                               *)
LEMMA SameSide ==
  ASSUME LeaseKept, NEW r \in Runners, NEW where \in Pcs,
         Goto(r, where), lease' = lease,
         pc[r] \in Visiting <=> where \in Visiting
  PROVE  LeaseKept'
BY DEF LeaseKept, LeaseInv, Goto

(* A runner that leaves a visit, or was in none, and holds nothing after.   *)
LEMMA GivenBack ==
  ASSUME LeaseKept, NEW r \in Runners, NEW where \in Pcs \ Visiting,
         Goto(r, where), lease' = IF lease = r THEN Nobody ELSE lease
  PROVE  LeaseKept'
BY SchedulerConstants DEF LeaseKept, LeaseInv, Goto

(* The lock is free when it is taken, so nobody is in a visit: this is the  *)
(* guard that keeps two visits apart.                                       *)
LEMMA Taken ==
  ASSUME LeaseKept, NEW r \in Runners, TakeLease(r)
  PROVE  LeaseKept'
<1>1. PICK where \in {"release", "request", "body"} : Goto(r, where)
  BY DEF TakeLease, Route
<1>2. lease = Nobody /\ lease' = r
  BY DEF TakeLease
<1>3. \A s \in Runners : pc[s] \notin Visiting
  BY <1>2, SchedulerConstants DEF LeaseKept, LeaseInv
<1> QED
  BY <1>1, <1>2, <1>3 DEF LeaseKept, LeaseInv, Goto, Pcs, Visiting

(* The steps of a runner that do not take the lock. *)
LEMMA RunsKeepLease ==
  ASSUME LeaseKept, NEW r \in Runners, Runs(r) \/ Ends(r), ~TakeLease(r)
  PROVE  LeaseKept'
<1>1. CASE Choose(r)
  BY <1>1, SameSide DEF Choose, Pcs, Visiting
<1>2. CASE Works(r) \/ Asks(r) \/ Wraps(r)
  BY <1>2, SameSide DEF Works, Asks, Wraps, machine, Pcs, Visiting
<1>3. CASE PlansRequest(r) \/ MarksRequest(r) \/ Raises(r)
  BY <1>3, SameSide DEF PlansRequest, MarksRequest, Raises, machine, Pcs, Visiting
<1>4. CASE LoopGuard(r) \/ Judge(r)
  BY <1>4, SameSide DEF LoopGuard, Judge, machine, Pcs, Visiting
<1>5. CASE Start(r) \/ LeaseTimeout(r)
  BY <1>5, SameSide DEF Start, LeaseTimeout, machine, Pcs, Visiting
<1>6. CASE Release(r)
  <2>1. lease = r
    BY <1>6 DEF Release, LeaseKept, LeaseInv, Visiting
  <2> QED
    BY <1>6, <2>1, GivenBack DEF Release, Pcs, Visiting
<1>7. CASE Kill(r)
  BY <1>7, GivenBack DEF Kill, Pcs, Visiting
<1> QED
  BY <1>1, <1>2, <1>3, <1>4, <1>5, <1>6, <1>7 DEF Runs, Looks, Visits, Judges, Ends

(* Whatever runners start, wait, raise, are killed or time out: the lease   *)
(* belongs to the runner inside a visit and to no one else.                 *)
THEOREM LeaseCorrect == Spec => []LeaseKept
<1>1. Init => LeaseKept
  BY SchedulerConstants DEF Init, LeaseKept, LeaseInv, Pcs, Visiting
<1>2. LeaseKept /\ [Next]_vars => LeaseKept'
  <2> SUFFICES ASSUME LeaseKept, [Next]_vars PROVE LeaseKept'
    OBVIOUS
  <2>1. CASE \E r \in Runners : Runs(r) \/ Ends(r)
    BY <2>1, RunsKeepLease, Taken
  <2>2. CASE \E w \in Writers : Writes(w)
    BY <2>2 DEF Writes, Skip, Read, Save, machine, runner, LeaseKept, LeaseInv
  <2>3. CASE Commands
    BY <2>3
    DEF Commands, Answer, Pause, Resume, Request, Command, Converse, HangUp,
        machine, runner, LeaseKept, LeaseInv
  <2>4. CASE UNCHANGED vars
    BY <2>4 DEF vars, machine, runner, LeaseKept, LeaseInv
  <2> QED
    BY <2>1, <2>2, <2>3, <2>4 DEF Next
<1> QED
  BY <1>1, <1>2, PTL DEF Spec

(* Never two visits at once: both would hold the one lease. *)
THEOREM VisitsAreSerial == Spec => []OneVisit
<1>1. LeaseKept => OneVisit
  BY DEF LeaseKept, LeaseInv, OneVisit
<1> QED
  BY <1>1, LeaseCorrect, PTL

(* The step lease is held by exactly the runner that is inside a visit, so  *)
(* a runner that is killed or gives up leaves it free (scheduler.py:78-96). *)
THEOREM LeaseIsKept == Spec => []LeaseInv
<1>1. LeaseKept => LeaseInv
  BY DEF LeaseKept
<1> QED
  BY <1>1, LeaseCorrect, PTL

-----------------------------------------------------------------------------
(* Types                                                                    *)

(* What makes the types inductive: a runner past its choice has a target,   *)
(* and a record is held only by a writer that still has an update for it.   *)
Choosing == {"look", "gone"}

SchedulerInv ==
  /\ TypeOK
  /\ \A r \in Runners : pc[r] \notin Choosing => target[r] \in Projects
  /\ \A w \in Writers : copy[w] # Nobody => saves[w] # <<>>

(* A finite set written as a sequence is a sequence over it. *)
LEMMA SetToSeqType ==
  ASSUME NEW S, IsFiniteSet(S)
  PROVE  SetToSeq(S) \in Seq(S)
<1>1. Cardinality(S) \in Nat /\ \E f \in [1..Cardinality(S) -> S] : IsInjective(f)
  BY FS_CardinalityType DEF ExistsBijection, Bijection, Injection, IsInjective
<1>2. SetToSeq(S) \in [1..Cardinality(S) -> S] /\ IsInjective(SetToSeq(S))
  BY <1>1 DEF SetToSeq
<1>3. SetToSeq(S) \in Seq(S)
  BY <1>1, <1>2
<1> QED
  BY <1>3

(* The updates of the projects that answers have freed are a sequence. *)
LEMMA WokenUpdates ==
  ASSUME SchedulerInv, NEW r \in Runners
  PROVE  SetToSeq({SetState(p, "active") : p \in Woken(r)}) \in Seq(Updates)
<1> DEFINE W == Woken(r)
           U == {SetState(p, "active") : p \in W}
           f == [p \in W |-> SetState(p, "active")]
<1>1. W \subseteq Projects /\ IsFiniteSet(W)
  <2>1. W \subseteq Projects
    BY DEF Woken, Pool
  <2> QED
    BY <2>1, FS_Subset, SchedulerConstants
<1>2. U \subseteq Updates
  BY <1>1 DEF SetState, Updates, States
<1>3. f \in Surjection(W, U)
  BY DEF Surjection
<1>4. IsFiniteSet(U)
  <2> HIDE DEF W, U, f
  <2> QED
    BY <1>1, <1>3, FS_Surjection
<1> HIDE DEF W, U
<1>5. SetToSeq(U) \in Seq(U)
  BY <1>4, SetToSeqType
<1>6. SetToSeq(U) \in Seq(Updates)
  BY <1>2, <1>5
<1> QED
  BY <1>6 DEF U, W

LEMMA NowIsNat == Now \in Nat
BY SchedulerConstants, FS_CardinalityType DEF Now

(* An update changes a record into a record. *)
LEMMA UpdatedType ==
  ASSUME NEW record \in Metas, NEW u \in Updates
  PROVE  Updated(record, u) \in Metas
<1>1. u.field \in {"state", "phase", "last_active"}
  BY DEF Updates
<1>2. u.field = "state" => u.value \in States
  BY DEF Updates
<1>3. u.field = "phase" => u.value \in Phases
  BY DEF Updates
<1>4. CASE u.field = "state"
  BY <1>2, <1>4 DEF Updated, Metas
<1>5. CASE u.field = "phase"
  BY <1>3, <1>5 DEF Updated, Metas
<1>6. CASE u.field = "last_active"
  <2>1. u.value = Now /\ Now \in 0 .. Now
    BY <1>6, NowIsNat DEF Updates
  <2> QED
    BY <1>6, <2>1 DEF Updated, Metas
<1> QED
  BY <1>1, <1>4, <1>5, <1>6

(* A stamp is never numbered beyond the number of projects. *)
LEMMA RedatedType ==
  ASSUME NEW record \in Metas, NEW disk
  PROVE  Redated(record, disk) \in Metas
<1> DEFINE older == {p \in Projects : disk[p].last_active < record.last_active}
           stamps == {disk[p].last_active : p \in older}
           f == [p \in older |-> disk[p].last_active]
           n == Cardinality(stamps)
<1>1. IsFiniteSet(older) /\ Cardinality(older) <= Now
  BY SchedulerConstants, FS_Subset DEF Now
<1>2. f \in Surjection(older, stamps)
  BY DEF Surjection
<1>3. n \in 0 .. Now
  <2> HIDE DEF older, stamps, f
  <2>1. IsFiniteSet(stamps) /\ n <= Cardinality(older)
    BY <1>1, <1>2, FS_Surjection
  <2>2. n \in Nat /\ Cardinality(older) \in Nat
    BY <1>1, <2>1, FS_CardinalityType
  <2> HIDE DEF n
  <2> QED
    BY <1>1, <2>1, <2>2, NowIsNat
<1>4. Redated(record, disk) = [record EXCEPT !.last_active = n]
  BY DEF Redated
<1> HIDE DEF n
<1> QED
  BY <1>3, <1>4 DEF Metas

(* The parts of the types that the writing of project.json is about. *)
Recorded ==
  /\ meta \in [Projects -> Metas]
  /\ saves \in [Writers -> Seq(Updates)]
  /\ copy \in [Writers -> Metas \cup {Nobody}]
  /\ \A w \in Writers : copy[w] # Nobody => saves[w] # <<>>

Seated ==
  /\ pc \in [Runners -> Pcs]
  /\ target \in [Runners -> Projects \cup {Nobody}]
  /\ result \in [Runners -> Notes]
  /\ last \in [Runners -> Projects \cup {Nobody}]
  /\ repeats \in [Runners -> 0 .. 2]
  /\ \A r \in Runners : pc[r] \notin Choosing => target[r] \in Projects

Around ==
  /\ asking \subseteq Projects /\ answered \subseteq Projects /\ pending \subseteq Projects
  /\ lease \in Runners \cup {Nobody}
  /\ session \in {"none", "live", "dead"}
  /\ disturbances \in Nat

(* The invariant comes in three parts: the files, the runners, and the      *)
(* bounds around them.                                                      *)
LEMMA InvParts == SchedulerInv <=> Recorded /\ Seated /\ Around
BY DEF SchedulerInv, TypeOK, Recorded, Seated, Around

(* A writer with nothing in hand takes up new updates, *)
LEMMA QueueRecorded ==
  ASSUME Recorded, NEW w \in Writers, NEW updates \in Seq(Updates), Queue(w, updates),
         (Settled(w) /\ UNCHANGED copy) \/ copy' = [copy EXCEPT ![w] = Nobody],
         UNCHANGED meta
  PROVE  Recorded'
<1>1. Settled(w) => copy[w] = Nobody
  BY DEF Recorded, Settled
<1>2. copy' \in [Writers -> Metas \cup {Nobody}] /\ copy'[w] = Nobody
      /\ \A v \in Writers \ {w} : copy'[v] = copy[v]
  BY <1>1 DEF Recorded
<1>3. saves' \in [Writers -> Seq(Updates)] /\ \A v \in Writers \ {w} : saves'[v] = saves[v]
  BY DEF Recorded, Queue
<1> QED
  BY <1>2, <1>3 DEF Recorded

(* leaves an update that changes nothing, *)
LEMMA SkipRecorded ==
  ASSUME Recorded, NEW w \in Writers, Skip(w)
  PROVE  Recorded'
<1>1. saves[w] \in Seq(Updates) /\ saves[w] # <<>> /\ copy[w] = Nobody
  BY DEF Recorded, Skip
<1>2. Tail(saves[w]) \in Seq(Updates)
  BY <1>1
<1>3. saves' \in [Writers -> Seq(Updates)] /\ \A v \in Writers \ {w} : saves'[v] = saves[v]
  BY <1>2 DEF Recorded, Skip, Queue
<1> QED
  BY <1>1, <1>3 DEF Recorded, Skip, files

(* reads a record and changes it, *)
LEMMA ReadRecorded ==
  ASSUME Recorded, NEW w \in Writers, Read(w)
  PROVE  Recorded'
<1> DEFINE u == Head(saves[w])
           record == Updated(meta[u.project], u)
<1>1. saves[w] \in Seq(Updates) /\ saves[w] # <<>>
  BY DEF Recorded, Read
<1>2. u \in Updates
  BY <1>1
<1>3. meta[u.project] \in Metas
  BY <1>2 DEF Recorded, Updates
<1>4. record \in Metas
  BY <1>2, <1>3, UpdatedType
<1>5. copy' = [copy EXCEPT ![w] = record] /\ UNCHANGED <<meta, saves>>
  BY DEF Read, files
<1> HIDE DEF record
<1> QED
  BY <1>1, <1>4, <1>5 DEF Recorded

(* or writes it back. *)
LEMMA SaveRecorded ==
  ASSUME Recorded, NEW w \in Writers, Save(w)
  PROVE  Recorded'
<1> DEFINE u    == Head(saves[w])
           disk == [meta EXCEPT ![u.project] = copy[w]]
           kept(v) == Redated(copy[v], disk)
<1>1. saves[w] \in Seq(Updates) /\ saves[w] # <<>> /\ copy[w] \in Metas
  BY DEF Recorded, Save
<1>2. Tail(saves[w]) \in Seq(Updates)
  BY <1>1
<1>3. disk \in [Projects -> Metas]
  BY <1>1 DEF Recorded
<1>4. /\ meta' = [p \in Projects |-> Redated(disk[p], disk)]
      /\ copy' = [v \in Writers |-> IF v = w \/ copy[v] = Nobody THEN Nobody ELSE kept(v)]
  BY DEF Save
<1>5. \A v \in Writers : copy[v] # Nobody => kept(v) \in Metas
  <2> HIDE DEF disk
  <2> QED
    BY RedatedType DEF Recorded
<1>6. \A p \in Projects : Redated(disk[p], disk) \in Metas
  <2> HIDE DEF disk
  <2> QED
    BY <1>3, RedatedType
<1> HIDE DEF disk, kept
<1>7. meta' \in [Projects -> Metas]
  BY <1>4, <1>6
<1>8. /\ copy' \in [Writers -> Metas \cup {Nobody}] /\ copy'[w] = Nobody
      /\ \A v \in Writers : copy[v] = Nobody => copy'[v] = Nobody
  BY <1>4, <1>5 DEF Recorded
<1>9. saves' \in [Writers -> Seq(Updates)] /\ \A v \in Writers \ {w} : saves'[v] = saves[v]
  BY <1>2 DEF Recorded, Save, Queue
<1> QED
  BY <1>7, <1>8, <1>9 DEF Recorded

(* What a runner takes up is made of updates of its target. *)
LEMMA UpdateTypes ==
  ASSUME NEW p \in Projects
  PROVE  /\ \A s \in States : SetState(p, s) \in Updates
         /\ \A f \in Phases : SetPhase(p, f) \in Updates
         /\ Stamp(p) \in Updates
BY DEF SetState, SetPhase, Stamp, Updates

(* A runner goes on with the visit of the target it has. *)
LEMMA GoesOn ==
  ASSUME Seated, NEW r \in Runners, NEW where \in Pcs, Goto(r, where),
         pc[r] \notin Choosing, UNCHANGED <<target, last, repeats>>,
         \E note \in Notes : result' = [result EXCEPT ![r] = note]
  PROVE  Seated'
BY DEF Seated, Goto

(* A process that ends forgets all it had. *)
LEMMA LoseSeated ==
  ASSUME Seated, NEW r \in Runners, NEW where \in Choosing, Goto(r, where), Lose(r)
  PROVE  Seated'
<1>1. where \in Pcs /\ "news" \in Notes /\ 0 \in 0 .. 2
  BY DEF Choosing, Pcs, Notes
<1>2. pc' \in [Runners -> Pcs] /\ pc'[r] = where /\ \A s \in Runners \ {r} : pc'[s] = pc[s]
  BY <1>1 DEF Seated, Goto
<1>3. /\ target' \in [Runners -> Projects \cup {Nobody}]
      /\ \A s \in Runners \ {r} : target'[s] = target[s]
  BY DEF Seated, Lose
<1>4. /\ result' \in [Runners -> Notes]
      /\ last' \in [Runners -> Projects \cup {Nobody}]
      /\ repeats' \in [Runners -> 0 .. 2]
  BY <1>1 DEF Seated, Lose
<1> QED
  BY <1>2, <1>3, <1>4 DEF Seated

(* After a visit it looks again, with a count that stays below three. *)
LEMMA ForgetSeated ==
  ASSUME Seated, NEW r \in Runners, Goto(r, "look"), Forget(r),
         NEW o \in Projects \cup {Nobody}, last' = [last EXCEPT ![r] = o],
         NEW n \in 0 .. 2, repeats' = [repeats EXCEPT ![r] = n]
  PROVE  Seated'
<1>1. "look" \in Choosing /\ "look" \in Pcs /\ "news" \in Notes
  BY DEF Choosing, Pcs, Notes
<1>2. pc' \in [Runners -> Pcs] /\ pc'[r] = "look" /\ \A s \in Runners \ {r} : pc'[s] = pc[s]
  BY <1>1 DEF Seated, Goto
<1>3. /\ target' \in [Runners -> Projects \cup {Nobody}]
      /\ \A s \in Runners \ {r} : target'[s] = target[s]
  BY DEF Seated, Forget
<1>4. /\ result' \in [Runners -> Notes]
      /\ last' \in [Runners -> Projects \cup {Nobody}]
      /\ repeats' \in [Runners -> 0 .. 2]
  BY <1>1 DEF Seated, Forget
<1> QED
  BY <1>1, <1>2, <1>3, <1>4 DEF Seated

(* A runner wakes the projects with answers and chooses one,                *)
LEMMA ChooseKeeps ==
  ASSUME SchedulerInv, NEW r \in Runners, Choose(r)
  PROVE  SchedulerInv'
<1>1. Recorded /\ Seated /\ Around
  BY InvParts
<1>2. Recorded'
  <2> DEFINE us == SetToSeq({SetState(p, "active") : p \in Woken(r)})
  <2>1. us \in Seq(Updates)
    BY WokenUpdates
  <2>2. r \in Writers /\ Settled(r) /\ Queue(r, us) /\ UNCHANGED <<meta, copy>>
    BY DEF Choose, files, Writers
  <2> HIDE DEF us
  <2> QED
    BY <1>1, <2>1, <2>2, QueueRecorded
<1>3. Seated'
  <2>1. PICK p \in Projects : target' = [target EXCEPT ![r] = p]
    BY DEF Choose, Pool
  <2>2. Goto(r, "lease") /\ UNCHANGED <<result, last, repeats>> /\ "lease" \in Pcs
    BY DEF Choose, Pcs
  <2> QED
    BY <1>1, <2>1, <2>2 DEF Seated, Goto
<1>4. Around'
  BY <1>1 DEF Choose, Around, files, bounds
<1> QED
  BY <1>2, <1>3, <1>4 DEF SchedulerInv, TypeOK, Recorded, Seated, Around

(* takes the lease and is inside the visit,                                 *)
LEMMA TakeLeaseKeeps ==
  ASSUME SchedulerInv, NEW r \in Runners, TakeLease(r)
  PROVE  SchedulerInv'
<1>1. Recorded /\ Seated /\ Around
  BY InvParts
<1>2. pc[r] \notin Choosing /\ target[r] \in Projects
  BY <1>1 DEF TakeLease, Choosing, Seated
<1>3. Recorded'
  <2>1. SetPhase(target[r], "working") \in Updates
    BY <1>2, UpdateTypes DEF Phases
  <2>2. PICK us \in Seq(Updates) : Queue(r, us)
    <3>1. <<>> \in Seq(Updates) /\ <<SetPhase(target[r], "working")>> \in Seq(Updates)
      BY <2>1
    <3> QED
      BY <3>1 DEF TakeLease, Route
  <2>3. r \in Writers /\ Settled(r) /\ UNCHANGED <<meta, copy>>
    BY DEF TakeLease, files, Writers
  <2> QED
    BY <1>1, <2>2, <2>3, QueueRecorded
<1>4. Seated'
  <2>1. PICK where \in {"release", "request", "body"} : Goto(r, where)
    BY DEF TakeLease, Route
  <2>2. where \in Pcs
    BY DEF Pcs
  <2>3. "same" \in Notes /\ result[r] \in Notes
    BY <1>1 DEF Notes, Seated
  <2>4. \E note \in Notes : result' = [result EXCEPT ![r] = note]
    BY <2>3 DEF TakeLease, Route
  <2>5. UNCHANGED <<target, last, repeats>>
    BY DEF TakeLease
  <2> QED
    BY <1>1, <1>2, <2>1, <2>2, <2>4, <2>5, GoesOn
<1>5. Around'
  BY <1>1 DEF TakeLease, Around, files, bounds
<1> QED
  BY <1>3, <1>4, <1>5 DEF SchedulerInv, TypeOK, Recorded, Seated, Around

(* The steps inside a visit, and the two that leave it. *)
LEMMA VisitsKeep ==
  ASSUME SchedulerInv, NEW r \in Runners, Visits(r) \/ Raises(r) \/ Release(r)
  PROVE  SchedulerInv'
<1> DEFINE p == target[r]
<1>1. Recorded /\ Seated /\ Around
  BY InvParts
<1>2. pc[r] \in {"body", "request", "mark", "release"}
  BY DEF Visits, Works, Asks, Wraps, PlansRequest, MarksRequest, Raises, Release
<1>3. pc[r] \notin Choosing /\ p \in Projects
  BY <1>1, <1>2 DEF Choosing, Seated
<1>4. Standing(r) \in Notes /\ "news" \in Notes /\ result[r] \in Notes
  BY <1>1 DEF Standing, Notes, Seated
<1>5. \E note \in Notes : result' = [result EXCEPT ![r] = note]
  <2>1. result' = [result EXCEPT ![r] = Standing(r)] \/ result' = [result EXCEPT ![r] = "news"]
        \/ result' = result
    BY DEF Visits, Works, Asks, Wraps, PlansRequest, MarksRequest, Raises, Release
  <2>2. result = [result EXCEPT ![r] = result[r]]
    BY <1>1 DEF Seated
  <2> QED
    BY <1>4, <2>1, <2>2
<1>6. Seated'
  <2>1. PICK where \in {"release", "mark", "judge"} : Goto(r, where)
    BY DEF Visits, Works, Asks, Wraps, PlansRequest, MarksRequest, Raises, Release
  <2>2. where \in Pcs
    BY DEF Pcs
  <2>3. UNCHANGED <<target, last, repeats>>
    BY DEF Visits, Works, Asks, Wraps, PlansRequest, MarksRequest, Raises, Release
  <2> QED
    BY <1>1, <1>3, <1>5, <2>1, <2>2, <2>3, GoesOn
<1>7. Recorded'
  <2>1. /\ SetState(p, "blocked_on_user") \in Updates
        /\ SetState(p, "active") \in Updates
        /\ SetState(p, "done") \in Updates
        /\ SetPhase(p, "done") \in Updates
        /\ Stamp(p) \in Updates
    BY <1>3, UpdateTypes DEF States, Phases
  <2>2. UNCHANGED meta /\ r \in Writers
    BY DEF Visits, Works, Asks, Wraps, PlansRequest, MarksRequest, Raises, Release, files, Writers
  <2>3. CASE Works(r) \/ MarksRequest(r)
    BY <1>1, <2>2, <2>3 DEF Works, MarksRequest, writing, Recorded
  <2>4. CASE Asks(r)
    <3>1. <<SetState(p, "blocked_on_user")>> \in Seq(Updates)
      BY <2>1
    <3> QED
      BY <1>1, <2>2, <2>4, <3>1, QueueRecorded DEF Asks
  <2>5. CASE Wraps(r)
    <3>1. <<SetPhase(p, "done"), SetState(p, "done")>> \in Seq(Updates)
      BY <2>1
    <3> QED
      BY <1>1, <2>2, <2>5, <3>1, QueueRecorded DEF Wraps
  <2>6. CASE PlansRequest(r)
    <3>1. <<>> \in Seq(Updates) /\ <<SetState(p, "active")>> \in Seq(Updates)
      BY <2>1
    <3>2. PICK us \in Seq(Updates) : Queue(r, us)
      BY <2>6, <3>1 DEF PlansRequest
    <3> QED
      BY <1>1, <2>2, <2>6, <3>2, QueueRecorded DEF PlansRequest
  <2>7. CASE Raises(r)
    <3>1. <<>> \in Seq(Updates)
      OBVIOUS
    <3> QED
      BY <1>1, <2>2, <2>7, <3>1, QueueRecorded DEF Raises
  <2>8. CASE Release(r)
    <3>1. <<Stamp(p)>> \in Seq(Updates)
      BY <2>1
    <3> QED
      BY <1>1, <2>2, <2>8, <3>1, QueueRecorded DEF Release
  <2> QED
    BY <2>3, <2>4, <2>5, <2>6, <2>7, <2>8 DEF Visits
<1>8. Around'
  BY <1>1, <1>3
  DEF Visits, Works, Asks, Wraps, PlansRequest, MarksRequest, Raises, Release, Around,
      files, machine, bounds
<1> QED
  BY <1>6, <1>7, <1>8 DEF SchedulerInv, TypeOK, Recorded, Seated, Around

(* What comes after a visit, or instead of one. *)
LEMMA JudgesKeep ==
  ASSUME SchedulerInv, NEW r \in Runners, LoopGuard(r) \/ Judge(r)
  PROVE  SchedulerInv'
<1>1. Recorded /\ Seated /\ Around
  BY InvParts
<1>2. target[r] \in Projects /\ repeats[r] \in 0 .. 2
  BY <1>1 DEF LoopGuard, Judge, Choosing, Seated
<1>3. CASE LoopGuard(r)
  <2>1. <<SetState(target[r], "blocked_on_user")>> \in Seq(Updates)
    <3>1. SetState(target[r], "blocked_on_user") \in Updates
      BY <1>2, UpdateTypes DEF States
    <3> QED
      BY <3>1
  <2>2. r \in Writers /\ UNCHANGED <<meta, copy>>
    BY <1>3 DEF LoopGuard, Writers
  <2>3. Recorded'
    BY <1>1, <1>3, <2>1, <2>2, QueueRecorded DEF LoopGuard
  <2>4. Seated'
    <3>1. 0 \in 0 .. 2 /\ Nobody \in Projects \cup {Nobody}
      OBVIOUS
    <3>2. /\ Goto(r, "look") /\ Forget(r)
          /\ last' = [last EXCEPT ![r] = Nobody] /\ repeats' = [repeats EXCEPT ![r] = 0]
      BY <1>3 DEF LoopGuard
    <3> QED
      BY <1>1, <3>1, <3>2, ForgetSeated
  <2>5. Around'
    BY <1>1, <1>2, <1>3 DEF LoopGuard, Around, machine, bounds
  <2> QED
    BY <2>3, <2>4, <2>5 DEF SchedulerInv, TypeOK, Recorded, Seated, Around
<1>4. CASE Judge(r)
  <2>1. Recorded'
    BY <1>1, <1>4 DEF Judge, files, writing, Recorded
  <2>2. Seated'
    <3>1. CASE Goto(r, "gone") /\ Lose(r)
      BY <1>1, <3>1, LoseSeated DEF Choosing
    <3>2. CASE /\ repeats' = [repeats EXCEPT ![r] = IF Repeated(r) THEN @ + 1 ELSE 0]
               /\ last' = [last EXCEPT ![r] = IF result[r] = "same" THEN target[r] ELSE Nobody]
               /\ Goto(r, "look") /\ Forget(r)
      <4> DEFINE n == IF Repeated(r) THEN repeats[r] + 1 ELSE 0
                 o == IF result[r] = "same" THEN target[r] ELSE Nobody
      <4>1. n \in 0 .. 2
        BY <1>2, <1>4 DEF Judge
      <4>2. o \in Projects \cup {Nobody}
        BY <1>2
      <4>3. repeats' = [repeats EXCEPT ![r] = n] /\ last' = [last EXCEPT ![r] = o]
        BY <3>2
      <4> HIDE DEF n, o
      <4> QED
        BY <1>1, <3>2, <4>1, <4>2, <4>3, ForgetSeated
    <3> QED
      BY <1>4, <3>1, <3>2 DEF Judge
  <2>3. Around'
    BY <1>1, <1>4 DEF Judge, Around, files, machine, bounds
  <2> QED
    BY <2>1, <2>2, <2>3 DEF SchedulerInv, TypeOK, Recorded, Seated, Around
<1> QED
  BY <1>3, <1>4

(* gives up, is killed, or a new process takes its place;                   *)
LEMMA EndsKeep ==
  ASSUME SchedulerInv, NEW r \in Runners, LeaseTimeout(r) \/ Kill(r) \/ Start(r)
  PROVE  SchedulerInv'
<1>1. Recorded /\ Seated /\ Around
  BY InvParts
<1>2. Seated'
  <2>1. PICK where \in Choosing : Goto(r, where)
    BY DEF LeaseTimeout, Kill, Start, Choosing
  <2>2. Lose(r)
    BY DEF LeaseTimeout, Kill, Start
  <2> QED
    BY <1>1, <2>1, <2>2, LoseSeated
<1>3. Recorded'
  <2>1. CASE LeaseTimeout(r) \/ Start(r)
    BY <1>1, <2>1 DEF LeaseTimeout, Start, files, writing, Recorded
  <2>2. CASE Kill(r)
    <3>1. <<>> \in Seq(Updates) /\ r \in Writers
      BY DEF Writers
    <3> QED
      BY <1>1, <2>2, <3>1, QueueRecorded DEF Kill, files
  <2> QED
    BY <2>1, <2>2
<1>4. Around'
  BY <1>1 DEF LeaseTimeout, Kill, Start, Disturbance, Around, files, machine, bounds
<1> QED
  BY <1>2, <1>3, <1>4 DEF SchedulerInv, TypeOK, Recorded, Seated, Around

(* a writer reads or saves the copy in its hands;                           *)
LEMMA WritesKeep ==
  ASSUME SchedulerInv, NEW w \in Writers, Writes(w)
  PROVE  SchedulerInv'
<1>1. Recorded /\ Seated /\ Around
  BY InvParts
<1>2. Recorded'
  BY <1>1, SkipRecorded, ReadRecorded, SaveRecorded DEF Writes
<1>3. Seated' /\ Around'
  BY <1>1 DEF Writes, Skip, Read, Save, files, machine, runner, bounds, Seated, Around
<1> QED
  BY <1>2, <1>3 DEF SchedulerInv, TypeOK, Recorded, Seated, Around

(* and the commands of the user write beside it all.                        *)
LEMMA CommandsKeep ==
  ASSUME SchedulerInv, Commands
  PROVE  SchedulerInv'
<1>1. Recorded /\ Seated /\ Around
  BY InvParts
<1>2. Seated'
  BY <1>1
  DEF Commands, Answer, Pause, Resume, Request, Command, Converse, HangUp, runner, Seated
<1>3. Around'
  <2>1. Steered \subseteq Projects
    BY SchedulerConstants
  <2>2. CASE \E p \in Projects : Answer(p)
    BY <1>1, <2>2 DEF Answer, machine, bounds, Around
  <2>3. CASE \E p \in Steered : Pause(p) \/ Resume(p) \/ Request(p)
    <3>1. PICK p \in Steered : Pause(p) \/ Resume(p) \/ Request(p)
      BY <2>3
    <3>2. UNCHANGED <<asking, answered, machine>> /\ disturbances' = disturbances + 1
      BY <3>1 DEF Pause, Resume, Request, Command, Disturbance
    <3>3. pending' = pending \/ pending' = pending \cup {p}
      BY <3>1 DEF Pause, Resume, Request
    <3> QED
      BY <1>1, <2>1, <3>2, <3>3 DEF machine, Around
  <2>4. CASE Converse \/ HangUp
    BY <1>1, <2>4 DEF Converse, HangUp, Disturbance, files, bounds, Around
  <2> QED
    BY <2>2, <2>3, <2>4 DEF Commands
<1>4. Recorded'
  <2>1. CASE \E us \in Seq(Updates) : Command(us)
    <3>1. User \in Writers
      BY DEF Writers
    <3> QED
      BY <1>1, <2>1, <3>1, QueueRecorded DEF Command
  <2>2. CASE UNCHANGED <<meta, saves, copy>>
    BY <1>1, <2>2 DEF Recorded
  <2>3. CASE \E p \in Steered : Pause(p) \/ Resume(p) \/ Request(p)
    <3>1. PICK p \in Steered : Pause(p) \/ Resume(p) \/ Request(p)
      BY <2>3
    <3>2. p \in Projects
      BY SchedulerConstants
    <3>3. /\ SetState(p, "paused") \in Updates
          /\ SetState(p, "active") \in Updates /\ SetPhase(p, "working") \in Updates
      BY <3>2, UpdateTypes DEF States, Phases
    <3>4. /\ <<SetState(p, "paused")>> \in Seq(Updates)
          /\ <<SetPhase(p, "working"), SetState(p, "active")>> \in Seq(Updates)
          /\ <<SetState(p, "active")>> \in Seq(Updates)
      BY <3>3
    <3> QED
      BY <2>1, <3>1, <3>4 DEF Pause, Resume, Request
  <2>4. CASE (\E p \in Projects : Answer(p)) \/ Converse \/ HangUp
    BY <2>2, <2>4 DEF Answer, Converse, HangUp, files, writing
  <2> QED
    BY <2>3, <2>4 DEF Commands
<1> QED
  BY <1>2, <1>3, <1>4 DEF SchedulerInv, TypeOK, Recorded, Seated, Around

(* At first no runner is there and nothing is in hand.                      *)
LEMMA InitScheduler == Init => SchedulerInv
<1> SUFFICES ASSUME Init PROVE SchedulerInv
  OBVIOUS
<1>1. [state |-> "active", phase |-> "working", last_active |-> 0] \in Metas
  BY NowIsNat DEF Metas, States, Phases
<1>2. Recorded
  BY <1>1 DEF Init, Recorded
<1>3. Seated
  BY DEF Init, Seated, Pcs, Notes, Choosing
<1>4. Around
  BY DEF Init, Around
<1> QED
  BY <1>2, <1>3, <1>4, InvParts

(* Every runner always knows what it visits, its count never passes the     *)
(* threshold of the guard, and no write tears the record of a project,      *)
(* whoever writes when.                                                     *)
THEOREM SchedulerCorrect == Spec => []SchedulerInv
<1>1. SchedulerInv /\ [Next]_vars => SchedulerInv'
  <2> SUFFICES ASSUME SchedulerInv, [Next]_vars PROVE SchedulerInv'
    OBVIOUS
  <2>1. CASE \E r \in Runners : Runs(r) \/ Ends(r)
    BY <2>1, ChooseKeeps, TakeLeaseKeeps, VisitsKeep, JudgesKeep, EndsKeep
    DEF Runs, Ends, Looks, Judges
  <2>2. CASE \E w \in Writers : Writes(w)
    BY <2>2, WritesKeep
  <2>3. CASE Commands
    BY <2>3, CommandsKeep
  <2>4. CASE UNCHANGED vars
    BY <2>4
    DEF vars, files, machine, runner, writing, bounds, SchedulerInv, TypeOK
  <2> QED
    BY <2>1, <2>2, <2>3, <2>4 DEF Next
<1> QED
  BY <1>1, InitScheduler, PTL DEF Spec

(* Files, runners and commands stay of their types: the guard never counts  *)
(* past its threshold, and what is read and written back later is a whole   *)
(* record (scheduler.py:99, project.py).                                    *)
THEOREM TypesKept == Spec => []TypeOK
<1>1. SchedulerInv => TypeOK
  BY DEF SchedulerInv
<1> QED
  BY <1>1, SchedulerCorrect, PTL

=============================================================================
