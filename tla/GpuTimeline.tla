----------------------------- MODULE GpuTimeline -----------------------------
(***************************************************************************)
(* The timeline of the models on the GPU: observers (scheduler, review     *)
(* panel, dashboard) ask the server what is resident, and under a file     *)
(* lock append what changed since the last record to a log and rewrite the *)
(* record (llm/timeline.py, Services.observe_gpu).  The server changes at  *)
(* will; the answer is taken before the lock.  Times are left out.         *)
(***************************************************************************)
EXTENDS Naturals

CONSTANTS
  Models,
  Observers,   \* processes that observe
  MaxChanges,  \* bound: changes of the server
  MaxCrashes   \* bound: observers killed

ASSUME TimelineConstants ==
  MaxChanges \in Nat /\ MaxCrashes \in Nat /\ "nobody" \notin Observers

VARIABLES
  server,      \* the server, external: the state of each model
  record,      \* gpu-state.json
  exists,      \* does gpu-state.json exist?
  logged,      \* gpu-timeline.jsonl: what the last event of each model says
  pcs,         \* where each observer is
  snapshot,    \* the answer it holds
  toLog,       \* the models whose event it has still to append
  flock,       \* the observer that has the lock, or "nobody"
  changes, crashes,
  skewed       \* history: models whose last event and record were parted by
               \* a kill, or by a model first seen while it stops

gpuFiles  == <<record, exists, logged>>
observing == <<pcs, snapshot, toLog, flock>>
gpuVars   == <<server, gpuFiles, observing, changes, crashes, skewed>>

Recorded == {"gone", "loading", "ready"}
Seen     == Recorded \cup {"stopping"}
Blank    == [m \in Models |-> "gone"]

GpuTypeOK ==
  /\ server \in [Models -> Seen] /\ record \in [Models -> Recorded]
  /\ exists \in BOOLEAN /\ logged \in [Models -> Recorded]
  /\ pcs \in [Observers -> {"idle", "lock", "append", "write"}]
  /\ snapshot \in [Observers -> [Models -> Seen]]
  /\ toLog \in [Observers -> SUBSET Models]
  /\ flock \in Observers \cup {"nobody"}
  /\ \A o \in Observers : pcs[o] \in {"append", "write"} <=> flock = o
  /\ changes \in 0 .. MaxChanges /\ crashes \in 0 .. MaxCrashes /\ skewed \subseteq Models

GpuInit ==
  /\ server = Blank /\ record = Blank /\ exists = FALSE /\ logged = Blank
  /\ pcs = [o \in Observers |-> "idle"] /\ snapshot = [o \in Observers |-> Blank]
  /\ toLog = [o \in Observers |-> {}] /\ flock = "nobody"
  /\ changes = 0 /\ crashes = 0 /\ skewed = {}

-----------------------------------------------------------------------------
(* The server: a model loads, is ready or dies loading, stops, is gone.     *)
Moves == {<<"gone", "loading">>, <<"loading", "ready">>, <<"loading", "gone">>,
          <<"ready", "stopping">>, <<"stopping", "gone">>}
ServerMoves(m, to) ==
  /\ <<server[m], to>> \in Moves /\ changes < MaxChanges
  /\ server' = [server EXCEPT ![m] = to]
  /\ changes' = changes + 1
  /\ UNCHANGED <<gpuFiles, observing, crashes, skewed>>

-----------------------------------------------------------------------------
(* The server is asked, and then the lock is waited for.                    *)
Look(o) ==
  /\ pcs[o] = "idle"
  /\ snapshot' = [snapshot EXCEPT ![o] = server]
  /\ pcs' = [pcs EXCEPT ![o] = "lock"]
  /\ UNCHANGED <<server, gpuFiles, toLog, flock, changes, crashes, skewed>>

(* What becomes of the record of a model.  One that is stopping keeps the   *)
(* record it had, so that its end is accounted as an unload.                *)
Now(seen, prior) ==
  IF seen # "stopping" THEN seen
  ELSE IF prior = "gone" THEN "ready" ELSE prior
HasEvent(seen, prior) == seen # "stopping" /\ seen # prior
Events(o) == {m \in Models : HasEvent(snapshot[o][m], record[m])}

(* Is there anything to write?  A slip: a departure alone does not count.   *)
ChangedByArrivals(o) == \E m \in Events(o) : snapshot[o][m] # "gone"
Changed(o) == Events(o) # {}

Enter(o) ==
  /\ pcs[o] = "lock" /\ flock = "nobody"
  /\ flock' = o
  /\ toLog' = [toLog EXCEPT ![o] = Events(o)]
  /\ pcs' = [pcs EXCEPT ![o] = IF Events(o) = {} THEN "write" ELSE "append"]
  /\ UNCHANGED <<server, gpuFiles, snapshot, changes, crashes, skewed>>

(* Departures first.                                                        *)
Append1(o, m) ==
  /\ pcs[o] = "append" /\ m \in toLog[o]
  /\ snapshot[o][m] = "gone" \/ \A n \in toLog[o] : snapshot[o][n] # "gone"
  /\ logged' = [logged EXCEPT ![m] = snapshot[o][m]]
  /\ skewed' = skewed \ {m}
  /\ toLog' = [toLog EXCEPT ![o] = @ \ {m}]
  /\ pcs' = [pcs EXCEPT ![o] = IF toLog[o] = {m} THEN "write" ELSE "append"]
  /\ UNCHANGED <<server, record, exists, snapshot, flock, changes, crashes>>

WriteRecord(o) ==
  /\ pcs[o] = "write"
  /\ IF Changed(o) \/ ~exists
     THEN /\ record' = [m \in Models |-> Now(snapshot[o][m], record[m])]
          /\ skewed' = skewed \cup {m \in Models : snapshot[o][m] = "stopping" /\ record[m] = "gone"}
          /\ exists' = TRUE
     ELSE UNCHANGED <<record, exists, skewed>>
  /\ flock' = "nobody"
  /\ pcs' = [pcs EXCEPT ![o] = "idle"]
  /\ UNCHANGED <<server, logged, snapshot, toLog, changes, crashes>>

(* The lock of a dead process is free.                                      *)
KillObserver(o) ==
  /\ pcs[o] # "idle" /\ crashes < MaxCrashes
  /\ crashes' = crashes + 1
  /\ flock' = IF flock = o THEN "nobody" ELSE flock
  /\ pcs' = [pcs EXCEPT ![o] = "idle"] /\ toLog' = [toLog EXCEPT ![o] = {}]
  /\ skewed' = IF flock = o THEN skewed \cup (Events(o) \ toLog[o]) ELSE skewed
  /\ UNCHANGED <<server, gpuFiles, snapshot, changes>>

Observe(o) ==
  Look(o) \/ Enter(o) \/ (\E m \in Models : Append1(o, m)) \/ WriteRecord(o)

GpuNext ==
  \/ \E m \in Models, to \in Seen : ServerMoves(m, to)
  \/ \E o \in Observers : Observe(o) \/ KillObserver(o)

(* Observers keep observing: the dashboard on its tick, the scheduler at    *)
(* every step; and a waiting one gets the lock in the end.                  *)
GpuSpec ==
  /\ GpuInit /\ [][GpuNext]_gpuVars
  /\ \A o \in Observers : WF_gpuVars(Observe(o)) /\ SF_gpuVars(Enter(o))

-----------------------------------------------------------------------------
(* `Safe under concurrent observers` (timeline.py:60): outside the lock     *)
(* the record and the log tell the same story of every model, so that the   *)
(* next difference is computed from what was logged.                        *)
LogMatchesRecord ==
  flock = "nobody" => \A m \in Models \ skewed : logged[m] = record[m]

(* When the server is quiet the record catches up with it, although every   *)
(* observer may hold an answer from long ago.                               *)
RecordCatchesUp == <>[](\A m \in Models : server[m] # "stopping" => record[m] = server[m])

=============================================================================
