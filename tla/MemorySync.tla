------------------------------ MODULE MemorySync ------------------------------
(***************************************************************************)
(* Memory items and their way to the Letta server: CompositeMemory.save    *)
(* and sync of memory/store.py over the SQLite store (local_store.py) and  *)
(* the remote one (letta_store.py), used by several processes, while the   *)
(* server comes and goes.  The text of items, their search and the blocks  *)
(* are left out, and so is the agent that holds the passages: the remote   *)
(* store is one set.                                                       *)
(***************************************************************************)
EXTENDS Naturals, FiniteSets

CONSTANTS
  Sessions,    \* processes with a memory open
  Items,       \* bound: the memory items that are ever saved
  MaxOutages,  \* bound: times the server goes down
  MaxLosses    \* bound: processes killed

ASSUME MemoryConstants == MaxOutages \in Nat /\ MaxLosses \in Nat

VARIABLES
  up,          \* is the server reachable?
  remote,      \* passages of the server
  local,       \* table items
  outbox,      \* table letta_outbox
  attached,    \* self.letta of each session: "closed", "letta", "none"
  doing,       \* what each session is in the middle of
  carrying,    \* the item it has in hand
  toSync,      \* the rest of its list in sync
  outages, losses,
  offline,     \* history: saved by a session that found no server
  cutOff       \* history: saved by a session killed before it could send or queue

stores     == <<up, remote, local, outbox>>
inSession  == <<attached, doing, carrying, toSync>>
missed     == <<offline, cutOff>>
memoryVars == <<stores, inSession, outages, losses, missed>>

Idle(p) == attached[p] # "closed" /\ doing[p] = "idle"

MemoryTypeOK ==
  /\ up \in BOOLEAN /\ remote \subseteq Items
  /\ local \subseteq Items /\ outbox \subseteq local
  /\ attached \in [Sessions -> {"closed", "letta", "none"}]
  /\ doing \in [Sessions -> {"idle", "send", "queue", "sync", "unqueue"}]
  /\ carrying \in [Sessions -> SUBSET Items] /\ toSync \in [Sessions -> SUBSET Items]
  /\ \A p \in Sessions : Cardinality(carrying[p]) = IF doing[p] \in {"idle", "sync"} THEN 0 ELSE 1
  /\ outages \in 0 .. MaxOutages /\ losses \in 0 .. MaxLosses
  /\ offline \subseteq local /\ cutOff \subseteq local

MemoryInit ==
  /\ up = TRUE /\ remote = {} /\ local = {} /\ outbox = {}
  /\ attached = [p \in Sessions |-> "closed"]
  /\ doing = [p \in Sessions |-> "idle"]
  /\ carrying = [p \in Sessions |-> {}] /\ toSync = [p \in Sessions |-> {}]
  /\ outages = 0 /\ losses = 0 /\ offline = {} /\ cutOff = {}

Becomes(p, what, hand, rest) ==
  /\ doing' = [doing EXCEPT ![p] = what]
  /\ carrying' = [carrying EXCEPT ![p] = hand]
  /\ toSync' = [toSync EXCEPT ![p] = rest]
  /\ UNCHANGED attached

-----------------------------------------------------------------------------
(* open_memory: the server counts for this session only if it is healthy    *)
(* now.                                                                     *)
OpenMemory(p) ==
  /\ attached[p] = "closed"
  /\ attached' = [attached EXCEPT ![p] = IF up THEN "letta" ELSE "none"]
  /\ UNCHANGED <<stores, doing, carrying, toSync, outages, losses, missed>>

CloseMemory(p) ==
  /\ Idle(p)
  /\ attached' = [attached EXCEPT ![p] = "closed"]
  /\ UNCHANGED <<stores, doing, carrying, toSync, outages, losses, missed>>

(* save: the local store first.                                             *)
SaveLocally(p, i) ==
  /\ Idle(p) /\ i \notin local
  /\ local' = local \cup {i}
  /\ IF attached[p] = "letta"
     THEN Becomes(p, "send", {i}, {}) /\ UNCHANGED offline
     ELSE offline' = offline \cup {i} /\ UNCHANGED inSession
  /\ UNCHANGED <<up, remote, outbox, outages, losses, cutOff>>

(* letta.save: it is stored, or the call fails; a call that times out may   *)
(* have stored it.                                                          *)
SendOk(p) ==
  /\ doing[p] = "send" /\ up
  /\ remote' = remote \cup carrying[p]
  /\ Becomes(p, "idle", {}, {})
  /\ UNCHANGED <<up, local, outbox, outages, losses, missed>>

SendFails(p, stored) ==
  /\ doing[p] = "send" /\ (stored => up)
  /\ remote' = IF stored THEN remote \cup carrying[p] ELSE remote
  /\ Becomes(p, "queue", carrying[p], {})
  /\ UNCHANGED <<up, local, outbox, outages, losses, missed>>

(* outbox_add.                                                              *)
Queue(p) ==
  /\ doing[p] = "queue"
  /\ outbox' = outbox \cup carrying[p]
  /\ Becomes(p, "idle", {}, {})
  /\ UNCHANGED <<up, remote, local, outages, losses, missed>>

-----------------------------------------------------------------------------
(* sync: the list is read once; the first failure ends it.                  *)
StartSync(p) ==
  /\ Idle(p) /\ attached[p] = "letta" /\ outbox # {}
  /\ Becomes(p, "sync", {}, outbox)
  /\ UNCHANGED <<stores, outages, losses, missed>>

SyncSend(p) ==
  /\ doing[p] = "sync" /\ up
  /\ \E i \in toSync[p] :
       /\ remote' = remote \cup {i}
       /\ Becomes(p, "unqueue", {i}, toSync[p] \ {i})
  /\ UNCHANGED <<up, local, outbox, outages, losses, missed>>

(* A slip: the row is removed although the call failed.                     *)
SyncFailsForgetting(p) ==
  /\ doing[p] = "sync"
  /\ \E i \in toSync[p] : outbox' = outbox \ {i}
  /\ Becomes(p, "idle", {}, {})
  /\ UNCHANGED <<up, remote, local, outages, losses, missed>>
SyncFails(p) ==
  /\ doing[p] = "sync"
  /\ \/ UNCHANGED remote
     \/ up /\ \E i \in toSync[p] : remote' = remote \cup {i}
  /\ Becomes(p, "idle", {}, {})
  /\ UNCHANGED <<up, local, outbox, outages, losses, missed>>

(* outbox_remove, then the next of the list.                                *)
(* A slip: the row stays.                                                   *)
SyncKeepsRow(p) ==
  /\ doing[p] = "unqueue"
  /\ Becomes(p, IF toSync[p] = {} THEN "idle" ELSE "sync", {}, toSync[p])
  /\ UNCHANGED <<stores, outages, losses, missed>>
SyncRemove(p) ==
  /\ doing[p] = "unqueue"
  /\ outbox' = outbox \ carrying[p]
  /\ Becomes(p, IF toSync[p] = {} THEN "idle" ELSE "sync", {}, toSync[p])
  /\ UNCHANGED <<up, remote, local, outages, losses, missed>>

-----------------------------------------------------------------------------
GoDown ==
  /\ up /\ outages < MaxOutages
  /\ up' = FALSE /\ outages' = outages + 1
  /\ UNCHANGED <<remote, local, outbox, inSession, losses, missed>>

ComeBack ==
  /\ ~up
  /\ up' = TRUE
  /\ UNCHANGED <<remote, local, outbox, inSession, outages, losses, missed>>

KillSession(p) ==
  /\ attached[p] # "closed" /\ losses < MaxLosses
  /\ losses' = losses + 1
  /\ attached' = [attached EXCEPT ![p] = "closed"]
  /\ doing' = [doing EXCEPT ![p] = "idle"]
  /\ carrying' = [carrying EXCEPT ![p] = {}] /\ toSync' = [toSync EXCEPT ![p] = {}]
  /\ cutOff' = cutOff \cup (IF doing[p] \in {"send", "queue"} THEN carrying[p] ELSE {})
  /\ UNCHANGED <<stores, outages, offline>>

MemoryStep(p) ==
  \/ SendOk(p) \/ (\E stored \in BOOLEAN : SendFails(p, stored)) \/ Queue(p)
  \/ SyncSend(p) \/ SyncFails(p) \/ SyncRemove(p)

MemoryNext ==
  \/ \E p \in Sessions :
       \/ OpenMemory(p) \/ CloseMemory(p) \/ StartSync(p) \/ KillSession(p)
       \/ (\E i \in Items : SaveLocally(p, i)) \/ MemoryStep(p)
  \/ GoDown \/ ComeBack

(* Calls return; the server comes back; sessions end and new ones begin;    *)
(* every mission that is wrapped up syncs, so a session with the server     *)
(* syncs again and again; and a server that is up does not refuse an item   *)
(* every time.                                                              *)
MemorySpec ==
  /\ MemoryInit /\ [][MemoryNext]_memoryVars
  /\ WF_memoryVars(ComeBack)
  /\ \A p \in Sessions :
       /\ WF_memoryVars(MemoryStep(p)) /\ WF_memoryVars(OpenMemory(p))
       /\ WF_memoryVars(CloseMemory(p)) /\ SF_memoryVars(StartSync(p))
       /\ SF_memoryVars(SyncSend(p))

-----------------------------------------------------------------------------
(* What the server has, a sync will send, or a session is saving.           *)
Mirrored(i) ==
  \/ i \in remote \/ i \in outbox
  \/ \E p \in Sessions : doing[p] \in {"send", "queue"} /\ i \in carrying[p]

(* What the mirror lacks: syncs of several sessions, outages and calls that *)
(* fail half-way lose nothing, and a kill only the item it interrupts; but  *)
(* no sync, however often it runs, brings to the server what was saved by a *)
(* session that found none when it opened (CompositeMemory.save queues only *)
(* after a call that failed).                                               *)
NoneLost == \A i \in local \ (offline \cup cutOff) : Mirrored(i)
MirrorGaps == NoneLost /\ \A i \in offline : ~Mirrored(i)

(* What is queued gets to the server in the end.                            *)
OutboxDrains == <>[](outbox = {})

=============================================================================
