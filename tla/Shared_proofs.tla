--------------------------- MODULE Shared_proofs ---------------------------
(***************************************************************************)
(* What missions share, for any number of sessions, items, observers and   *)
(* models: what the mirror of the memory lacks, and that the record of     *)
(* the GPU agrees with its log.  What each of them does - its commands and  *)
(* its prompts keep their types, for any lengths, priorities and helpers - *)
(* and all of it together.                                                 *)
(***************************************************************************)
EXTENDS MCMissions, ReviewPanel_proofs, Definition_proofs,
        FiniteSetTheorems, WellFoundedInduction, TLAPS

(* What makes NoneLost inductive: an item is taken off the queue only when  *)
(* the server has it, and what a session holds is saved locally.            *)
InHand(p) ==
  /\ carrying[p] \subseteq local /\ toSync[p] \subseteq local
  /\ doing[p] = "unqueue" => carrying[p] \subseteq remote

(* What a session without the server saves is in no store but the local     *)
(* one and in nobody's hand.                                                *)
OfflineApart ==
  /\ remote \subseteq local
  /\ remote \cap offline = {} /\ outbox \cap offline = {}
  /\ \A p \in Sessions : carrying[p] \cap offline = {} /\ toSync[p] \cap offline = {}

MemoryInv ==
  /\ MemoryTypeOK
  /\ NoneLost
  /\ \A p \in Sessions : InHand(p)
  /\ OfflineApart

Missed == offline \cup cutOff

-----------------------------------------------------------------------------
(* Memory                                                                   *)

Doings == {"idle", "send", "queue", "sync", "unqueue"}

(* The sizes of the smallest sets.                                          *)
LEMMA OneItem ==
  ASSUME NEW i
  PROVE  IsFiniteSet({i}) /\ Cardinality({i}) = 1 /\ Cardinality({}) = 0
BY FS_Singleton, FS_EmptySet

(* A session takes something else into its hand. *)
LEMMA HandTyped ==
  ASSUME MemoryTypeOK, NEW p \in Sessions, NEW what \in Doings,
         NEW hand \in SUBSET Items, NEW rest \in SUBSET Items, Becomes(p, what, hand, rest),
         Cardinality(hand) = IF what \in {"idle", "sync"} THEN 0 ELSE 1
  PROVE  /\ attached' \in [Sessions -> {"closed", "letta", "none"}]
         /\ doing' \in [Sessions -> Doings]
         /\ carrying' \in [Sessions -> SUBSET Items] /\ toSync' \in [Sessions -> SUBSET Items]
         /\ doing'[p] = what /\ carrying'[p] = hand /\ toSync'[p] = rest
         /\ \A q \in Sessions \ {p} :
              doing'[q] = doing[q] /\ carrying'[q] = carrying[q] /\ toSync'[q] = toSync[q]
         /\ \A q \in Sessions :
              Cardinality(carrying'[q]) = IF doing'[q] \in {"idle", "sync"} THEN 0 ELSE 1
<1>1. /\ attached \in [Sessions -> {"closed", "letta", "none"}]
      /\ doing \in [Sessions -> Doings]
      /\ carrying \in [Sessions -> SUBSET Items] /\ toSync \in [Sessions -> SUBSET Items]
      /\ \A q \in Sessions :
           Cardinality(carrying[q]) = IF doing[q] \in {"idle", "sync"} THEN 0 ELSE 1
  BY DEF MemoryTypeOK, Doings
<1>2. /\ attached' \in [Sessions -> {"closed", "letta", "none"}]
      /\ doing' \in [Sessions -> Doings]
      /\ carrying' \in [Sessions -> SUBSET Items] /\ toSync' \in [Sessions -> SUBSET Items]
  BY <1>1 DEF Becomes
<1>3. /\ doing'[p] = what /\ carrying'[p] = hand /\ toSync'[p] = rest
      /\ \A q \in Sessions \ {p} :
           doing'[q] = doing[q] /\ carrying'[q] = carrying[q] /\ toSync'[q] = toSync[q]
  BY <1>1 DEF Becomes
<1>4. \A q \in Sessions :
        Cardinality(carrying'[q]) = IF doing'[q] \in {"idle", "sync"} THEN 0 ELSE 1
  <2> SUFFICES ASSUME NEW q \in Sessions
               PROVE  Cardinality(carrying'[q]) = IF doing'[q] \in {"idle", "sync"} THEN 0 ELSE 1
    OBVIOUS
  <2>1. CASE q = p
    BY <1>3, <2>1
  <2>2. CASE q # p
    BY <1>1, <1>3, <2>2
  <2> QED
    BY <2>1, <2>2
<1> QED
  BY <1>2, <1>3, <1>4

(* When the stores and the hands of the others do not lose anything, only   *)
(* what this session held, and what is new, has to be looked after.         *)
LEMMA OthersLoseNothing ==
  ASSUME MemoryInv, MemoryTypeOK', OfflineApart', NEW p \in Sessions,
         local \subseteq local', remote \subseteq remote', Missed \subseteq Missed',
         outbox \subseteq outbox' \cup remote',
         \A q \in Sessions \ {p} :
           doing'[q] = doing[q] /\ carrying'[q] = carrying[q] /\ toSync'[q] = toSync[q],
         doing[p] \in {"send", "queue"} =>
           \/ carrying[p] \subseteq remote' \cup outbox' \cup Missed'
           \/ doing'[p] \in {"send", "queue"} /\ carrying'[p] = carrying[p],
         local' \ local \subseteq Missed' \cup (IF doing'[p] = "send" THEN carrying'[p] ELSE {}),
         carrying'[p] \subseteq local', toSync'[p] \subseteq local',
         doing'[p] = "unqueue" => carrying'[p] \subseteq remote'
  PROVE  MemoryInv'
<1>1. \A q \in Sessions : InHand(q)'
  BY DEF MemoryInv, InHand
<1>2. NoneLost'
  <2> SUFFICES ASSUME NEW i \in local' \ Missed', i \notin remote', i \notin outbox'
               PROVE  \E q \in Sessions : doing'[q] \in {"send", "queue"} /\ i \in carrying'[q]
    BY DEF NoneLost, Mirrored, Missed
  <2>1. CASE i \notin local
    BY <2>1
  <2>2. CASE i \in local
    <3>1. PICK q \in Sessions : doing[q] \in {"send", "queue"} /\ i \in carrying[q]
      BY <2>2 DEF MemoryInv, NoneLost, Mirrored, Missed
    <3>2. CASE q = p
      BY <3>1, <3>2
    <3>3. CASE q # p
      BY <3>1, <3>3
    <3> QED
      BY <3>2, <3>3
  <2> QED
    BY <2>1, <2>2
<1> QED
  BY <1>1, <1>2 DEF MemoryInv

(* What was saved offline stays apart as long as hands and stores take only *)
(* what is already in one of them, or new and not offline.                  *)
LEMMA StaysApart ==
  ASSUME MemoryInv, NEW p \in Sessions, UNCHANGED <<local, offline>>,
         remote' \subseteq remote \cup carrying[p] \cup toSync[p],
         outbox' \subseteq outbox \cup carrying[p],
         carrying'[p] \subseteq carrying[p] \cup toSync[p],
         toSync'[p] \subseteq toSync[p] \cup outbox,
         \A q \in Sessions \ {p} : carrying'[q] = carrying[q] /\ toSync'[q] = toSync[q]
  PROVE  OfflineApart'
<1>1. /\ OfflineApart /\ InHand(p)
      /\ carrying[p] \cap offline = {} /\ toSync[p] \cap offline = {}
      /\ carrying[p] \subseteq local /\ toSync[p] \subseteq local
  BY DEF MemoryInv, OfflineApart, InHand
<1>2. remote' \subseteq local' /\ remote' \cap offline' = {} /\ outbox' \cap offline' = {}
  BY <1>1 DEF OfflineApart
<1>3. ASSUME NEW q \in Sessions
      PROVE  carrying'[q] \cap offline' = {} /\ toSync'[q] \cap offline' = {}
  <2>1. CASE q = p
    BY <1>1, <2>1 DEF OfflineApart
  <2>2. CASE q # p
    BY <1>1, <2>2 DEF OfflineApart
  <2> QED
    BY <2>1, <2>2
<1> QED
  BY <1>2, <1>3 DEF OfflineApart

(* The calls of a session on a new item. *)
LEMMA SavesKeep ==
  ASSUME MemoryInv, NEW p \in Sessions,
         NEW i \in Items, SaveLocally(p, i)
  PROVE  MemoryInv'
<1>1. MemoryTypeOK /\ OfflineApart /\ doing[p] = "idle" /\ i \notin local
  BY DEF SaveLocally, Idle, MemoryInv
<1>2. /\ local' = local \cup {i} /\ UNCHANGED <<up, remote, outbox, outages, losses, cutOff>>
  BY DEF SaveLocally
<1>3. \A q \in Sessions : carrying[q] \subseteq local /\ toSync[q] \subseteq local
  BY DEF MemoryInv, InHand
<1>4. CASE Becomes(p, "send", {i}, {}) /\ UNCHANGED offline
  <2>1. /\ attached' \in [Sessions -> {"closed", "letta", "none"}]
        /\ doing' \in [Sessions -> Doings]
        /\ carrying' \in [Sessions -> SUBSET Items] /\ toSync' \in [Sessions -> SUBSET Items]
        /\ doing'[p] = "send" /\ carrying'[p] = {i} /\ toSync'[p] = {}
        /\ \A q \in Sessions \ {p} :
             doing'[q] = doing[q] /\ carrying'[q] = carrying[q] /\ toSync'[q] = toSync[q]
        /\ \A q \in Sessions :
             Cardinality(carrying'[q]) = IF doing'[q] \in {"idle", "sync"} THEN 0 ELSE 1
    <3>1. {i} \in SUBSET Items /\ {} \in SUBSET Items /\ "send" \in Doings
      BY DEF Doings
    <3>2. Cardinality({i}) = IF "send" \in {"idle", "sync"} THEN 0 ELSE 1
      BY OneItem
    <3> QED
      BY <1>1, <1>4, <3>1, <3>2, HandTyped
  <2>2. MemoryTypeOK'
    BY <1>1, <1>2, <1>4, <2>1 DEF MemoryTypeOK, Doings
  <2>3. i \notin offline
    BY <1>1 DEF MemoryTypeOK
  <2>4. ASSUME NEW q \in Sessions
        PROVE  carrying'[q] \cap offline = {} /\ toSync'[q] \cap offline = {}
    <3>1. CASE q = p
      BY <2>1, <2>3, <3>1
    <3>2. CASE q # p
      BY <1>1, <2>1, <3>2 DEF OfflineApart
    <3> QED
      BY <3>1, <3>2
  <2>5. OfflineApart'
    BY <1>1, <1>2, <1>4, <2>4 DEF OfflineApart
  <2>6. Missed' = Missed
    BY <1>2, <1>4 DEF Missed
  <2> QED
    BY <1>1, <1>2, <2>1, <2>2, <2>5, <2>6, OthersLoseNothing
<1>5. CASE offline' = offline \cup {i} /\ UNCHANGED inSession
  <2>1. MemoryTypeOK'
    BY <1>1, <1>2, <1>5 DEF MemoryTypeOK, inSession
  <2>2. OfflineApart'
    BY <1>1, <1>2, <1>3, <1>5 DEF OfflineApart, inSession, MemoryTypeOK
  <2>3. Missed' = Missed \cup {i}
    BY <1>2, <1>5 DEF Missed
  <2> QED
    BY <1>1, <1>2, <1>5, <2>1, <2>2, <2>3, OthersLoseNothing DEF inSession, MemoryInv, InHand
<1> QED
  BY <1>4, <1>5 DEF SaveLocally

(* Every step of a call, of a sync, and the start of one. *)
LEMMA CallsKeep ==
  ASSUME MemoryInv, NEW p \in Sessions, MemoryStep(p) \/ StartSync(p)
  PROVE  MemoryInv'
<1> DEFINE Calls(what, hand, rest) ==
             /\ what \in Doings /\ hand \in SUBSET Items /\ rest \in SUBSET Items
             /\ Becomes(p, what, hand, rest)
             /\ Cardinality(hand) = IF what \in {"idle", "sync"} THEN 0 ELSE 1
             /\ hand \subseteq local /\ rest \subseteq local
             /\ hand \subseteq carrying[p] \cup toSync[p] /\ rest \subseteq toSync[p] \cup outbox
             /\ what = "unqueue" => hand \subseteq remote'
<1>1. MemoryTypeOK /\ InHand(p) /\ Cardinality({}) = 0
  BY FS_EmptySet DEF MemoryInv
<1>2. /\ carrying[p] \in SUBSET Items /\ toSync[p] \in SUBSET Items
      /\ carrying[p] \subseteq local /\ toSync[p] \subseteq local
      /\ outbox \subseteq local /\ local \subseteq Items /\ remote \subseteq Items
      /\ doing[p] = "unqueue" => carrying[p] \subseteq remote
      /\ doing[p] = "send" => Cardinality(carrying[p]) = 1
  BY <1>1 DEF MemoryTypeOK, InHand
<1>3. UNCHANGED <<up, local, outages, losses, offline, cutOff>> /\ Missed' = Missed
  BY DEF Missed, missed, MemoryStep, StartSync, SendOk, SendFails, Queue, SyncSend, SyncFails, SyncRemove, stores
<1>4. ASSUME NEW what, NEW hand, NEW rest, Calls(what, hand, rest),
             remote \subseteq remote', remote' \subseteq remote \cup carrying[p] \cup toSync[p],
             outbox' \subseteq outbox \cup carrying[p], outbox \subseteq outbox' \cup remote',
             doing[p] \in {"send", "queue"} =>
               \/ carrying[p] \subseteq remote' \cup outbox'
               \/ what = "queue" /\ hand = carrying[p]
      PROVE  MemoryInv'
  <2>1. /\ attached' \in [Sessions -> {"closed", "letta", "none"}]
        /\ doing' \in [Sessions -> Doings]
        /\ carrying' \in [Sessions -> SUBSET Items] /\ toSync' \in [Sessions -> SUBSET Items]
        /\ doing'[p] = what /\ carrying'[p] = hand /\ toSync'[p] = rest
        /\ \A q \in Sessions \ {p} :
             doing'[q] = doing[q] /\ carrying'[q] = carrying[q] /\ toSync'[q] = toSync[q]
        /\ \A q \in Sessions :
             Cardinality(carrying'[q]) = IF doing'[q] \in {"idle", "sync"} THEN 0 ELSE 1
    BY <1>1, <1>4, HandTyped
  <2>2. remote' \subseteq Items /\ outbox' \subseteq local
    BY <1>2, <1>4
  <2>3. MemoryTypeOK'
    BY <1>1, <1>3, <2>1, <2>2 DEF MemoryTypeOK, Doings
  <2>4. OfflineApart'
    BY <1>3, <1>4, <2>1, StaysApart
  <2> QED
    BY <1>3, <1>4, <2>1, <2>3, <2>4, OthersLoseNothing
<1>5. CASE SendOk(p)
  <2>1. Calls("idle", {}, {})
    BY <1>1, <1>5 DEF SendOk, Doings
  <2>2. remote' = remote \cup carrying[p] /\ outbox' = outbox
    BY <1>5 DEF SendOk
  <2> HIDE DEF Calls
  <2> QED
    BY <1>2, <1>4, <2>1, <2>2
<1>6. CASE \E stored \in BOOLEAN : SendFails(p, stored)
  <2>1. Calls("queue", carrying[p], {})
    BY <1>2, <1>6 DEF SendFails, Doings
  <2>2. /\ remote \subseteq remote' /\ remote' \subseteq remote \cup carrying[p]
        /\ outbox' = outbox
    BY <1>2, <1>6 DEF SendFails
  <2> HIDE DEF Calls
  <2> QED
    BY <1>2, <1>4, <2>1, <2>2
<1>7. CASE Queue(p)
  <2>1. Calls("idle", {}, {})
    BY <1>1, <1>7 DEF Queue, Doings
  <2>2. outbox' = outbox \cup carrying[p] /\ remote' = remote
    BY <1>7 DEF Queue
  <2> HIDE DEF Calls
  <2> QED
    BY <1>2, <1>4, <2>1, <2>2
<1>8. CASE SyncSend(p)
  <2>1. PICK i \in toSync[p] :
          remote' = remote \cup {i} /\ Becomes(p, "unqueue", {i}, toSync[p] \ {i})
    BY <1>8 DEF SyncSend
  <2>2. Calls("unqueue", {i}, toSync[p] \ {i})
    BY <1>2, <2>1, OneItem DEF Doings
  <2>3. outbox' = outbox /\ doing[p] = "sync"
    BY <1>8 DEF SyncSend
  <2> HIDE DEF Calls
  <2> QED
    BY <1>2, <1>4, <2>1, <2>2, <2>3
<1>9. CASE SyncFails(p)
  <2>1. Calls("idle", {}, {})
    BY <1>1, <1>9 DEF SyncFails, Doings
  <2>2. /\ remote \subseteq remote' /\ remote' \subseteq remote \cup toSync[p]
        /\ outbox' = outbox /\ doing[p] = "sync"
    BY <1>2, <1>9 DEF SyncFails
  <2> HIDE DEF Calls
  <2> QED
    BY <1>2, <1>4, <2>1, <2>2
<1>10. CASE SyncRemove(p)
  <2>1. PICK what \in {"idle", "sync"} : Becomes(p, what, {}, toSync[p])
    BY <1>10 DEF SyncRemove
  <2>2. Calls(what, {}, toSync[p])
    BY <1>1, <1>2, <2>1 DEF Doings
  <2>3. /\ outbox' = outbox \ carrying[p] /\ remote' = remote /\ doing[p] = "unqueue"
    BY <1>10 DEF SyncRemove
  <2> HIDE DEF Calls
  <2> QED
    BY <1>2, <1>4, <2>2, <2>3
<1>11. CASE StartSync(p)
  <2>1. Calls("sync", {}, outbox)
    BY <1>1, <1>2, <1>11 DEF StartSync, Doings
  <2>2. outbox' = outbox /\ remote' = remote /\ doing[p] = "idle"
    BY <1>11 DEF StartSync, stores, Idle
  <2> HIDE DEF Calls
  <2> QED
    BY <1>2, <1>4, <2>1, <2>2
<1> QED
  BY <1>5, <1>6, <1>7, <1>8, <1>9, <1>10, <1>11 DEF MemoryStep

(* A process that is killed leaves behind only what it could not queue.     *)
LEMMA KillKeepsMemory ==
  ASSUME MemoryInv, NEW p \in Sessions, KillSession(p)
  PROVE  MemoryInv'
<1>1. /\ MemoryTypeOK /\ InHand(p)
      /\ Cardinality({}) = 0
  BY FS_EmptySet DEF MemoryInv
<1>2. /\ UNCHANGED <<up, remote, local, outbox, outages>>
      /\ UNCHANGED offline /\ losses < MaxLosses /\ losses' = losses + 1
      /\ cutOff' = cutOff \cup (IF doing[p] \in {"send", "queue"} THEN carrying[p] ELSE {})
  BY DEF KillSession, stores
<1>3. /\ attached' \in [Sessions -> {"closed", "letta", "none"}]
      /\ doing' \in [Sessions -> Doings]
      /\ carrying' \in [Sessions -> SUBSET Items] /\ toSync' \in [Sessions -> SUBSET Items]
      /\ doing'[p] = "idle" /\ carrying'[p] = {} /\ toSync'[p] = {}
      /\ \A q \in Sessions \ {p} :
           doing'[q] = doing[q] /\ carrying'[q] = carrying[q] /\ toSync'[q] = toSync[q]
  BY <1>1 DEF KillSession, MemoryTypeOK, Doings
<1>4. \A q \in Sessions :
        Cardinality(carrying'[q]) = IF doing'[q] \in {"idle", "sync"} THEN 0 ELSE 1
  <2> SUFFICES ASSUME NEW q \in Sessions
               PROVE  Cardinality(carrying'[q]) = IF doing'[q] \in {"idle", "sync"} THEN 0 ELSE 1
    OBVIOUS
  <2>1. CASE q = p
    BY <1>1, <1>3, <2>1
  <2>2. CASE q # p
    BY <1>1, <1>3, <2>2 DEF MemoryTypeOK
  <2> QED
    BY <2>1, <2>2
<1>5. losses' \in 0 .. MaxLosses
  BY <1>1, <1>2, MemoryConstants DEF MemoryTypeOK
<1>6. /\ cutOff' \subseteq local /\ Missed \subseteq Missed'
      /\ doing[p] \in {"send", "queue"} => carrying[p] \subseteq Missed'
  BY <1>1, <1>2 DEF MemoryTypeOK, InHand, Missed
<1>7. MemoryTypeOK'
  BY <1>1, <1>2, <1>3, <1>4, <1>5, <1>6 DEF MemoryTypeOK, Doings
<1>8. OfflineApart'
  BY <1>2, <1>3, StaysApart
<1> QED
  BY <1>2, <1>3, <1>6, <1>7, <1>8, OthersLoseNothing

(* Sessions open and close, the server goes and comes. *)
LEMMA AroundKeepsMemory ==
  ASSUME MemoryInv,
         (\E p \in Sessions : OpenMemory(p) \/ CloseMemory(p)) \/ GoDown \/ ComeBack
  PROVE  MemoryInv'
<1>1. UNCHANGED <<remote, local, outbox, doing, carrying, toSync, losses, offline, cutOff>>
  BY DEF OpenMemory, CloseMemory, GoDown, ComeBack, stores, inSession, missed
<1>2. attached' \in [Sessions -> {"closed", "letta", "none"}]
  BY DEF OpenMemory, CloseMemory, GoDown, ComeBack, inSession, MemoryInv, MemoryTypeOK
<1>3. up' \in BOOLEAN
  BY DEF OpenMemory, CloseMemory, GoDown, ComeBack, stores, MemoryInv, MemoryTypeOK
<1>4. outages' \in 0 .. MaxOutages
  BY MemoryConstants
  DEF OpenMemory, CloseMemory, GoDown, ComeBack, MemoryInv, MemoryTypeOK
<1> QED
  BY <1>1, <1>2, <1>3, <1>4 DEF MemoryInv, MemoryTypeOK, NoneLost, Mirrored, OfflineApart, InHand

(* At first there is nothing to forget.                                     *)
LEMMA MemoryStart == MemoryInit => MemoryInv
<1> SUFFICES ASSUME MemoryInit PROVE MemoryInv
  OBVIOUS
<1>1. Cardinality({}) = 0 /\ 0 \in 0 .. MaxOutages /\ 0 \in 0 .. MaxLosses
  BY FS_EmptySet, MemoryConstants
<1> QED
  BY <1>1 DEF MemoryInit, MemoryInv, MemoryTypeOK, NoneLost, Mirrored, OfflineApart, InHand

(* No step of any session forgets an item. *)
LEMMA MemoryKept == MemoryInv /\ [MemoryNext]_memoryVars => MemoryInv'
<1> SUFFICES ASSUME MemoryInv, [MemoryNext]_memoryVars PROVE MemoryInv'
  OBVIOUS
<1>1. CASE MemoryNext
  BY <1>1, SavesKeep, CallsKeep, KillKeepsMemory, AroundKeepsMemory DEF MemoryNext
<1>2. CASE UNCHANGED memoryVars
  BY <1>2
  DEF memoryVars, stores, inSession, missed, MemoryInv, MemoryTypeOK, NoneLost, Mirrored, OfflineApart, InHand
<1> QED
  BY <1>1, <1>2

(* What the mirror lacks, and what it has, for any number of sessions that  *)
(* save and sync at once, whatever is lost or killed.                       *)
THEOREM MemoryCorrect == MemorySpec => []MemoryInv
BY MemoryStart, MemoryKept, PTL DEF MemorySpec

(* The outbox, the server and what each session has in hand are of their    *)
(* types: a session carries one item at a time (letta_store.py).            *)
THEOREM MemoryTypesKept == MemorySpec => []MemoryTypeOK
<1>1. MemoryInv => MemoryTypeOK
  BY DEF MemoryInv
<1> QED
  BY <1>1, MemoryCorrect, PTL

(* Syncs, outages and half-done calls lose nothing, a kill loses what it    *)
(* interrupts, and what was saved without the server is never queued        *)
(* (store.py, save and sync).                                               *)
THEOREM MirrorLacksOnly == MemorySpec => []MirrorGaps
<1>1. MemoryInv => MirrorGaps
  BY DEF MemoryInv, OfflineApart, MirrorGaps, Mirrored
<1> QED
  BY <1>1, MemoryCorrect, PTL

-----------------------------------------------------------------------------
(* The timeline                                                             *)

(* The models whose event the observer has already appended. *)
Logged(o) == Events(o) \ toLog[o]

(* What makes LogMatchesRecord inductive: what the log says while the       *)
(* holder of the lock is between the first event and the record.            *)
Halfway(o) ==
  /\ toLog[o] \subseteq Events(o)
  /\ pcs[o] = "write" => toLog[o] = {}
  /\ \A m \in Logged(o) : m \notin skewed /\ logged[m] = snapshot[o][m]
  /\ \A m \in Models \ (skewed \cup Logged(o)) : logged[m] = record[m]

GpuInv ==
  /\ GpuTypeOK
  /\ LogMatchesRecord
  /\ \A o \in Observers : flock = o => Halfway(o)

(* An event never says that a model is stopping. *)
LEMMA EventIsRecorded ==
  ASSUME GpuTypeOK, NEW o \in Observers, NEW m \in Events(o)
  PROVE  snapshot[o][m] \in Recorded /\ m \in Models
BY DEF Events, HasEvent, GpuTypeOK, Seen

(* An observer looks at the server before it has the lock,                  *)
LEMMA LookKeeps ==
  ASSUME GpuInv, NEW o \in Observers, Look(o)
  PROVE  GpuInv'
<1>1. GpuTypeOK'
  BY DEF Look, gpuFiles, GpuInv, GpuTypeOK
<1>2. flock # o /\ UNCHANGED <<flock, record, logged, skewed, toLog>>
  BY DEF Look, gpuFiles, GpuInv, GpuTypeOK
<1>3. \A q \in Observers \ {o} : snapshot'[q] = snapshot[q] /\ pcs'[q] = pcs[q]
  BY DEF Look, GpuInv, GpuTypeOK
<1>4. \A q \in Observers : flock' = q => Halfway(q)'
  BY <1>2, <1>3 DEF GpuInv, Halfway, Logged, Events
<1> QED
  BY <1>1, <1>2, <1>4 DEF GpuInv, LogMatchesRecord

(* has it, and compares with the record that is there now,                  *)
LEMMA EnterKeeps ==
  ASSUME GpuInv, NEW o \in Observers, Enter(o)
  PROVE  GpuInv'
<1>1. /\ flock = "nobody" /\ flock' = o /\ pcs[o] = "lock"
      /\ UNCHANGED <<server, record, exists, logged, snapshot, changes, crashes, skewed>>
      /\ toLog' = [toLog EXCEPT ![o] = Events(o)]
      /\ pcs' = [pcs EXCEPT ![o] = IF Events(o) = {} THEN "write" ELSE "append"]
  BY DEF Enter, gpuFiles
<1>2. Events(o) \subseteq Models /\ Events(o)' = Events(o)
  BY <1>1 DEF Events
<1>3. GpuTypeOK'
  <2>1. toLog' \in [Observers -> SUBSET Models]
    BY <1>1, <1>2 DEF GpuInv, GpuTypeOK
  <2>2. pcs' \in [Observers -> {"idle", "lock", "append", "write"}]
    BY <1>1 DEF GpuInv, GpuTypeOK
  <2>3. \A q \in Observers : pcs[q] \notin {"append", "write"}
    BY <1>1, TimelineConstants DEF GpuInv, GpuTypeOK
  <2>4. \A q \in Observers : pcs'[q] \in {"append", "write"} <=> flock' = q
    BY <1>1, <2>3 DEF GpuInv, GpuTypeOK
  <2> QED
    BY <1>1, <2>1, <2>2, <2>4 DEF GpuInv, GpuTypeOK
<1>4. toLog'[o] = Events(o) /\ (pcs'[o] = "write" => Events(o) = {})
  BY <1>1 DEF GpuInv, GpuTypeOK
<1>5. Halfway(o)'
  BY <1>1, <1>2, <1>4 DEF Halfway, Logged, GpuInv, LogMatchesRecord
<1>6. ~(flock' = "nobody")
  BY <1>1, TimelineConstants
<1> QED
  BY <1>1, <1>3, <1>5, <1>6 DEF GpuInv, LogMatchesRecord

(* logs one change after another,                                           *)
LEMMA AppendKeeps ==
  ASSUME GpuInv, NEW o \in Observers, NEW m \in Models, Append1(o, m)
  PROVE  GpuInv'
<1>1. /\ pcs[o] = "append" /\ m \in toLog[o]
      /\ UNCHANGED <<server, record, exists, snapshot, flock, changes, crashes>>
      /\ logged' = [logged EXCEPT ![m] = snapshot[o][m]]
      /\ skewed' = skewed \ {m}
      /\ toLog' = [toLog EXCEPT ![o] = toLog[o] \ {m}]
      /\ pcs' = [pcs EXCEPT ![o] = IF toLog[o] = {m} THEN "write" ELSE "append"]
  BY DEF Append1
<1>2. GpuTypeOK /\ flock = o /\ Halfway(o)
  BY <1>1 DEF GpuInv, GpuTypeOK
<1>3. m \in Events(o) /\ snapshot[o][m] \in Recorded /\ Events(o)' = Events(o)
  BY <1>1, <1>2, EventIsRecorded DEF Halfway, Events
<1>4. GpuTypeOK'
  <2>1. logged' \in [Models -> Recorded]
    BY <1>1, <1>2, <1>3 DEF GpuTypeOK
  <2>2. toLog' \in [Observers -> SUBSET Models]
    BY <1>1, <1>2 DEF GpuTypeOK
  <2>3. pcs' \in [Observers -> {"idle", "lock", "append", "write"}]
    BY <1>1, <1>2 DEF GpuTypeOK
  <2>4. \A q \in Observers : pcs'[q] \in {"append", "write"} <=> flock' = q
    BY <1>1, <1>2 DEF GpuTypeOK
  <2> QED
    BY <1>1, <1>2, <2>1, <2>2, <2>3, <2>4 DEF GpuTypeOK
<1>5. /\ toLog'[o] = toLog[o] \ {m} /\ (pcs'[o] = "write" => toLog[o] = {m})
      /\ logged'[m] = snapshot[o][m] /\ \A n \in Models \ {m} : logged'[n] = logged[n]
  BY <1>1, <1>2 DEF GpuTypeOK
<1>6. Logged(o)' = Logged(o) \cup {m}
  BY <1>3, <1>5 DEF Logged
<1>7. Halfway(o)'
  <2>1. \A n \in Logged(o)' : n \notin skewed' /\ logged'[n] = snapshot'[o][n]
    <3> SUFFICES ASSUME NEW n \in Logged(o) \cup {m}
                 PROVE  n \notin skewed' /\ logged'[n] = snapshot[o][n]
      BY <1>1, <1>6
    <3>1. CASE n = m
      BY <1>1, <1>5, <3>1
    <3>2. CASE n # m
      <4>1. n \in Models
        BY <3>2 DEF Logged, Events
      <4> QED
        BY <1>1, <1>2, <1>5, <3>2, <4>1 DEF Halfway
    <3> QED
      BY <3>1, <3>2
  <2>2. \A n \in Models \ (skewed' \cup Logged(o)') : logged'[n] = record'[n]
    BY <1>1, <1>2, <1>5, <1>6 DEF Halfway
  <2>3. toLog'[o] \subseteq Events(o)'
    BY <1>2, <1>3, <1>5 DEF Halfway
  <2>4. pcs'[o] = "write" => toLog'[o] = {}
    BY <1>5
  <2> QED
    BY <2>1, <2>2, <2>3, <2>4 DEF Halfway
<1>8. ~(flock' = "nobody")
  BY <1>1, <1>2, TimelineConstants
<1> QED
  BY <1>1, <1>2, <1>4, <1>7, <1>8 DEF GpuInv, LogMatchesRecord

(* and writes the record, which is then what was logged.                    *)
LEMMA WriteKeeps ==
  ASSUME GpuInv, NEW o \in Observers, WriteRecord(o)
  PROVE  GpuInv'
<1>1. /\ pcs[o] = "write" /\ flock' = "nobody"
      /\ pcs' = [pcs EXCEPT ![o] = "idle"]
      /\ UNCHANGED <<server, logged, snapshot, toLog, changes, crashes>>
  BY DEF WriteRecord
<1>2. GpuTypeOK /\ flock = o /\ Halfway(o) /\ toLog[o] = {}
  BY <1>1 DEF GpuInv, GpuTypeOK, Halfway
<1>3. Logged(o) = Events(o)
  BY <1>2 DEF Logged
<1>4. CASE /\ Changed(o) \/ ~exists
           /\ record' = [m \in Models |-> Now(snapshot[o][m], record[m])]
           /\ skewed' = skewed \cup
                {m \in Models : snapshot[o][m] = "stopping" /\ record[m] = "gone"}
           /\ exists' = TRUE
  <2>1. \A m \in Models : snapshot[o][m] \in Seen /\ record[m] \in Recorded
    BY <1>2 DEF GpuTypeOK
  <2>2. \A m \in Models : Now(snapshot[o][m], record[m]) \in Recorded
    BY <2>1 DEF Now, Seen, Recorded
  <2>3. record' \in [Models -> Recorded] /\ skewed' \subseteq Models
    BY <1>2, <1>4, <2>2 DEF GpuTypeOK
  <2>4. ASSUME NEW m \in Models \ skewed' PROVE logged'[m] = record'[m]
    <3>1. m \notin skewed /\ record'[m] = Now(snapshot[o][m], record[m])
      BY <1>4, <2>4
    <3>2. CASE m \in Events(o)
      BY <1>1, <1>2, <1>3, <3>1, <3>2 DEF Halfway, Events, HasEvent, Now
    <3>3. CASE m \notin Events(o)
      <4>1. logged[m] = record[m]
        BY <1>2, <1>3, <3>1, <3>3 DEF Halfway
      <4>2. snapshot[o][m] = "stopping" \/ snapshot[o][m] = record[m]
        BY <3>3 DEF Events, HasEvent
      <4>3. snapshot[o][m] = "stopping" => record[m] # "gone"
        BY <1>4, <2>4
      <4> QED
        BY <1>1, <2>1, <3>1, <4>1, <4>2, <4>3 DEF Now, Recorded
    <3> QED
      BY <3>2, <3>3
  <2> QED
    BY <1>1, <1>2, <1>4, <2>3, <2>4, TimelineConstants
    DEF GpuInv, GpuTypeOK, LogMatchesRecord
<1>5. CASE ~(Changed(o) \/ ~exists) /\ UNCHANGED <<record, exists, skewed>>
  <2>1. \A m \in Models \ skewed : logged[m] = record[m]
    BY <1>2, <1>3, <1>5 DEF Changed, Halfway
  <2> QED
    BY <1>1, <1>2, <1>5, <2>1, TimelineConstants DEF GpuInv, GpuTypeOK, LogMatchesRecord
<1> QED
  BY <1>4, <1>5 DEF WriteRecord

(* A kill under the lock parts the log from the record, for the models whose *)
(* event is already there.                                                  *)
LEMMA KillKeepsTimeline ==
  ASSUME GpuInv, NEW o \in Observers, KillObserver(o)
  PROVE  GpuInv'
<1>1. /\ UNCHANGED <<server, record, exists, logged, snapshot, changes>>
      /\ pcs' = [pcs EXCEPT ![o] = "idle"] /\ toLog' = [toLog EXCEPT ![o] = {}]
      /\ crashes < MaxCrashes /\ crashes' = crashes + 1
  BY DEF KillObserver, gpuFiles
<1>2. GpuTypeOK
  BY DEF GpuInv
<1>3. /\ pcs' \in [Observers -> {"idle", "lock", "append", "write"}]
      /\ toLog' \in [Observers -> SUBSET Models] /\ pcs'[o] = "idle"
      /\ \A q \in Observers \ {o} : pcs'[q] = pcs[q] /\ toLog'[q] = toLog[q]
      /\ crashes' \in 0 .. MaxCrashes
  BY <1>1, <1>2, TimelineConstants DEF GpuTypeOK
<1>4. CASE flock = o
  <2>1. flock' = "nobody" /\ skewed' = skewed \cup Logged(o)
    BY <1>4 DEF KillObserver, Logged
  <2>2. Halfway(o) /\ Logged(o) \subseteq Models
    BY <1>4 DEF GpuInv, Logged, Events
  <2>3. GpuTypeOK'
    BY <1>1, <1>2, <1>3, <1>4, <2>1, <2>2, TimelineConstants DEF GpuTypeOK
  <2>4. LogMatchesRecord'
    BY <1>1, <2>1, <2>2 DEF LogMatchesRecord, Halfway
  <2> QED
    BY <2>1, <2>3, <2>4, TimelineConstants DEF GpuInv
<1>5. CASE flock # o
  <2>1. UNCHANGED <<flock, skewed>>
    BY <1>5 DEF KillObserver
  <2>2. GpuTypeOK'
    BY <1>1, <1>2, <1>3, <1>5, <2>1 DEF GpuTypeOK
  <2>3. \A q \in Observers : flock' = q => Halfway(q)'
    BY <1>1, <1>3, <1>5, <2>1 DEF GpuInv, Halfway, Logged, Events
  <2> QED
    BY <1>1, <2>1, <2>2, <2>3 DEF GpuInv, LogMatchesRecord
<1> QED
  BY <1>4, <1>5

(* What the server loads meanwhile is none of the record's business.        *)
LEMMA ServerKeeps ==
  ASSUME GpuInv, NEW m \in Models, NEW to \in Seen, ServerMoves(m, to)
  PROVE  GpuInv'
<1>1. UNCHANGED <<record, exists, logged, pcs, snapshot, toLog, flock, crashes, skewed>>
  BY DEF ServerMoves, gpuFiles, observing
<1>2. server' \in [Models -> Seen] /\ changes' \in 0 .. MaxChanges
  BY TimelineConstants DEF ServerMoves, GpuInv, GpuTypeOK
<1> QED
  BY <1>1, <1>2 DEF GpuInv, GpuTypeOK, LogMatchesRecord, Halfway, Logged, Events

(* At first nothing is recorded and nothing logged.                         *)
LEMMA GpuStart == GpuInit => GpuInv
<1> SUFFICES ASSUME GpuInit PROVE GpuInv
  OBVIOUS
<1>1. Blank \in [Models -> Recorded] /\ Blank \in [Models -> Seen]
  BY DEF Blank, Recorded, Seen
<1>2. 0 \in 0 .. MaxChanges /\ 0 \in 0 .. MaxCrashes
  BY TimelineConstants
<1>3. GpuTypeOK
  BY <1>1, <1>2, TimelineConstants DEF GpuInit, GpuTypeOK
<1> QED
  BY <1>3, TimelineConstants DEF GpuInit, GpuInv, LogMatchesRecord

(* No step of any observer parts the two. *)
LEMMA TimelineKept == GpuInv /\ [GpuNext]_gpuVars => GpuInv'
<1> SUFFICES ASSUME GpuInv, [GpuNext]_gpuVars PROVE GpuInv'
  OBVIOUS
<1>1. CASE GpuNext
  BY <1>1, LookKeeps, EnterKeeps, AppendKeeps, WriteKeeps, KillKeepsTimeline, ServerKeeps
  DEF GpuNext, Observe
<1>2. CASE UNCHANGED gpuVars
  BY <1>2
  DEF gpuVars, gpuFiles, observing, GpuInv, GpuTypeOK, LogMatchesRecord, Halfway, Logged,
      Events
<1> QED
  BY <1>1, <1>2

(* Outside the lock the record and the log agree about every model that no  *)
(* kill has parted, for any number of observers with stale answers.         *)
THEOREM TimelineCorrect == GpuSpec => []GpuInv
BY GpuStart, TimelineKept, PTL DEF GpuSpec

(* The record, the log and the observers are of their types, and whoever is *)
(* under the lock of the timeline holds it (timeline.py:62).                *)
THEOREM TimelineTypesKept == GpuSpec => []GpuTypeOK
<1>1. GpuInv => GpuTypeOK
  BY DEF GpuInv
<1> QED
  BY <1>1, TimelineCorrect, PTL

(* The log of transitions and the record of the last observation tell the   *)
(* same of every model while no observer is under the lock, unless a kill   *)
(* came between the two (timeline.py:60).                                   *)
THEOREM LogIsTheRecord == GpuSpec => []LogMatchesRecord
<1>1. GpuInv => LogMatchesRecord
  BY DEF GpuInv
<1> QED
  BY <1>1, TimelineCorrect, PTL

-----------------------------------------------------------------------------
(* Packing                                                                  *)

(* The first of a set of numbers.                                           *)
LEMMA FirstNumber ==
  ASSUME NEW T \in SUBSET Nat, T # {}
  PROVE  \E x \in T : \A y \in T : x <= y
<1> DEFINE R == {ss \in Nat \X Nat : ss[1] < ss[2]}
<1>1. IsWellFoundedOn(R, Nat)
  BY NatLessThanWellFounded DEF OpToRel
<1>2. ASSUME NEW x \in Nat, NEW y \in Nat, y < x
      PROVE  <<y, x>> \in R
  BY <1>2
<1> HIDE DEF R
<1>3. PICK x \in T : \A y \in T : ~ (<<y, x>> \in R)
  BY <1>1, WFMin
<1>4. \A y \in T : ~ (y < x)
  BY <1>2, <1>3
<1> QED
  BY <1>4

(* The sum over T as MapThenSumSet folds it: one element after the other.   *)
OneMore(g, T) ==
  IF T = {} THEN 0
  ELSE SizeOf(CHOOSE x \in T : TRUE) + g[T \ {CHOOSE x \in T : TRUE}]

(* It is what g says of every set of at most n sections.                    *)
Sums(g, n) ==
  /\ g \in [SUBSET live -> Int]
  /\ \A T \in SUBSET live : Cardinality(T) <= n => g[T] = OneMore(g, T)

(* The tokens of a text are a number, whatever its length. *)
LEMMA SizeIsNumber ==
  ASSUME PackTypeOK, NEW s \in Slots
  PROVE  SizeOf(s) \in Int
<1>1. text[s].len \in Nat
  BY DEF PackTypeOK
<1> QED
  BY <1>1 DEF SizeOf, Tokens, Larger, Header

(* A sum over n sections is one over n - 1 and one more.                    *)
LEMMA OneMoreSums ==
  ASSUME PackTypeOK, NEW n \in Nat, NEW g, Sums(g, n)
  PROVE  \E h : Sums(h, n + 1)
<1> DEFINE h == [T \in SUBSET live |-> IF Cardinality(T) <= n THEN g[T] ELSE OneMore(g, T)]
<1>1. \A T \in SUBSET live : IsFiniteSet(T) /\ Cardinality(T) \in Nat
  <2>1. IsFiniteSet(Slots)
    BY FS_Interval, PackerConstants DEF Slots
  <2> QED
    BY <2>1, FS_Subset, FS_CardinalityType DEF PackTypeOK
<1>2. ASSUME NEW T \in SUBSET live, T # {}
      PROVE  /\ (CHOOSE x \in T : TRUE) \in T
             /\ T \ {CHOOSE x \in T : TRUE} \in SUBSET live
             /\ Cardinality(T \ {CHOOSE x \in T : TRUE}) = Cardinality(T) - 1
  <2> DEFINE c == CHOOSE x \in T : TRUE
  <2>1. c \in T
    BY <1>2
  <2> HIDE DEF c
  <2>2. Cardinality(T \ {c}) = Cardinality(T) - 1
    BY <1>1, <2>1, FS_RemoveElement
  <2> QED
    BY <2>1, <2>2 DEF c
<1>3. ASSUME NEW T \in SUBSET live
      PROVE  OneMore(g, T) \in Int
  <2>1. CASE T = {}
    BY <2>1 DEF OneMore
  <2>2. CASE T # {}
    <3>1. SizeOf(CHOOSE x \in T : TRUE) \in Int
      BY <1>2, <2>2, SizeIsNumber DEF PackTypeOK
    <3>2. g[T \ {CHOOSE x \in T : TRUE}] \in Int
      BY <1>2, <2>2 DEF Sums
    <3> QED
      BY <2>2, <3>1, <3>2 DEF OneMore
  <2> QED
    BY <2>1, <2>2
<1>4. h \in [SUBSET live -> Int]
  BY <1>3 DEF Sums
<1>5. ASSUME NEW T \in SUBSET live, Cardinality(T) <= n + 1
      PROVE  h[T] = OneMore(h, T)
  <2>1. OneMore(h, T) = OneMore(g, T)
    <3>1. CASE T = {}
      BY <3>1 DEF OneMore
    <3>2. CASE T # {}
      <4> DEFINE rest == T \ {CHOOSE x \in T : TRUE}
      <4>1. rest \in SUBSET live /\ Cardinality(rest) = Cardinality(T) - 1
        BY <1>2, <3>2
      <4>2. Cardinality(rest) <= n
        BY <1>1, <1>5, <4>1
      <4> HIDE DEF rest
      <4>3. h[rest] = g[rest]
        BY <4>1, <4>2
      <4> HIDE DEF h
      <4> QED
        BY <3>2, <4>3 DEF OneMore, rest
    <3> QED
      BY <3>1, <3>2
  <2>2. h[T] = OneMore(g, T)
    BY DEF Sums
  <2> QED
    BY <2>1, <2>2
<1>6. Sums(h, n + 1)
  BY <1>4, <1>5 DEF Sums
<1> QED
  BY <1>6

(* So there is a sum over any number of them. *)
LEMMA SumsThereAre ==
  ASSUME PackTypeOK, NEW m \in Nat
  PROVE  \E g : Sums(g, m)
<1> SUFFICES ASSUME ~ \E g : Sums(g, m) PROVE FALSE
  OBVIOUS
<1> DEFINE Without == {n \in Nat : ~ \E g : Sums(g, n)}
<1>1. PICK n \in Without : \A k \in Without : n <= k
  <2>1. Without \in SUBSET Nat /\ Without # {}
    OBVIOUS
  <2> HIDE DEF Without
  <2> QED
    BY <2>1, FirstNumber
<1>2. n # 0
  <2> DEFINE g == [T \in SUBSET live |-> 0]
  <2>1. \A T \in SUBSET live : Cardinality(T) <= 0 => T = {}
    <3>1. \A T \in SUBSET live : IsFiniteSet(T) /\ Cardinality(T) \in Nat
      <4>1. IsFiniteSet(Slots)
        BY FS_Interval, PackerConstants DEF Slots
      <4> QED
        BY <4>1, FS_Subset, FS_CardinalityType DEF PackTypeOK
    <3>2. \A T \in SUBSET live : Cardinality(T) = 0 <=> T = {}
      BY <3>1, FS_EmptySet
    <3> QED
      BY <3>1, <3>2
  <2>2. Sums(g, 0)
    BY <2>1 DEF Sums, OneMore
  <2> HIDE DEF g
  <2> QED
    BY <2>2
<1>3. n - 1 \in Nat /\ n - 1 \notin Without /\ n = (n - 1) + 1
  BY <1>1, <1>2
<1>4. PICK g : Sums(g, n - 1)
  BY <1>3
<1>5. \E h : Sums(h, (n - 1) + 1)
  BY <1>3, <1>4, OneMoreSums
<1> QED
  BY <1>1, <1>3, <1>5

(* The tokens of the sections are a number.                                 *)
LEMMA TotalIsNumber ==
  ASSUME PackTypeOK
  PROVE  Total \in Int
<1> DEFINE Right(iter) == iter = [T \in SUBSET live |->
                                   IF T = {} THEN 0
                                   ELSE SizeOf(CHOOSE x \in T : TRUE)
                                          + iter[T \ {CHOOSE x \in T : TRUE}]]
           F == CHOOSE iter : Right(iter)
<1>1. Total = F[live]
  BY DEF Total, MapThenSumSet, MapThenFoldSet
<1>2. \A T \in SUBSET live : IsFiniteSet(T) /\ Cardinality(T) \in Nat
  <2>1. IsFiniteSet(Slots)
    BY FS_Interval, PackerConstants DEF Slots
  <2> QED
    BY <2>1, FS_Subset, FS_CardinalityType DEF PackTypeOK
<1>3. PICK g : Sums(g, Cardinality(live))
  BY <1>2, SumsThereAre
<1>4. \A T \in SUBSET live : Cardinality(T) <= Cardinality(live)
  BY <1>2, FS_Subset
<1>5. Right(g)
  <2>1. \A T \in SUBSET live : g[T] = OneMore(g, T)
    BY <1>3, <1>4 DEF Sums
  <2>2. g = [T \in SUBSET live |-> g[T]]
    BY <1>3 DEF Sums
  <2>3. g = [T \in SUBSET live |-> OneMore(g, T)]
    BY <2>1, <2>2
  <2> QED
    BY <2>3 DEF OneMore
<1> HIDE DEF Right
<1>6. Right(F)
  BY <1>5
<1> HIDE DEF F
<1>7. PICK f : f = F /\ Right(f)
  BY <1>6
<1>8. \A T \in SUBSET live : f[T] = OneMore(f, T)
  BY <1>7 DEF Right, OneMore
<1>9. \A T \in SUBSET live : f[T] \in Int
  <2> DEFINE Odd == {n \in Nat : \E T \in SUBSET live : Cardinality(T) = n /\ f[T] \notin Int}
  <2>1. CASE Odd # {}
    <3>1. PICK n \in Odd : \A k \in Odd : n <= k
      <4>1. Odd \in SUBSET Nat
        OBVIOUS
      <4> HIDE DEF Odd
      <4> QED
        BY <2>1, <4>1, FirstNumber
    <3>2. PICK T \in SUBSET live : Cardinality(T) = n /\ f[T] \notin Int
      BY <3>1
    <3>3. T # {}
      BY <1>8, <3>2 DEF OneMore
    <3> DEFINE c == CHOOSE x \in T : TRUE
    <3>4. c \in T
      BY <3>3
    <3>5. f[T] = SizeOf(c) + f[T \ {c}]
      BY <1>8, <3>3 DEF OneMore
    <3> HIDE DEF c
    <3>6. Cardinality(T \ {c}) = n - 1
      BY <1>2, <3>2, <3>4, FS_RemoveElement
    <3>7. T \ {c} \in SUBSET live /\ Cardinality(T \ {c}) \in Nat
      BY <1>2
    <3>8. f[T \ {c}] \in Int
      BY <3>1, <3>6, <3>7
    <3>9. SizeOf(c) \in Int
      BY <3>4, SizeIsNumber DEF PackTypeOK
    <3> QED
      BY <3>2, <3>5, <3>8, <3>9
  <2>2. CASE Odd = {}
    <3> SUFFICES ASSUME NEW T \in SUBSET live, f[T] \notin Int PROVE FALSE
      OBVIOUS
    <3>1. Cardinality(T) \in Nat
      BY <1>2
    <3> QED
      BY <2>2, <3>1
  <2> QED
    BY <2>1, <2>2
<1> QED
  BY <1>1, <1>7, <1>9

(* What makes PackTypeOK inductive: the texts are one for each section, and *)
(* a text is nothing but its length and its cut.                            *)
Texts == [len : Nat, cut : Nat \X Nat]
PackInv == PackTypeOK /\ text \in [Slots -> Texts]

(* At first there is no section. *)
LEMMA PackStart == PackInit => PackInv
<1> SUFFICES ASSUME PackInit PROVE PackInv
  OBVIOUS
<1>1. NoCut \in Nat \X Nat
  BY DEF NoCut
<1>2. text \in [Slots -> Texts]
  BY <1>1 DEF PackInit, Texts
<1>3. kind \in [Slots -> [prio : Priorities \cup {1}, mode : Modes]]
  BY DEF PackInit, Modes
<1> QED
  BY <1>2, <1>3 DEF PackInit, PackInv, PackTypeOK, Texts

(* A text that is cut is a text still. *)
LEMMA CutsAreTexts ==
  ASSUME NEW t \in Texts, NEW most \in Nat
  PROVE  CutMiddle(t, most) \in Texts /\ CutTail(t, most) \in Texts
<1>1. t.len \in Nat
  BY DEF Texts
<1>2. \A n \in Int : Digits(n) \in Nat
  BY DEF Digits
<1>3. CASE t.len <= most
  BY <1>3 DEF CutMiddle, CutTail
<1>4. CASE ~(t.len <= most)
  <2>1. most \div 2 \in Nat /\ t.len - 2 * (most \div 2) \in Nat
    BY <1>1, <1>4
  <2> DEFINE keep   == most \div 2
             elided == t.len - 2 * keep
  <2>2. keep \in Nat /\ elided \in Nat
    BY <2>1
  <2> HIDE DEF keep
  <2>3. 2 * keep + 19 + Digits(elided) \in Nat
    BY <1>2, <2>2
  <2>4. CutMiddle(t, most) = [len |-> 2 * keep + 19 + Digits(elided), cut |-> <<keep, elided>>]
    BY <1>4 DEF CutMiddle, keep
  <2>5. CutMiddle(t, most) \in Texts
    BY <2>2, <2>3, <2>4 DEF Texts
  <2>6. most + 18 + Digits(t.len - most) \in Nat
    BY <1>1, <1>2
  <2>7. CutTail(t, most) \in Texts
    BY <1>4, <2>6 DEF CutTail, Texts, NoCut
  <2> QED
    BY <2>5, <2>7
<1> QED
  BY <1>3, <1>4

(* What is wanted of a text is a number of characters. *)
LEMMA CharsAreNumber ==
  ASSUME NEW n \in Int
  PROVE  Chars(n) \in Nat
BY DEF Chars, Larger

(* Packing keeps its types: every text it cuts is one of its sections, and  *)
(* what a section is cut to is a number, whatever is over.                  *)
LEMMA PackKept == PackInv /\ [PackNext]_packVars => PackInv'
<1> SUFFICES ASSUME PackInv, [PackNext]_packVars PROVE PackInv'
  OBVIOUS
<1>1. PackTypeOK /\ text \in [Slots -> Texts]
  BY DEF PackInv
<1>2. Over \in Int
  <2>1. room \in Int
    BY <1>1, PackerConstants DEF PackTypeOK
  <2> QED
    BY <1>1, <2>1, TotalIsNumber DEF Over
<1>3. ASSUME text' \in [Slots -> Texts], kind' \in [Slots -> [prio : Priorities \cup {1}, mode : Modes]],
             phaseOfPack' \in {"idle", "shrink", "drop", "clamp", "done"},
             room' \in Rooms \cup {0}, todo' \subseteq Slots, live' \subseteq Slots
      PROVE  PackInv'
  <2>1. \A s \in Slots : text'[s].len \in Nat /\ text'[s].cut \in Nat \X Nat
    BY <1>3 DEF Texts
  <2> QED
    BY <1>3, <2>1 DEF PackInv, PackTypeOK
<1>4. ASSUME NEW s, NEW t \in Texts, UNCHANGED <<room, kind>>,
             phaseOfPack' = phaseOfPack, todo' \subseteq todo, live' \subseteq live,
             text' = [text EXCEPT ![s] = t]
      PROVE  PackInv'
  <2>1. text' \in [Slots -> Texts]
    BY <1>1, <1>4
  <2> QED
    BY <1>1, <1>3, <1>4, <2>1 DEF PackTypeOK
<1>5. ASSUME UNCHANGED <<room, kind, text>>,
             phaseOfPack' \in {"idle", "shrink", "drop", "clamp", "done"},
             todo' \subseteq Slots, live' \subseteq live
      PROVE  PackInv'
  BY <1>1, <1>3, <1>5 DEF PackTypeOK
<1>6. CASE Shrink
  <2> DEFINE s      == FirstOf(todo)
             target == Larger(Least, SizeOf(s) - Over)
  <2>1. /\ UNCHANGED <<phaseOfPack, room, kind, live>> /\ todo' = todo \ {s}
        /\ \/ text' = text
           \/ text' = [text EXCEPT ![s] = CutTail(@, Chars(target))]
           \/ text' = [text EXCEPT ![s] = CutMiddle(@, Chars(target))]
    BY <1>6 DEF Shrink
  <2>2. CASE text' = text
    <3>1. todo' \subseteq Slots
      BY <1>1, <2>1 DEF PackTypeOK
    <3> QED
      BY <1>1, <1>5, <2>1, <2>2, <3>1 DEF PackTypeOK
  <2>3. CASE s \notin Slots /\ text' # text
    <3>1. \A t : [text EXCEPT ![s] = t] = text
      BY <1>1, <2>3
    <3> QED
      BY <2>1, <2>3, <3>1
  <2>4. CASE s \in Slots /\ text' # text
    <3>1. SizeOf(s) \in Int /\ text[s] \in Texts
      BY <1>1, <2>4, SizeIsNumber
    <3> HIDE DEF s
    <3>2. target \in Int
      BY <1>2, <3>1 DEF Larger, Least
    <3> HIDE DEF target
    <3>3. Chars(target) \in Nat
      BY <3>2, CharsAreNumber
    <3>4. PICK t \in Texts : text' = [text EXCEPT ![s] = t]
      BY <2>1, <2>4, <3>1, <3>3, CutsAreTexts
    <3>5. todo' \subseteq todo /\ live' \subseteq live
      BY <2>1
    <3> QED
      BY <1>4, <2>1, <3>4, <3>5
  <2> QED
    BY <2>2, <2>3, <2>4
<1>7. CASE DropSection
  <2>1. /\ UNCHANGED <<phaseOfPack, room, kind, text>>
        /\ todo' \subseteq todo /\ live' \subseteq live
    BY <1>7 DEF DropSection
  <2> QED
    BY <1>1, <1>5, <2>1 DEF PackTypeOK
<1>8. CASE Clamp
  <2> DEFINE s    == Biggest
             most == Chars(SizeOf(s) - Over)
  <2>1. UNCHANGED <<phaseOfPack, room, kind, todo>>
    BY <1>8 DEF Clamp
  <2>2. CASE live' = live \ {s} /\ UNCHANGED text
    BY <1>1, <1>5, <2>1, <2>2 DEF PackTypeOK
  <2>3. CASE text' = [text EXCEPT ![s] = CutMiddle(@, most)] /\ UNCHANGED live
    <3>1. s \in Slots => text[s] \in Texts /\ most \in Nat
      <4>1. s \in Slots => SizeOf(s) \in Int /\ text[s] \in Texts
        BY <1>1, SizeIsNumber
      <4> HIDE DEF s
      <4> QED
        BY <1>2, <4>1, CharsAreNumber
    <3> HIDE DEF s, most
    <3>2. CASE s \in Slots
      <4>1. CutMiddle(text[s], most) \in Texts
        BY <3>1, <3>2, CutsAreTexts
      <4>2. text' = [text EXCEPT ![s] = CutMiddle(text[s], most)]
        BY <2>3
      <4> QED
        BY <1>4, <2>1, <2>3, <4>1, <4>2
    <3>3. CASE s \notin Slots
      <4>1. text' = text
        BY <1>1, <2>3, <3>3
      <4> QED
        BY <1>1, <1>5, <2>1, <2>3, <4>1 DEF PackTypeOK
    <3> QED
      BY <3>2, <3>3
  <2> QED
    BY <1>8, <2>2, <2>3 DEF Clamp
<1>9. CASE DonePacking
  <2>1. UNCHANGED <<room, kind, text, live>> /\ phaseOfPack' = "done" /\ todo' = {}
    BY <1>9 DEF DonePacking
  <2> QED
    BY <1>1, <1>5, <2>1 DEF PackTypeOK
<1>10. ASSUME NEW next \in {"drop", "clamp"}, GoOn(next) PROVE PackInv'
  BY <1>1, <1>5, <1>10 DEF GoOn, PackTypeOK
<1>11. ASSUME NEW r \in Rooms, NEW kinds \in [Slots -> [prio : Priorities, mode : Modes]],
              NEW lens \in [Slots -> Lengths], BeginPack(r, kinds, lens)
       PROVE  PackInv'
  <2>1. NoCut \in Nat \X Nat
    BY DEF NoCut
  <2>2. \A s \in Slots : lens[s] \in Nat
    BY PackerConstants
  <2>3. text' \in [Slots -> Texts]
    BY <1>11, <2>1, <2>2 DEF BeginPack, Texts
  <2>4. kind' \in [Slots -> [prio : Priorities \cup {1}, mode : Modes]]
    BY <1>11 DEF BeginPack
  <2>5. todo' \subseteq Slots /\ live' \subseteq Slots /\ phaseOfPack' = "shrink" /\ room' = r
    BY <1>11 DEF BeginPack
  <2> QED
    BY <1>3, <2>3, <2>4, <2>5
<1>12. CASE UNCHANGED packVars
  BY <1>1, <1>3, <1>12 DEF packVars, PackTypeOK
<1> QED
  BY <1>6, <1>7, <1>8, <1>9, <1>10, <1>11, <1>12 DEF PackNext, PackStep

(* A text cut to the same length again and again is soon the same text: its *)
(* mark, which counts what is left out, settles in three cuts.  So the      *)
(* clamp, which has no count of its rounds (budget.py:91), does not cut a   *)
(* section for ever to a length it cannot reach, but drops it.              *)
THEOREM CutsSettle ==
  ASSUME NEW t \in Texts, NEW most \in Nat
  PROVE  ~IsCut(CutMiddle(CutMiddle(CutMiddle(t, most), most), most), most)
<1> DEFINE keep == most \div 2
<1>1. keep \in Nat /\ (most = 2 * keep \/ most = 2 * keep + 1)
  OBVIOUS
<1> HIDE DEF keep
<1>2. ASSUME NEW n \in Int PROVE Digits(n) \in 1 .. 4
  BY DEF Digits
<1>3. ASSUME NEW u \in Texts, u.len > most
      PROVE  CutMiddle(u, most) = [len |-> 2 * keep + 19 + Digits(u.len - 2 * keep),
                                   cut |-> <<keep, u.len - 2 * keep>>]
  <2>1. u.len \in Nat
    BY DEF Texts
  <2> QED
    BY <1>3, <2>1 DEF CutMiddle, keep
<1>4. CASE t.len <= most
  BY <1>4 DEF CutMiddle, IsCut
<1>5. CASE ~(t.len <= most)
  <2> DEFINE a == CutMiddle(t, most)
             b == CutMiddle(a, most)
             c == CutMiddle(b, most)
  <2>1. t.len \in Nat /\ t.len > most
    BY <1>5 DEF Texts
  <2>2. a \in Texts /\ b \in Texts /\ c \in Texts
    BY CutsAreTexts
  <2>3. PICK d \in 1 .. 4 : a.len = 2 * keep + 19 + d
    BY <1>1, <1>2, <1>3, <2>1
  <2> HIDE DEF a
  <2>4. a.len > most /\ Digits(a.len - 2 * keep) = 2
    BY <1>1, <2>3 DEF Digits
  <2>5. b.len = 2 * keep + 21
    BY <1>1, <1>3, <2>2, <2>4
  <2> HIDE DEF b
  <2>6. b.len > most /\ b.len - 2 * keep = 21 /\ Digits(21) = 2
    BY <1>1, <2>5 DEF Digits
  <2>7. c = [len |-> 2 * keep + 21, cut |-> <<keep, 21>>]
    BY <1>1, <1>3, <2>2, <2>6
  <2> HIDE DEF c
  <2>8. c.len > most /\ c.len - 2 * keep = 21
    BY <1>1, <2>7
  <2>9. CutMiddle(c, most) = [len |-> 2 * keep + 21, cut |-> <<keep, 21>>]
    BY <1>1, <1>3, <2>2, <2>6, <2>8
  <2>10. ~IsCut(c, most)
    BY <2>7, <2>9 DEF IsCut
  <2> QED
    BY <2>10 DEF a, b, c
<1> QED
  BY <1>4, <1>5

-----------------------------------------------------------------------------
(* Verification                                                             *)

(* While a command runs, or is about to, it is one of those still to run.   *)
ShellInv ==
  /\ ShellTypeOK
  /\ step \in {"start", "wait", "grace", "drain"} => left > 0

(* At first no command runs. *)
LEMMA ShellStart == ShellInit => ShellInv
<1> SUFFICES ASSUME ShellInit PROVE ShellInv
  OBVIOUS
<1>1. 0 \in 0 .. MaxCommands
  BY ShellConstants
<1> QED
  BY <1>1 DEF ShellInit, ShellInv, ShellTypeOK, Alive

(* A command is counted once, whether it was denied or ran, and no helper   *)
(* stays in a group that was killed.                                        *)
LEMMA ShellKept == ShellInv /\ [ShellNext]_shellVars => ShellInv'
<1> SUFFICES ASSUME ShellInv, [ShellNext]_shellVars PROVE ShellInv'
  OBVIOUS
<1> USE ShellConstants
<1>1. CASE DenyCommand
  <2>1. /\ step = "start" /\ left' = left - 1 /\ step' = "over"
        /\ UNCHANGED <<timedOut, bash, homes, holds>>
    BY <1>1 DEF DenyCommand, Reported, world
  <2>2. green' \in BOOLEAN
    BY <1>1 DEF DenyCommand, Reported
  <2> QED
    BY <2>1, <2>2 DEF ShellInv, ShellTypeOK, Alive
<1>2. CASE StartCommand
  BY <1>2 DEF StartCommand, ShellInv, ShellTypeOK, Alive
<1>3. CASE \E late \in BOOLEAN : WaitOver(late)
  BY <1>3 DEF WaitOver, ShellInv, ShellTypeOK, world, Alive
<1>4. CASE KillGroup
  <2>1. /\ homes' \in [Helpers -> {"none", "group", "away"}]
        /\ holds' \in [Helpers -> SUBSET Pipes]
        /\ \A h \in Helpers : homes'[h] # "group" /\ (homes'[h] = "none" => holds'[h] = {})
    BY <1>4 DEF KillGroup, Killed, ShellInv, ShellTypeOK, Alive
  <2> QED
    BY <1>4, <2>1 DEF KillGroup, ShellInv, ShellTypeOK, Alive
<1>5. CASE CollectResult
  BY <1>5 DEF CollectResult, Reported, ShellInv, ShellTypeOK, Alive
<1>6. ASSUME NEW n \in 0 .. MaxCommands, NEW detected \in BOOLEAN, BeginVerification(n, detected)
      PROVE  ShellInv'
  <2>1. /\ left' \in {1, n} /\ UNCHANGED <<timedOut, bash, homes, holds>>
        /\ \/ left' = 0 /\ step' = "over" /\ green' = FALSE
           \/ left' # 0 /\ step' = "start" /\ green' = green
    BY <1>6 DEF BeginVerification, world
  <2>2. left' \in 0 .. MaxCommands
    BY <2>1
  <2>3. green' \in BOOLEAN
    BY <1>6 DEF BeginVerification, ShellInv, ShellTypeOK
  <2> QED
    BY <2>1, <2>2, <2>3 DEF ShellInv, ShellTypeOK, Alive
<1>7. ASSUME NEW h \in Helpers, NEW open \in SUBSET Pipes, StartHelper(h, open)
      PROVE  ShellInv'
  <2>1. step # "drain"
    BY <1>7 DEF StartHelper, ShellInv, ShellTypeOK
  <2> QED
    BY <1>7, <2>1 DEF StartHelper, ShellInv, ShellTypeOK, Alive
<1>8. ASSUME NEW h \in Helpers, LeaveGroup(h) \/ EndHelper(h)
      PROVE  ShellInv'
  BY <1>8 DEF LeaveGroup, EndHelper, ShellInv, ShellTypeOK, Alive
<1>9. ASSUME NEW code \in {"ok", "failed"}, ExitShell(code)
      PROVE  ShellInv'
  BY <1>9 DEF ExitShell, ShellInv, ShellTypeOK, Alive
<1>10. CASE UNCHANGED shellVars
  BY <1>10 DEF shellVars, world, ShellInv, ShellTypeOK, Alive
<1> QED
  BY <1>1, <1>2, <1>3, <1>4, <1>5, <1>6, <1>7, <1>8, <1>9, <1>10 DEF ShellNext, ShellStep

(* What keeps a verification from collecting its result is never a process  *)
(* of the command's group, only one that left it with a pipe open: `once    *)
(* bash exits (or times out) the group is killed, which guarantees the      *)
(* readers reach EOF' (shell.py:149-150) holds of everything else.          *)
OnlyStraysHold == step = "drain" /\ ~Drained => \E h \in Helpers : Stray(h)

(* It holds at every moment, whatever the command starts and leaves behind   *)
(* (run_command).                                                           *)
THEOREM StraysAlone == ShellSpec => []OnlyStraysHold
<1>1. ShellInv => OnlyStraysHold
  <2> SUFFICES ASSUME ShellInv, step = "drain", NEW h \in Helpers, holds[h] # {}
               PROVE  Stray(h)
    BY DEF OnlyStraysHold, Drained
  <2>1. homes[h] \in {"none", "group", "away"} /\ homes[h] # "none" /\ homes[h] # "group"
    BY DEF ShellInv, ShellTypeOK, Alive
  <2> QED
    BY <2>1 DEF Stray
<1> QED
  BY <1>1, ShellStart, ShellKept, PTL DEF ShellSpec

-----------------------------------------------------------------------------
(* Together                                                                 *)

(* Every component keeps its own invariant while another one moves.         *)
MissionsInv ==
  /\ part \in MissionsParts
  /\ ReviewInv /\ DefInv
  /\ MemoryInv /\ GpuInv
  /\ ShellInv /\ PackInv

(* A step of one component is none of the others': what each of them keeps  *)
(* on its own, they keep together.                                          *)
THEOREM MissionsCorrect == MissionsSpec => []MissionsInv
<1>1. MissionsInit => MissionsInv
  BY ReviewStart, DefStart, MemoryStart, GpuStart, ShellStart, PackStart
  DEF MissionsInit, MissionsInv
<1>2. MissionsInv /\ [MissionsNext]_missionsVars => MissionsInv'
  <2> SUFFICES ASSUME MissionsInv, [MissionsNext]_missionsVars PROVE MissionsInv'
    OBVIOUS
  <2>1. /\ [ReviewNext]_reviewVars /\ [DefNext]_defVars
        /\ [MemoryNext]_memoryVars /\ [GpuNext]_gpuVars
        /\ [ShellNext]_shellVars /\ [PackNext]_packVars /\ part' = part
    BY DEF MissionsNext, ReviewPart, DefPart, MemoryPart, GpuPart, ShellPart, PackPart, missionsVars
  <2> QED
    BY <2>1, ReviewKept, DefKept, MemoryKept, TimelineKept, ShellKept, PackKept DEF MissionsInv
<1> QED
  BY <1>1, <1>2, PTL DEF MissionsSpec

(* Whatever a mission passes through, and what it shares with others, stays *)
(* of its type: the texts a prompt is cut to, the commands still to run,    *)
(* the ledger of a review, the budget of questions, the outbox, the record  *)
(* of the GPU.                                                              *)
THEOREM MissionsTypesKept == MissionsSpec => []MissionsTypeOK
<1>1. MissionsInv => MissionsTypeOK
  BY DEF MissionsInv, MissionsTypeOK, ReviewInv, Typed, DefInv, MemoryInv, GpuInv, ShellInv, PackInv
<1> QED
  BY <1>1, MissionsCorrect, PTL

=============================================================================
