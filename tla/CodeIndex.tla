------------------------------ MODULE CodeIndex ------------------------------
(***************************************************************************)
(* What agents find the code with: the symbol map cached under a digest of *)
(* the tree (context/repomap.py), the vectors and the document store of    *)
(* the semantic index (context/indexer.py) and the retriever that fuses    *)
(* them (context/retriever.py).  A file is its content, a version number;  *)
(* users and agents change files at any time.  How the pipeline of the     *)
(* index treats the two stores is the library's, external.                 *)
(***************************************************************************)
EXTENDS Naturals, FiniteSets

CONSTANTS
  Files,         \* bound: paths of the tree
  MaxEdits,      \* bound: changes of a file
  MaxStops       \* bound: kills and failed embeddings

ASSUME IndexConstants == MaxEdits \in Nat /\ MaxStops \in Nat

VARIABLES
  disk,      \* the content of each file, 0 when there is none
  mtimes,    \* when it was written
  mapCache,  \* repomap-cache.json: the digest and the file versions tagged
  vectors,   \* the collection: file and version of each chunk
  docstore,  \* the persisted document store: the version of each file
  job,       \* what the process is doing
  digestOf,  \* the digest it has taken
  documents, \* the files it has read
  edits, stops,
  found,     \* history: what the last lookup, refresh or rebuild answers for
  robbed,    \* history: files whose chunks a job deleted that was then stopped,
             \* while the document store goes on to list them
  tags,      \* history: the tags it returned
  served     \* history: chunks given to an agent: file, lines of, text of

workTree == <<disk, mtimes>>
index     == <<vectors, docstore>>
atWork    == <<job, digestOf, documents>>
history   == <<found, robbed, tags, served>>
indexVars == <<workTree, mapCache, index, atWork, edits, stops, history>>

Versions == 0 .. MaxEdits
Content  == [Files -> Versions]
Nowhere  == [f \in Files |-> 0]
Digest   == [f \in Files |-> IF disk[f] = 0 THEN 0 ELSE mtimes[f]]

IndexTypeOK ==
  /\ disk \in Content /\ mtimes \in Content
  /\ mapCache \in [digest : Content, tags : Content]
  /\ vectors \subseteq Files \X Versions /\ docstore \in Content
  /\ job \in {"idle", "tagging", "saving", "wiping", "wiped", "upsert", "embed", "persist"}
  /\ digestOf \in Content /\ documents \in Content
  /\ edits \in Versions /\ stops \in 0 .. MaxStops
  /\ found \in {"nothing", "map", "index", "rebuilding", "rebuilt"}
  /\ robbed \subseteq Files /\ tags \in Content
  /\ served \subseteq Files \X Versions \X Versions

IndexInit ==
  /\ disk = Nowhere /\ mtimes = Nowhere
  /\ mapCache = [digest |-> Nowhere, tags |-> Nowhere]
  /\ vectors = {} /\ docstore = Nowhere
  /\ job = "idle" /\ digestOf = Nowhere /\ documents = Nowhere
  /\ edits = 0 /\ stops = 0
  /\ found = "nothing" /\ robbed = {} /\ tags = Nowhere /\ served = {}

-----------------------------------------------------------------------------
(* A file is written, put back or removed; what was found may be out of     *)
(* date from now on.                                                        *)
ChangeFile(f, content) ==
  /\ edits < MaxEdits /\ content # disk[f] /\ content <= edits + 1
  /\ edits' = edits + 1
  /\ disk' = [disk EXCEPT ![f] = content] /\ mtimes' = [mtimes EXCEPT ![f] = edits + 1]
  /\ found' = "nothing" /\ served' = {}
  /\ UNCHANGED <<mapCache, index, atWork, stops, robbed, tags>>

-----------------------------------------------------------------------------
(* RepoMap._entries: the digest, then the cache, then the files.  A slip:   *)
(* the digest is kept that the tree has after the files were read.          *)
LookUpSymbols ==
  /\ job = "idle"
  /\ IF mapCache.digest = Digest
     THEN found' = "map" /\ tags' = mapCache.tags /\ UNCHANGED <<job, digestOf>>
     ELSE /\ job' = "tagging" /\ digestOf' = Digest
          /\ found' = "nothing" /\ UNCHANGED tags
  /\ served' = {}
  /\ UNCHANGED <<workTree, mapCache, index, documents, edits, stops, robbed>>

TagFiles ==
  /\ job = "tagging"
  /\ job' = "saving" /\ documents' = disk
  /\ UNCHANGED <<workTree, mapCache, index, digestOf, edits, stops, history>>

DigestAfter == Digest
DigestKept  == digestOf

SaveMap ==
  /\ job = "saving"
  /\ mapCache' = [digest |-> DigestKept, tags |-> documents]
  /\ job' = "idle" /\ tags' = documents
  /\ found' = IF documents = disk /\ digestOf = Digest THEN "map" ELSE "nothing"
  /\ UNCHANGED <<workTree, index, digestOf, documents, edits, stops, robbed, served>>

-----------------------------------------------------------------------------
(* CodebaseIndex.refresh, once the embeddings answer: the files, then the   *)
(* chunks of changed and removed ones deleted, then the new ones added,     *)
(* then the document store written.                                         *)
ReadDocuments(after) ==
  /\ job = after
  /\ job' = "upsert" /\ documents' = disk
  /\ found' = IF after = "wiped" THEN "rebuilding" ELSE "nothing"
  /\ UNCHANGED <<workTree, mapCache, index, digestOf, edits, stops, robbed, tags, served>>

Changes == {f \in Files : documents[f] # docstore[f]}

DeleteChunks ==
  /\ job = "upsert"
  /\ vectors' = {c \in vectors : c[1] \notin Changes \/ docstore[c[1]] = 0}
  /\ job' = "embed"
  /\ UNCHANGED <<workTree, mapCache, docstore, digestOf, documents, edits, stops, history>>

AddChunks ==
  /\ job = "embed"
  /\ vectors' = vectors \cup {<<f, documents[f]>> : f \in {g \in Changes : documents[g] # 0}}
  /\ job' = "persist"
  /\ UNCHANGED <<workTree, mapCache, docstore, digestOf, documents, edits, stops, history>>

PersistDocstore ==
  /\ job = "persist"
  /\ docstore' = documents /\ robbed' = robbed \ Changes
  /\ job' = "idle"
  /\ found' = IF documents # disk THEN "nothing"
              ELSE IF found = "rebuilding" THEN "rebuilt" ELSE "index"
  /\ UNCHANGED <<workTree, mapCache, vectors, digestOf, documents, edits, stops, tags, served>>

(* CodebaseIndex.rebuild deletes the collection, then the document store,   *)
(* and refreshes.                                                           *)
WipeVectors ==
  /\ job = "idle"
  /\ vectors' = {} /\ job' = "wiping" /\ found' = "nothing"
  /\ UNCHANGED <<workTree, mapCache, docstore, digestOf, documents, edits, stops, robbed, tags,
                 served>>

WipeDocstore ==
  /\ job = "wiping"
  /\ docstore' = Nowhere /\ robbed' = {} /\ job' = "wiped"
  /\ UNCHANGED <<workTree, mapCache, vectors, digestOf, documents, edits, stops, found, tags,
                 served>>

(* Killed, or the embeddings fail, before or while they are used: `index    *)
(* refresh skipped'.  A document store torn in writing does not load, which *)
(* is the same as none.                                                     *)
Deleted ==
  CASE job \in {"embed", "persist"} -> Changes
    [] job = "wiping" -> Files
    [] OTHER -> {}

StopJob ==
  /\ job # "idle" /\ stops < MaxStops
  /\ stops' = stops + 1 /\ job' = "idle"
  /\ \/ UNCHANGED docstore /\ robbed' = robbed \cup {f \in Deleted : docstore[f] # 0}
     \/ job = "persist" /\ docstore' = Nowhere /\ robbed' = {}
  /\ found' = IF found = "rebuilding" THEN "nothing" ELSE found
  /\ UNCHANGED <<workTree, mapCache, vectors, digestOf, documents, edits, tags, served>>

-----------------------------------------------------------------------------
(* HybridRetriever.gather: definitions at the lines of the map, and chunks  *)
(* of the index located anew, if their first line still is in the file:     *)
(* `the index ranks; the disk provides'.                                    *)
LiveSnippets(located) == {<<f, disk[f], disk[f]>> : f \in {c[1] : c \in located}}
Gather(located) ==
  /\ job = "idle" /\ found = "map"
  /\ \A c \in located : disk[c[1]] # 0
  /\ served' = LiveSnippets(located)
               \cup {<<f, tags[f], disk[f]>> : f \in {g \in Files : tags[g] # 0 /\ disk[g] # 0}}
  /\ UNCHANGED <<workTree, mapCache, index, atWork, edits, stops, found, robbed, tags>>

IndexNext ==
  \/ \E f \in Files, content \in Versions : ChangeFile(f, content)
  \/ LookUpSymbols \/ TagFiles \/ SaveMap
  \/ ReadDocuments("idle") \/ ReadDocuments("wiped")
  \/ DeleteChunks \/ AddChunks \/ PersistDocstore
  \/ WipeVectors \/ WipeDocstore \/ StopJob
  \/ \E located \in SUBSET vectors : Gather(located)

IndexSpec == IndexInit /\ [][IndexNext]_indexVars

-----------------------------------------------------------------------------
(* Whatever was changed under a map, a refresh or a rebuild, put back to    *)
(* what it was or stopped: one that runs on a tree nobody changes answers   *)
(* for that tree.  Each file is tagged as it is, and the agent gets the     *)
(* lines of the text it is shown.  A rebuild leaves the chunks of the tree  *)
(* and no other (`cache corruption just means a full re-embed',             *)
(* indexer.py:178).  After a refresh each file can be found, but for those  *)
(* whose chunks an earlier job had deleted when it was stopped: unchanged   *)
(* since, they are not added again.                                         *)
LookupsAreCurrent ==
  /\ \A c \in served : c[2] = c[3]
  /\ found = "rebuilt" => vectors = {<<f, disk[f]>> : f \in {g \in Files : disk[g] # 0}}
  /\ \A f \in Files : disk[f] # 0 =>
       /\ found = "map" => tags[f] = disk[f]
       /\ found = "index" => <<f, disk[f]>> \in vectors \/ f \in robbed

=============================================================================
