------------------------------ MODULE SscCache ------------------------------
(***************************************************************************)
(* The on-disk chunk cache of src/src/libhgms/ssc/ssc.go: a ring of        *)
(* ChunkCount chunks in one file (superblock, metadata table, data area),  *)
(* an in-memory index over it, and a process that can be killed between    *)
(* any two writes to the file.  Operations run one at a time here, as they *)
(* do for a single caller; callers that overlap are another model's work.  *)
(*                                                                         *)
(* A crc64 key is an element of HashKeys.  The pair (Len, Checksum) of a   *)
(* MetaEntry is abstracted to the value it was computed from: the checksum *)
(* is taken to tell different values apart.                                *)
(***************************************************************************)
EXTENDS Naturals, Sequences, FiniteSets

CONSTANTS
  Keys,        \* hashes of the names callers use
  FakeKeys,    \* what rand.Int63 returns in findFreeKey; never a caller's hash
  ZeroKey,     \* the hash 0 found in metadata that was never written
  Values,      \* chunk contents
  Empty,       \* the value of length 0
  Torn,        \* content of a chunk whose write was cut short
  Missing,     \* no entry in chunkMap
  Nothing,     \* no value
  ChunkCount,  \* chunks in the file
  HintPeriod,  \* 512 in the code
  HintSlack    \* 520 in the code

HashKeys == Keys \cup FakeKeys \cup {ZeroKey}
Chunks == 0 .. ChunkCount - 1
MetaEntry == [key : HashKeys, sum : Values]
ChunkmapEntry == [chunk : Chunks, dirty : BOOLEAN]
ZeroMeta == [key |-> ZeroKey, sum |-> Empty]

ASSUME SizesAssumption ==
  /\ ChunkCount \in Nat \ {0}
  /\ HintPeriod \in Nat \ {0}
  /\ HintSlack \in Nat

ASSUME ValuesAssumption ==
  /\ Empty \in Values
  /\ Torn \notin Values
  /\ Nothing \notin Values \cup (HashKeys \X Values)
  /\ Missing \notin Values \cup ChunkmapEntry

ASSUME KeysAssumption ==
  /\ Keys \cap FakeKeys = {}
  /\ ZeroKey \notin Keys \cup FakeKeys

VARIABLES
  file,       \* what is on disk: "absent", "superblock" (not yet truncated), "full"
  diskHint,   \* ChunkPointerHint of the superblock on disk
  diskMeta,   \* metadata table on disk
  diskData,   \* data area on disk
  metaMap,    \* Cache.metaMap
  chunkMap,   \* Cache.chunkMap, Missing where the Go map has no entry
  nextChunk,  \* Cache.nextChunk
  pc,         \* where the process is
  pending,    \* the value an Add in progress has yet to write, or Nothing
  reply,      \* the last answer given to a caller
  fifo,       \* history: keys this run added, the last ChunkCount of them
  hinted      \* history: chunks filled since this run wrote the superblock, or Nothing

disk == <<file, diskHint, diskMeta, diskData>>
memory == <<metaMap, chunkMap, nextChunk>>
history == <<fifo, hinted>>
vars == <<disk, memory, pc, pending, reply, history>>

-----------------------------------------------------------------------------
(* Helpers of the code *)

\* chunkMap[key].chunk: a Go map yields the zero value for an absent key.
ChunkOf(key) == IF chunkMap[key] = Missing THEN 0 ELSE chunkMap[key].chunk

\* The key set of the Go map m.
Mapped(m) == {k \in HashKeys : m[k] # Missing}

\* Whether the bytes read back from a chunk have the checksum of its entry:
\* an entry of length 0 reads nothing and always matches.
Intact(meta, data) == meta.sum = Empty \/ data = meta.sum

\* findFreeKey(hint) when `used' are the keys of chunkMap.
FreeKeysUnchecked(hint, used) == {hint}
FreeKeys(hint, used) == IF hint \notin used THEN {hint} ELSE FakeKeys \ used

\* The chunk a run starts at when it finds this hint in the superblock.
ResumeUnbounded(hint) == hint
Resume(hint) == IF hint < ChunkCount THEN hint ELSE 0

\* The chunk after c in the ring.
AdvancePastEnd(c) == IF c + 1 > ChunkCount THEN 0 ELSE c + 1
Advance(c) == IF c + 1 >= ChunkCount THEN 0 ELSE c + 1

\* The pointer replaceMeta saves in the superblock.
HintWithoutSlack == nextChunk
Hint == nextChunk + HintSlack

\* chunkMap after replaceMeta has moved `chunk' from oldKey to newKey.
RekeyedKeepingOld(oldKey, newKey, chunk, isDirty) ==
  [chunkMap EXCEPT ![newKey] = [chunk |-> chunk, dirty |-> isDirty]]
Rekeyed(oldKey, newKey, chunk, isDirty) ==
  [chunkMap EXCEPT ![oldKey] = Missing,
                   ![newKey] = [chunk |-> chunk, dirty |-> isDirty]]

\* The entry Get may serve: a dirty one only if its checksum is right.
ServableUnverified(k) == chunkMap[k] # Missing
Servable(k) ==
  /\ chunkMap[k] # Missing
  /\ chunkMap[k].dirty => Intact(metaMap[chunkMap[k].chunk], diskData[chunkMap[k].chunk])

-----------------------------------------------------------------------------
(* New / openDbFile, and the end of a run *)

Stopped ==
  /\ pc' = "closed"
  /\ metaMap' = [c \in Chunks |-> ZeroMeta]
  /\ chunkMap' = [k \in HashKeys |-> Missing]
  /\ nextChunk' = 0
  /\ pending' = Nothing
  /\ fifo' = <<>>
  /\ hinted' = Nothing
  /\ UNCHANGED reply

Init ==
  /\ file = "absent"
  /\ diskHint = 0
  /\ diskMeta = [c \in Chunks |-> ZeroMeta]
  /\ diskData = [c \in Chunks |-> Empty]
  /\ metaMap = [c \in Chunks |-> ZeroMeta]
  /\ chunkMap = [k \in HashKeys |-> Missing]
  /\ nextChunk = 0
  /\ pc = "closed"
  /\ pending = Nothing
  /\ reply = [kind |-> "none", key |-> ZeroKey, val |-> Nothing]
  /\ fifo = <<>>
  /\ hinted = Nothing

\* An empty or new file gets a pristine superblock ...
Create ==
  /\ pc = "closed" /\ file = "absent"
  /\ pc' = "creating"
  /\ file' = "superblock"
  /\ UNCHANGED <<diskHint, diskMeta, diskData, memory, pending, reply, history>>

\* ... and is then extended to its full size.
Truncate ==
  /\ pc = "creating"
  /\ pc' = "loading"
  /\ file' = "full"
  /\ UNCHANGED <<diskHint, diskMeta, diskData, memory, pending, reply, history>>

\* A file of the expected size with a matching superblock is accepted.
OpenExisting ==
  /\ pc = "closed" /\ file = "full"
  /\ pc' = "loading"
  /\ UNCHANGED <<disk, memory, pending, reply, history>>

\* A file of any other size is ErrCorruptedDb.
OpenRefused ==
  /\ pc = "closed" /\ file = "superblock"
  /\ pc' = "refused"
  /\ UNCHANGED <<disk, memory, pending, reply, history>>

\* Maps the metadata into memory: a key already taken by a lower chunk is
\* replaced by a random one, in memory only, and every entry is dirty.
Load ==
  /\ pc = "loading"
  /\ \E key \in [Chunks -> FakeKeys \cup {diskMeta[c].key : c \in Chunks}] :
       /\ \A c \in Chunks :
            key[c] \in FreeKeys(diskMeta[c].key, {key[d] : d \in 0 .. c - 1})
       /\ metaMap' = [c \in Chunks |-> [key |-> key[c], sum |-> diskMeta[c].sum]]
       /\ chunkMap' = [k \in HashKeys |->
            IF \E c \in Chunks : key[c] = k
              THEN [chunk |-> CHOOSE c \in Chunks : key[c] = k, dirty |-> TRUE]
              ELSE Missing]
  /\ nextChunk' = Resume(diskHint)
  /\ pc' = "idle"
  /\ UNCHANGED <<disk, pending, reply, history>>

\* Close, or the process ending between two calls.
Close ==
  /\ pc \in {"idle", "refused", "panic"}
  /\ Stopped
  /\ UNCHANGED disk

\* The process is killed in the middle of a call.  A data write in progress
\* leaves the chunk untouched or torn.
Crash ==
  /\ pc \in {"creating", "loading", "hint", "data"}
  /\ Stopped
  /\ \/ UNCHANGED diskData
     \/ /\ pc = "data" /\ pending # Empty /\ diskData[nextChunk] # pending
        /\ diskData' = [diskData EXCEPT ![nextChunk] = Torn]
  /\ UNCHANGED <<file, diskHint, diskMeta>>

-----------------------------------------------------------------------------
(* Get, Add and replaceMeta *)

\* What replaceMeta leads to once its writes are done: it panics if the index
\* lost or gained an entry, else Add writes its data and Get returns.
AfterReplace(map, value) ==
  IF Cardinality(Mapped(map)) # ChunkCount THEN "panic"
  ELSE IF value = Nothing THEN "idle" ELSE "data"

\* replaceMeta up to the write of the metadata entry.
ReplaceMeta(oldKey, newMeta, isDirty) ==
  LET chunk == ChunkOf(oldKey) IN
  /\ chunkMap' = Rekeyed(oldKey, newMeta.key, chunk, isDirty)
  /\ metaMap' = [metaMap EXCEPT ![chunk] = newMeta]
  /\ diskMeta' = [diskMeta EXCEPT ![chunk] = newMeta]
  /\ pc' = IF chunk % HintPeriod = 0 THEN "hint" ELSE AfterReplace(chunkMap', pending')
  /\ UNCHANGED <<file, diskHint, diskData, nextChunk, history>>

\* The rest of replaceMeta: the superblock with the new hint.
WriteHint ==
  /\ pc = "hint"
  /\ diskHint' = Hint
  /\ hinted' = {}
  /\ pc' = AfterReplace(chunkMap, pending)
  /\ UNCHANGED <<file, diskMeta, diskData, memory, pending, reply, fifo>>

\* Add of a key that is already mapped stores nothing.
AddDeclined(k) ==
  /\ pc = "idle"
  /\ chunkMap[k] # Missing
  /\ reply' = [kind |-> "declined", key |-> k, val |-> Nothing]
  /\ UNCHANGED <<disk, memory, pc, pending, history>>

\* Add of a new key takes over the chunk under nextChunk.
AddStartOverwriting(k, v) ==
  /\ pc = "idle"
  /\ pending' = v
  /\ ReplaceMeta(metaMap[nextChunk].key, [key |-> k, sum |-> v], FALSE)
  /\ UNCHANGED reply

AddStart(k, v) ==
  /\ pc = "idle"
  /\ chunkMap[k] = Missing
  /\ pending' = v
  /\ ReplaceMeta(metaMap[nextChunk].key, [key |-> k, sum |-> v], FALSE)
  /\ UNCHANGED reply

\* The data is written and the ring pointer moves on.
AddFinishUnwritten ==
  /\ pc = "data"
  /\ nextChunk' = Advance(nextChunk)
  /\ reply' = [kind |-> "added", key |-> metaMap[nextChunk].key, val |-> pending]
  /\ pending' = Nothing
  /\ pc' = "idle"
  /\ UNCHANGED <<disk, metaMap, chunkMap, history>>

AddFinish ==
  /\ pc = "data"
  /\ diskData' = IF pending = Empty THEN diskData
                 ELSE [diskData EXCEPT ![nextChunk] = pending]
  /\ nextChunk' = Advance(nextChunk)
  /\ reply' = [kind |-> "added", key |-> metaMap[nextChunk].key, val |-> pending]
  /\ fifo' = Append(IF Len(fifo) = ChunkCount THEN Tail(fifo) ELSE fifo,
                    metaMap[nextChunk].key)
  /\ hinted' = IF hinted = Nothing THEN Nothing ELSE hinted \cup {nextChunk}
  /\ pending' = Nothing
  /\ pc' = "idle"
  /\ UNCHANGED <<file, diskHint, diskMeta, metaMap, chunkMap>>

GetMiss(k) ==
  /\ pc = "idle"
  /\ chunkMap[k] = Missing
  /\ reply' = [kind |-> "miss", key |-> k, val |-> Nothing]
  /\ UNCHANGED <<disk, memory, pc, pending, history>>

\* A hit returns Len bytes of the chunk; only a dirty entry is verified first.
GetHit(k) ==
  /\ pc = "idle"
  /\ Servable(k)
  /\ LET c == chunkMap[k].chunk IN
     reply' = [kind |-> "hit", key |-> k,
               val |-> IF metaMap[c].sum = Empty THEN Empty ELSE diskData[c]]
  /\ chunkMap' = [chunkMap EXCEPT ![k] = [chunk |-> @.chunk, dirty |-> FALSE]]
  /\ UNCHANGED <<disk, metaMap, nextChunk, pc, pending, history>>

\* A dirty entry that fails its checksum is a miss, and its chunk gets a key
\* nobody asks for.
GetCorrupt(k) ==
  /\ pc = "idle"
  /\ chunkMap[k] # Missing
  /\ ~ Servable(k)
  /\ reply' = [kind |-> "miss", key |-> k, val |-> Nothing]
  /\ UNCHANGED pending
  /\ \E fake \in FreeKeys(ZeroKey, Mapped(chunkMap)) :
       ReplaceMeta(k, [key |-> fake, sum |-> Empty], TRUE)

-----------------------------------------------------------------------------
Open == Create \/ Truncate \/ OpenExisting \/ OpenRefused \/ Load

Add(k, v) == AddDeclined(k) \/ AddStart(k, v)

Get(k) == GetMiss(k) \/ GetHit(k) \/ GetCorrupt(k)

Next ==
  \/ Open
  \/ Close
  \/ Crash
  \/ \E k \in Keys : Get(k)
  \/ \E k \in Keys, v \in Values : Add(k, v)
  \/ WriteHint
  \/ AddFinish

Spec == Init /\ [][Next]_vars
-----------------------------------------------------------------------------
(* Properties *)

\* Types of the state, as the declarations of ssc.go give them.
TypeOK ==
  /\ file \in {"absent", "superblock", "full"}
  /\ diskHint \in Nat
  /\ diskMeta \in [Chunks -> MetaEntry]
  /\ diskData \in [Chunks -> Values \cup {Torn}]
  /\ metaMap \in [Chunks -> MetaEntry]
  /\ chunkMap \in [HashKeys -> ChunkmapEntry \cup {Missing}]
  /\ nextChunk \in Chunks
  /\ pc \in {"closed", "creating", "loading", "refused", "idle", "hint", "data", "panic"}
  /\ pending \in Values \cup {Nothing}
  /\ reply \in [kind : {"none", "hit", "miss", "added", "declined"},
                key : HashKeys, val : Values \cup {Torn, Nothing}]
  /\ fifo \in Seq(HashKeys)
  /\ hinted \in (SUBSET Chunks) \cup {Nothing}

\* The cache is loaded: the index stands for the file.
Running == pc \in {"idle", "hint", "data", "panic"}

\* The index and the metadata table name each other: every chunk is found
\* under its key, and every key of chunkMap is the key of its chunk.  It is
\* what Add relies on when it takes the chunk of the entry it replaces
\* (replaceMeta) for the chunk it then writes the data to (nextChunk).
IndexOK(map, meta) ==
  /\ \A c \in Chunks : map[meta[c].key] # Missing /\ map[meta[c].key].chunk = c
  /\ \A k \in Mapped(map) : meta[map[k].chunk].key = k

IndexMatches == Running => IndexOK(chunkMap, metaMap)

\* The length check at the end of replaceMeta never fails, so it never panics
\* with "Corrupted mapping!".
NeverPanics == pc # "panic"

\* An entry that is no longer dirty holds the data its metadata was computed
\* from: Get may return it without reading the checksum.  Only the chunk an
\* Add is about to write is exempt.
CleanIsIntact ==
  Running =>
    \A k \in Mapped(chunkMap) :
      LET c == chunkMap[k].chunk IN
      \/ chunkMap[k].dirty
      \/ pending # Nothing /\ c = nextChunk
      \/ Intact(metaMap[c], diskData[c])

\* The steps of one Add fit together: there is a value to write exactly while
\* the data write is outstanding, and the metadata already describes it.
PhasesFit ==
  /\ pc = "data" => pending # Nothing
  /\ pending # Nothing => /\ pc \in {"hint", "data"}
                          /\ metaMap[nextChunk].sum = pending

\* The inductive invariant behind NeverPanics and CleanIsIntact.
IndexInv == TypeOK /\ IndexMatches /\ NeverPanics /\ PhasesFit /\ CleanIsIntact

\* No caller's key is on disk twice, whatever was killed when: a run never
\* finds two chunks claiming the same data.
KeysOnceOnDisk ==
  \A c, d \in Chunks :
    diskMeta[c].key = diskMeta[d].key /\ c # d => diskMeta[c].key \notin Keys

\* Eviction is first in, first out and never early: the last ChunkCount keys
\* a run added are all still served, in the order of the ring.
LastAddsAreServed ==
  pc = "idle" =>
    \A i \in 1 .. Len(fifo) :
      LET e == chunkMap[fifo[i]] IN
      /\ e # Missing
      /\ (e.chunk + Len(fifo) - i + 1) % ChunkCount = nextChunk
      /\ Intact(metaMap[e.chunk], diskData[e.chunk])

\* The slack of the lazily saved hint does its job for a run that saved one:
\* if that run is killed now, the next one does not start at a chunk filled
\* since the hint was written (comment in replaceMeta).
HintSkipsNewData ==
  hinted # Nothing => Resume(diskHint) \notin hinted

\* What a caller can still find: the values of the callers' keys on disk.
Stored ==
  [k \in Keys |->
     IF \E c \in Chunks : diskMeta[c].key = k /\ Intact(diskMeta[c], diskData[c])
       THEN diskMeta[CHOOSE c \in Chunks :
              diskMeta[c].key = k /\ Intact(diskMeta[c], diskData[c])].sum
       ELSE Missing]

\* The Add in progress.
Offered ==
  IF pc \in {"hint", "data"} /\ pending # Nothing
    THEN <<metaMap[nextChunk].key, pending>> ELSE Nothing

Lossy == INSTANCE LossyStore
  WITH store <- Stored, offer <- Offered, Absent <- Missing,
       NoReply <- [kind |-> "none", key |-> ZeroKey, val |-> Nothing]

\* The cache implements the lossy store, over kills and restarts.
ImplementsLossyStore == Lossy!Spec
=============================================================================
