------------------------------ MODULE SscShared ------------------------------
(***************************************************************************)
(* The chunk cache of src/src/libhgms/ssc/ssc.go with several callers at a *)
(* time, as the goroutines of the FUSE server are: what SscCache leaves    *)
(* out.  The hasher is used before the lock is taken, and Get, which takes *)
(* the lock for reading only, moves the shared file position and changes   *)
(* the index.                                                              *)
(*                                                                         *)
(* A block is named by the key it belongs to, and every block fills its    *)
(* chunk.  A hash is the sequence of names that went into the hasher since *)
(* its last Reset: the hash of nothing is <<>>, crc64's 0, which is also   *)
(* the key of a table entry that was never written.  A step is atomic      *)
(* here and may be several statements in the code, which can interleave    *)
(* in more ways.                                                           *)
(***************************************************************************)
EXTENDS Naturals, Sequences, FiniteSets

CONSTANTS
  Callers,
  Names,      \* keys callers use, and the blocks that belong to them
  Fakes,      \* what rand.Int63 returns in findFreeKey
  Zeros,      \* content of a chunk that was never written
  NoBlock,    \* a slice of length 0
  NoCaller,   \* nobody holds the lock
  ChunkCount

Chunks == 0 .. ChunkCount - 1

VARIABLES
  hasher,     \* Cache.hasher: names written since Reset
  writer,     \* Cache.mutex: the holder of the lock, or NoCaller
  readers,    \* Cache.mutex: the holders of the read lock
  position,   \* position of Cache.fh in the data area, in chunks
  diskData,
  metaMap,    \* Cache.metaMap: key, whether Len is a chunk or 0, Checksum
  chunkMap,   \* Cache.chunkMap, a function on the keys it has
  nextChunk,  \* Cache.nextChunk
  pc,         \* where each caller is
  call,       \* its call: operation, name, and kh once it is known
  seen,       \* chunkEntry and memMeta of a Get
  data,       \* what a Get has read
  reply       \* the last answer to each caller

mutex == <<writer, readers>>
index == <<metaMap, chunkMap, nextChunk>>
locals == <<pc, call, seen, data, reply>>
vars == <<hasher, mutex, position, diskData, index, locals>>

-----------------------------------------------------------------------------
Entry(chunk, dirty) == [chunk |-> chunk, dirty |-> dirty]
Meta(key, full, sum) == [key |-> key, full |-> full, sum |-> sum]

\* A cache that was just created and loaded: the first chunk keeps the key 0,
\* the others get random ones.
Init ==
  /\ hasher = <<>>
  /\ writer = NoCaller
  /\ readers = {}
  /\ position = 0
  /\ diskData = [c \in Chunks |-> Zeros]
  /\ \E key \in [Chunks -> {<<>>} \cup {<<f>> : f \in Fakes}] :
       /\ \A c \in Chunks : key[c] = <<>> <=> c = 0
       /\ \A c, d \in Chunks : c # d => key[c] # key[d]
       /\ metaMap = [c \in Chunks |-> Meta(key[c], FALSE, <<>>)]
       /\ chunkMap = [k \in {key[c] : c \in Chunks} |->
                        Entry(CHOOSE c \in Chunks : key[c] = k, TRUE)]
  /\ nextChunk = 0
  /\ pc = [r \in Callers |-> "idle"]
  /\ call = [r \in Callers |-> [op |-> "none", name |-> NoBlock, key |-> <<>>]]
  /\ seen = [r \in Callers |-> [entry |-> Entry(0, TRUE), meta |-> Meta(<<>>, FALSE, <<>>)]]
  /\ data = [r \in Callers |-> NoBlock]
  /\ reply = [r \in Callers |-> [kind |-> "none", block |-> NoBlock]]

Goto(r, label) == pc' = [pc EXCEPT ![r] = label]

\* Caller r is answered.
Answer(r, kind, block) ==
  /\ reply' = [reply EXCEPT ![r] = [kind |-> kind, block |-> block]]
  /\ Goto(r, "idle")

\* A chunk read from the file position: past the last one there is nothing,
\* and binary.Read leaves the slice as it was made.
Block(at) == IF at \in Chunks THEN diskData[at] ELSE Zeros

-----------------------------------------------------------------------------
(* hash64, at the head of Add and Get: outside the lock *)

\* Reset
Call(r, op, name) ==
  /\ pc[r] = "idle"
  /\ hasher' = <<>>
  /\ call' = [call EXCEPT ![r] = [op |-> op, name |-> name, key |-> <<>>]]
  /\ Goto(r, "write")
  /\ UNCHANGED <<mutex, position, diskData, index, seen, data, reply>>

\* Write
HashWrite(r) ==
  /\ pc[r] = "write"
  /\ hasher' = Append(hasher, call[r].name)
  /\ Goto(r, "sum")
  /\ UNCHANGED <<mutex, position, diskData, index, call, seen, data, reply>>

\* Sum64
HashSum(r) ==
  /\ pc[r] = "sum"
  /\ call' = [call EXCEPT ![r].key = hasher]
  /\ Goto(r, "lock")
  /\ UNCHANGED <<hasher, mutex, position, diskData, index, seen, data, reply>>

-----------------------------------------------------------------------------
(* replaceMeta: the caller holds the lock, for reading only if it is a Get *)

\* The index after `oldKey' gave its chunk to the entry of newMeta; an absent
\* key yields chunk 0.
Rekeyed(oldKey, newKey, dirty) ==
  LET chunk == IF oldKey \in DOMAIN chunkMap THEN chunkMap[oldKey].chunk ELSE 0 IN
  [k \in (DOMAIN chunkMap \ {oldKey}) \cup {newKey} |->
     IF k = newKey THEN Entry(chunk, dirty) ELSE chunkMap[k]]

ReplaceMeta(oldKey, newMeta, dirty) ==
  /\ chunkMap' = Rekeyed(oldKey, newMeta.key, dirty)
  /\ metaMap' = [metaMap EXCEPT ![chunkMap'[newMeta.key].chunk] = newMeta]

\* The length check: a panic skips the unlock, which is not deferred.
Corrupted == Cardinality(DOMAIN chunkMap') # ChunkCount

-----------------------------------------------------------------------------
(* Add, under the lock *)

AddDeclined(r) ==
  /\ pc[r] = "lock" /\ call[r].op = "add" /\ writer = NoCaller /\ readers = {}
  /\ call[r].key \in DOMAIN chunkMap
  /\ Answer(r, "declined", NoBlock)
  /\ UNCHANGED <<hasher, mutex, position, diskData, index, call, seen, data>>

\* The lock is taken, and hash32 starts with its Reset.
AddLock(r) ==
  /\ pc[r] = "lock" /\ call[r].op = "add" /\ writer = NoCaller /\ readers = {}
  /\ call[r].key \notin DOMAIN chunkMap
  /\ writer' = r
  /\ hasher' = <<>>
  /\ Goto(r, "checksum")
  /\ UNCHANGED <<readers, position, diskData, index, call, seen, data, reply>>

AddHashWrite(r) ==
  /\ pc[r] = "checksum"
  /\ hasher' = Append(hasher, call[r].name)
  /\ Goto(r, "store")
  /\ UNCHANGED <<mutex, position, diskData, index, call, seen, data, reply>>

\* The rest: the table, the data, the ring pointer and the unlock.
AddStore(r) ==
  /\ pc[r] = "store"
  /\ ReplaceMeta(metaMap[nextChunk].key, Meta(call[r].key, TRUE, hasher), FALSE)
  /\ IF Corrupted
       THEN /\ Goto(r, "panicked")
            /\ UNCHANGED <<writer, position, diskData, nextChunk, reply>>
       ELSE /\ diskData' = [diskData EXCEPT ![nextChunk] = call[r].name]
            /\ position' = nextChunk + 1
            /\ nextChunk' = (nextChunk + 1) % ChunkCount
            /\ writer' = NoCaller
            /\ Answer(r, "added", NoBlock)
  /\ UNCHANGED <<hasher, readers, call, seen, data>>

-----------------------------------------------------------------------------
(* Get, under the read lock *)

GetMiss(r) ==
  /\ pc[r] = "lock" /\ call[r].op = "get" /\ writer = NoCaller
  /\ call[r].key \notin DOMAIN chunkMap
  /\ Answer(r, "miss", NoBlock)
  /\ UNCHANGED <<hasher, mutex, position, diskData, index, call, seen, data>>

\* The entry and its metadata are read, and the file is positioned ...
GetSeek(r) ==
  /\ pc[r] = "lock" /\ call[r].op = "get" /\ writer = NoCaller
  /\ call[r].key \in DOMAIN chunkMap
  /\ readers' = readers \cup {r}
  /\ LET e == chunkMap[call[r].key] IN
     /\ seen' = [seen EXCEPT ![r] = [entry |-> e, meta |-> metaMap[e.chunk]]]
     /\ position' = e.chunk
  /\ Goto(r, "read")
  /\ UNCHANGED <<hasher, writer, diskData, index, call, data, reply>>

\* ... and read from wherever it is by then.  A dirty entry is verified, which
\* starts with the Reset of hash32.
GetRead(r) ==
  /\ pc[r] = "read"
  /\ LET full == seen[r].meta.full
         got == IF full THEN Block(position) ELSE NoBlock IN
     /\ data' = [data EXCEPT ![r] = got]
     /\ position' = IF full /\ position \in Chunks THEN position + 1 ELSE position
     /\ IF seen[r].entry.dirty
          THEN /\ hasher' = <<>>
               /\ Goto(r, "verify")
               /\ UNCHANGED <<readers, reply>>
          ELSE /\ readers' = readers \ {r}
               /\ Answer(r, "hit", got)
               /\ UNCHANGED hasher
  /\ UNCHANGED <<writer, diskData, index, call, seen>>

GetHashWrite(r) ==
  /\ pc[r] = "verify"
  /\ hasher' = IF data[r] = NoBlock THEN hasher ELSE Append(hasher, data[r])
  /\ Goto(r, "compare")
  /\ UNCHANGED <<mutex, position, diskData, index, call, seen, data, reply>>

\* The entry passes: it is stored again, whether or not it is still there.
GetVerified(r) ==
  /\ pc[r] = "compare" /\ hasher = seen[r].meta.sum
  /\ LET k == call[r].key IN
     chunkMap' = [j \in DOMAIN chunkMap \cup {k} |->
                    IF j = k THEN Entry(seen[r].entry.chunk, FALSE) ELSE chunkMap[j]]
  /\ readers' = readers \ {r}
  /\ Answer(r, "hit", data[r])
  /\ UNCHANGED <<hasher, writer, position, diskData, metaMap, nextChunk, call, seen, data>>

\* The entry fails: its chunk gets a key nobody asks for.
GetCorrupt(r) ==
  /\ pc[r] = "compare" /\ hasher # seen[r].meta.sum
  /\ \E fake \in IF <<>> \notin DOMAIN chunkMap THEN {<<>>}
                 ELSE {<<f>> : f \in Fakes} \ DOMAIN chunkMap :
       ReplaceMeta(call[r].key, Meta(fake, FALSE, <<>>), TRUE)
  /\ IF Corrupted
       THEN Goto(r, "panicked") /\ UNCHANGED <<readers, reply>>
       ELSE readers' = readers \ {r} /\ Answer(r, "miss", NoBlock)
  /\ UNCHANGED <<hasher, writer, position, diskData, nextChunk, call, seen, data>>

-----------------------------------------------------------------------------
Add(r) == AddDeclined(r) \/ AddLock(r) \/ AddHashWrite(r) \/ AddStore(r)

Get(r) ==
  GetMiss(r) \/ GetSeek(r) \/ GetRead(r) \/ GetHashWrite(r) \/ GetVerified(r) \/ GetCorrupt(r)

Next ==
  \E r \in Callers :
    \/ \E op \in {"add", "get"}, name \in Names : Call(r, op, name)
    \/ HashWrite(r)
    \/ HashSum(r)
    \/ Add(r)
    \/ Get(r)

Spec == Init /\ [][Next]_vars

-----------------------------------------------------------------------------
(* Property *)

\* Get "performs a lookup of 'key' in the cache", and the mutex is the
\* "cache-wide lock for io and slice operations": a hit is the block that was
\* added under the key asked for, however the calls overlap.
HitsAreTheKeys ==
  \A r \in Callers :
    pc[r] = "idle" /\ reply[r].kind = "hit" => reply[r].block = call[r].name
=============================================================================
