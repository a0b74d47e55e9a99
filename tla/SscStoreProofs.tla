--------------------------- MODULE SscStoreProofs ---------------------------
(***************************************************************************)
(* More proofs about SscCache, again for every number of chunks, every set *)
(* of keys and values and every position of kills and restarts, on top of  *)
(* the index invariant of SscCacheProofs: no caller's key is on disk       *)
(* twice, eviction is first in, first out, the saved hint skips new data,  *)
(* and the cache implements LossyStore.                                    *)
(***************************************************************************)
EXTENDS SscCacheProofs

-----------------------------------------------------------------------------
(* The invariants *)

\* While a run is on, metaMap has the entries of the file, but for the random
\* keys that openDbFile gives to keys it finds twice.
DiskFollows ==
  Running =>
    \A c \in Chunks :
      /\ metaMap[c].sum = diskMeta[c].sum
      /\ \/ metaMap[c].key = diskMeta[c].key
         \/ metaMap[c].key \in FakeKeys /\ diskMeta[c].key \notin Keys

\* Add writes its data under a caller's key.
OfferedKey == pending # Nothing => metaMap[nextChunk].key \in Keys

\* A run starts without a history.
HistoryFresh == ~ Running => fifo = <<>> /\ hinted = Nothing

StoreInv == KeysOnceOnDisk /\ DiskFollows /\ OfferedKey /\ HistoryFresh

-----------------------------------------------------------------------------
(* What the index says about the file *)

\* While a run is on, a caller's key is in the file exactly at the chunk the
\* index has for it.
LEMMA IndexFindsDisk ==
  ASSUME TypeOK, IndexOK(chunkMap, metaMap), Running, DiskFollows, NEW k \in Keys
  PROVE  /\ \A c \in Chunks : diskMeta[c].key = k =>
              chunkMap[k] # Missing /\ chunkMap[k].chunk = c /\ metaMap[c].key = k
         /\ chunkMap[k] # Missing =>
              /\ chunkMap[k].chunk \in Chunks
              /\ metaMap[chunkMap[k].chunk].key = k
              /\ diskMeta[chunkMap[k].chunk].key = k
<1>1. k \in HashKeys /\ k \notin FakeKeys
  BY KeysAssumption DEF HashKeys
<1>2. ASSUME NEW c \in Chunks, diskMeta[c].key = k
      PROVE  chunkMap[k] # Missing /\ chunkMap[k].chunk = c /\ metaMap[c].key = k
  <2>1. metaMap[c].key = k
    BY <1>2 DEF DiskFollows
  <2> QED
    BY <2>1 DEF IndexOK
<1>3. ASSUME chunkMap[k] # Missing
      PROVE  /\ chunkMap[k].chunk \in Chunks
             /\ metaMap[chunkMap[k].chunk].key = k
             /\ diskMeta[chunkMap[k].chunk].key = k
  <2>1. k \in Mapped(chunkMap) /\ chunkMap[k] \in ChunkmapEntry
    BY <1>1, <1>3 DEF Mapped, TypeOK
  <2>2. chunkMap[k].chunk \in Chunks
    BY <2>1 DEF ChunkmapEntry
  <2>3. metaMap[chunkMap[k].chunk].key = k
    BY <2>1 DEF IndexOK
  <2> QED
    BY <1>1, <2>2, <2>3 DEF DiskFollows
<1> QED
  BY <1>2, <1>3

\* What replaceMeta writes: one entry of metaMap, of the file and of the index,
\* that of the chunk the old key had.
LEMMA ReplaceMetaWrites ==
  ASSUME IndexInv, pc = "idle",
         NEW old \in Mapped(chunkMap), NEW new \in MetaEntry, NEW d \in BOOLEAN,
         chunkMap[new.key] = Missing,
         ReplaceMeta(old, new, d)
  PROVE  LET chunk == chunkMap[old].chunk IN
         /\ chunk \in Chunks
         /\ metaMap[chunk].key = old
         /\ metaMap'[chunk] = new /\ diskMeta'[chunk] = new
         /\ \A c \in Chunks \ {chunk} : metaMap'[c] = metaMap[c] /\ diskMeta'[c] = diskMeta[c]
         /\ \A k \in HashKeys \ {old, new.key} : chunkMap'[k] = chunkMap[k]
         /\ UNCHANGED <<file, diskHint, diskData, nextChunk, history>>
<1> DEFINE chunk == chunkMap[old].chunk
<1>1. TypeOK /\ IndexOK(chunkMap, metaMap)
  BY DEF IndexInv, IndexMatches, Running
<1>2. /\ chunk \in Chunks
      /\ chunk = ChunkOf(old)
  BY <1>1, RekeyingKeepsIndex
<1>3. metaMap[chunk].key = old
  BY <1>1 DEF IndexOK
<1>4. /\ metaMap' = [metaMap EXCEPT ![chunk] = new]
      /\ diskMeta' = [diskMeta EXCEPT ![chunk] = new]
      /\ chunkMap' = [chunkMap EXCEPT ![old] = Missing,
                                      ![new.key] = [chunk |-> chunk, dirty |-> d]]
      /\ UNCHANGED <<file, diskHint, diskData, nextChunk, history>>
  BY <1>2 DEF ReplaceMeta, Rekeyed
<1> HIDE DEF chunk
<1>5. /\ metaMap'[chunk] = new /\ diskMeta'[chunk] = new
      /\ \A c \in Chunks \ {chunk} : metaMap'[c] = metaMap[c] /\ diskMeta'[c] = diskMeta[c]
  BY <1>1, <1>2, <1>4 DEF TypeOK
<1>6. \A k \in HashKeys \ {old, new.key} : chunkMap'[k] = chunkMap[k]
  BY <1>1, <1>4 DEF TypeOK
<1> QED
  BY <1>2, <1>3, <1>4, <1>5, <1>6 DEF chunk

-----------------------------------------------------------------------------
(* No key twice: one lemma for each operation that writes metadata *)

\* replaceMeta keeps the file free of double keys: its new key is not mapped.
LEMMA ReplaceMetaStoreInv ==
  ASSUME IndexInv, StoreInv, pc = "idle",
         NEW old \in Mapped(chunkMap), NEW new \in MetaEntry, NEW d \in BOOLEAN,
         chunkMap[new.key] = Missing,
         ReplaceMeta(old, new, d),
         pc' \in {"idle", "hint", "data"},
         pending' = Nothing \/ (chunkMap[old].chunk = nextChunk /\ new.key \in Keys)
  PROVE  StoreInv'
<1> DEFINE chunk == chunkMap[old].chunk
<1>1. /\ TypeOK /\ IndexOK(chunkMap, metaMap) /\ Running /\ DiskFollows /\ KeysOnceOnDisk
      /\ Running'
  BY DEF IndexInv, IndexMatches, Running, StoreInv
<1>2. /\ chunk \in Chunks
      /\ metaMap'[chunk] = new /\ diskMeta'[chunk] = new
      /\ \A c \in Chunks \ {chunk} : metaMap'[c] = metaMap[c] /\ diskMeta'[c] = diskMeta[c]
      /\ nextChunk' = nextChunk
  BY ReplaceMetaWrites
<1> HIDE DEF chunk
<1>3. ASSUME NEW c \in Chunks \ {chunk}
      PROVE  diskMeta'[c].key = new.key => new.key \notin Keys
  BY <1>1, <1>2, <1>3, IndexFindsDisk
<1>4. KeysOnceOnDisk'
  BY <1>1, <1>2, <1>3 DEF KeysOnceOnDisk
<1>5. DiskFollows'
  BY <1>1, <1>2 DEF DiskFollows
<1>6. OfferedKey'
  BY <1>2 DEF OfferedKey, chunk
<1> QED
  BY <1>1, <1>4, <1>5, <1>6 DEF StoreInv, HistoryFresh

LEMMA InitStoreInv == Init => StoreInv
<1> SUFFICES ASSUME Init PROVE StoreInv
  OBVIOUS
<1>1. KeysOnceOnDisk
  BY KeysAssumption DEF Init, KeysOnceOnDisk, ZeroMeta
<1> QED
  BY <1>1 DEF Init, StoreInv, DiskFollows, OfferedKey, HistoryFresh, Running

\* The steps of openDbFile before the metadata are read, and the end of a run.
LEMMA OutsideStoreInv ==
  ASSUME IndexInv, StoreInv,
         Create \/ Truncate \/ OpenExisting \/ OpenRefused \/ Close \/ Crash
  PROVE  StoreInv'
<1>1. diskMeta' = diskMeta /\ ~ Running'
  BY DEF Create, Truncate, OpenExisting, OpenRefused, Close, Crash, Stopped, disk, Running
<1>2. pending' = Nothing
  BY DEF Create, Truncate, OpenExisting, OpenRefused, Close, Crash, Stopped, IndexInv,
         PhasesFit
<1>3. fifo' = <<>> /\ hinted' = Nothing
  BY DEF Create, Truncate, OpenExisting, OpenRefused, Close, Crash, Stopped, StoreInv,
         HistoryFresh, Running, history
<1> QED
  BY <1>1, <1>2, <1>3 DEF StoreInv, KeysOnceOnDisk, DiskFollows, OfferedKey, HistoryFresh

\* Loading renames a key found twice, which no caller asks for.
LEMMA LoadStoreInv == IndexInv /\ StoreInv /\ Load => StoreInv'
<1> SUFFICES ASSUME IndexInv, StoreInv, Load PROVE StoreInv'
  OBVIOUS
<1>0. TypeOK /\ KeysOnceOnDisk /\ pc = "loading" /\ pending = Nothing
  BY DEF IndexInv, StoreInv, Load, PhasesFit
<1>1. PICK key \in [Chunks -> FakeKeys \cup {diskMeta[c].key : c \in Chunks}] :
        /\ \A c \in Chunks :
             key[c] \in FreeKeys(diskMeta[c].key, {key[d] : d \in 0 .. c - 1})
        /\ metaMap' = [c \in Chunks |-> [key |-> key[c], sum |-> diskMeta[c].sum]]
  BY DEF Load
<1>2. ASSUME NEW c \in Chunks
      PROVE  key[c] = diskMeta[c].key \/ (key[c] \in FakeKeys /\ diskMeta[c].key \notin Keys)
  <2> SUFFICES ASSUME key[c] # diskMeta[c].key
               PROVE  key[c] \in FakeKeys /\ diskMeta[c].key \notin Keys
    OBVIOUS
  <2>1. key[c] \in FreeKeys(diskMeta[c].key, {key[d] : d \in 0 .. c - 1})
    BY <1>1
  <2>2. diskMeta[c].key \in {key[d] : d \in 0 .. c - 1} /\ key[c] \in FakeKeys
    BY <2>1 DEF FreeKeys
  <2>3. PICK d \in 0 .. c - 1 : diskMeta[c].key = key[d]
    BY <2>2
  <2>4. d \in Chunks /\ d # c
    BY SizesAssumption DEF Chunks
  <2>5. CASE key[d] = diskMeta[d].key
    BY <1>0, <2>2, <2>3, <2>4, <2>5 DEF KeysOnceOnDisk
  <2>6. CASE key[d] # diskMeta[d].key
    <3>1. key[d] \in FreeKeys(diskMeta[d].key, {key[e] : e \in 0 .. d - 1})
      BY <1>1, <2>4
    <3> QED
      BY <2>2, <2>3, <2>6, <3>1, KeysAssumption DEF FreeKeys
  <2> QED
    BY <2>5, <2>6
<1>3. \A c \in Chunks : metaMap'[c].key = key[c] /\ metaMap'[c].sum = diskMeta[c].sum
  BY <1>1
<1>4. diskMeta' = diskMeta /\ pending' = pending /\ UNCHANGED history /\ Running'
  BY DEF Load, disk, Running
<1>5. DiskFollows'
  BY <1>2, <1>3, <1>4 DEF DiskFollows
<1> QED
  BY <1>0, <1>4, <1>5 DEF StoreInv, KeysOnceOnDisk, OfferedKey, HistoryFresh

\* Add and Get, whose replacements are a key that is not mapped and a random one.
LEMMA CallStoreInv ==
  ASSUME IndexInv, IndexInv', StoreInv, NEW k \in Keys,
         Get(k) \/ \E v \in Values : Add(k, v)
  PROVE  StoreInv'
<1>1. /\ TypeOK /\ IndexOK(chunkMap, metaMap) /\ pc = "idle" /\ pending = Nothing
      /\ k \in HashKeys
  BY DEF Get, GetMiss, GetHit, GetCorrupt, Add, AddDeclined, AddStart, IndexInv,
         IndexMatches, Running, PhasesFit, HashKeys
<1>2. CASE GetMiss(k) \/ GetHit(k) \/ AddDeclined(k)
  <2>1. UNCHANGED <<diskMeta, metaMap, nextChunk, pc, pending, history>>
    BY <1>2 DEF GetMiss, GetHit, AddDeclined, disk, memory
  <2> QED
    BY <1>1, <2>1 DEF StoreInv, KeysOnceOnDisk, DiskFollows, OfferedKey, HistoryFresh, Running
<1>3. CASE GetCorrupt(k)
  <2>1. PICK fake \in FreeKeys(ZeroKey, Mapped(chunkMap)) :
          ReplaceMeta(k, [key |-> fake, sum |-> Empty], TRUE)
    BY <1>3 DEF GetCorrupt
  <2> DEFINE new == [key |-> fake, sum |-> Empty]
  <2>2. fake \in HashKeys /\ fake \notin Mapped(chunkMap)
    BY DEF FreeKeys, HashKeys
  <2>3. new \in MetaEntry /\ chunkMap[new.key] = Missing
    BY <2>2, ValuesAssumption DEF MetaEntry, Mapped
  <2>4. k \in Mapped(chunkMap) /\ pending' = Nothing
    BY <1>1, <1>3 DEF GetCorrupt, Mapped
  <2>5. pc' \in {"idle", "hint", "data"}
    BY <2>1 DEF ReplaceMeta, AfterReplace, IndexInv, NeverPanics
  <2> QED
    BY <1>1, <2>1, <2>3, <2>4, <2>5, ReplaceMetaStoreInv
<1>4. ASSUME NEW v \in Values, AddStart(k, v)
      PROVE  StoreInv'
  <2> DEFINE old == metaMap[nextChunk].key
             new == [key |-> k, sum |-> v]
  <2>1. old \in HashKeys /\ nextChunk \in Chunks
    BY <1>1 DEF TypeOK, MetaEntry
  <2>2. old \in Mapped(chunkMap) /\ chunkMap[old].chunk = nextChunk
    BY <1>1, <2>1 DEF IndexOK, Mapped
  <2>3. new \in MetaEntry /\ chunkMap[new.key] = Missing /\ new.key \in Keys
    BY <1>1, <1>4 DEF AddStart, MetaEntry
  <2>4. ReplaceMeta(old, new, FALSE)
    BY <1>4 DEF AddStart
  <2>5. pc' \in {"idle", "hint", "data"}
    BY <2>4 DEF ReplaceMeta, AfterReplace, IndexInv, NeverPanics
  <2> HIDE DEF old, new
  <2> QED
    BY <1>1, <2>2, <2>3, <2>4, <2>5, ReplaceMetaStoreInv
<1> QED
  BY <1>2, <1>3, <1>4 DEF Get, Add

\* The superblock and the data write leave the metadata alone.
LEMMA LateStoreInv ==
  ASSUME IndexInv, IndexInv', StoreInv, WriteHint \/ AddFinish
  PROVE  StoreInv'
<1>1. UNCHANGED <<metaMap, diskMeta>> /\ Running /\ Running'
  BY DEF WriteHint, AddFinish, memory, Running, AfterReplace, IndexInv, NeverPanics
<1>2. pending' # Nothing => UNCHANGED <<pending, nextChunk>>
  BY DEF WriteHint, AddFinish, memory
<1> QED
  BY <1>1, <1>2 DEF StoreInv, KeysOnceOnDisk, DiskFollows, OfferedKey, HistoryFresh

LEMMA StepStoreInv == IndexInv /\ IndexInv' /\ StoreInv /\ [Next]_vars => StoreInv'
<1> SUFFICES ASSUME IndexInv, IndexInv', StoreInv, [Next]_vars PROVE StoreInv'
  OBVIOUS
<1>1. CASE Open \/ Close \/ Crash
  BY <1>1, OutsideStoreInv, LoadStoreInv DEF Open
<1>2. CASE \E k \in Keys : Get(k) \/ \E v \in Values : Add(k, v)
  BY <1>2, CallStoreInv
<1>3. CASE WriteHint \/ AddFinish
  BY <1>3, LateStoreInv
<1>4. CASE UNCHANGED vars
  BY <1>4 DEF vars, disk, memory, history, StoreInv, KeysOnceOnDisk, DiskFollows, OfferedKey,
              HistoryFresh, Running
<1> QED
  BY <1>1, <1>2, <1>3, <1>4 DEF Next

THEOREM StoreInvariant == Spec => [](IndexInv /\ StoreInv)
BY InitStoreInv, StepStoreInv, IndexInvariant, PTL DEF Spec

\* No caller's key is in the file twice, whatever was killed when: a run that
\* starts never finds two chunks claiming the data of one key.
THEOREM KeysAreOnDiskOnce == Spec => []KeysOnceOnDisk
<1>1. StoreInv => KeysOnceOnDisk
  BY DEF StoreInv
<1> QED BY <1>1, StoreInvariant, PTL

-----------------------------------------------------------------------------
(* Eviction is first in, first out *)

\* The i-th of the keys this run added is served, at its place in the ring.
Kept(i) ==
  LET e == chunkMap[fifo[i]] IN
  /\ e # Missing
  /\ (e.chunk + (Len(fifo) - i + 1)) % ChunkCount = nextChunk
  /\ Intact(metaMap[e.chunk], diskData[e.chunk])

\* All of them are, but for the oldest while a full ring writes over it.
FifoKept ==
  /\ Len(fifo) <= ChunkCount
  /\ Running => \A i \in 1 .. Len(fifo) :
       (pending # Nothing => Len(fifo) - i + 1 < ChunkCount) => Kept(i)

LEMMA Division ==
  ASSUME NEW x \in Nat, NEW b \in Nat \ {0}
  PROVE  /\ x = (b * (x \div b)) + (x % b)
         /\ x % b \in 0 .. b - 1
         /\ x \div b \in Nat
OBVIOUS

LEMMA ProductGrows ==
  ASSUME NEW a \in Nat, NEW m \in Nat, NEW n \in Nat, m <= n
  PROVE  a * m <= a * n
<1>1. n - m \in Nat /\ n = m + (n - m)
  OBVIOUS
<1>2. a * n = a * m + a * (n - m)
  OBVIOUS
<1>3. a * (n - m) \in Nat /\ a * m \in Nat
  BY <1>1
<1> QED
  BY <1>2, <1>3

\* At most once around the ring.
LEMMA Around ==
  ASSUME NEW c \in Chunks, NEW a \in 1 .. ChunkCount
  PROVE  (c + a) % ChunkCount = IF c + a < ChunkCount THEN c + a ELSE c + a - ChunkCount
<1> DEFINE x == c + a
           q == x \div ChunkCount
           r == x % ChunkCount
<1>1. x \in Nat /\ x < 2 * ChunkCount /\ ChunkCount \in Nat \ {0}
  BY SizesAssumption DEF Chunks
<1>2. x = ChunkCount * q + r /\ r \in 0 .. ChunkCount - 1 /\ q \in Nat
  <2> HIDE DEF x
  <2> QED
    BY <1>1, Division
<1> HIDE DEF x, q, r
<1>3. q = 0 \/ q = 1
  <2> SUFFICES ASSUME 2 <= q PROVE FALSE
    BY <1>2
  <2>1. ChunkCount * 2 <= ChunkCount * q
    BY <1>1, <1>2, ProductGrows
  <2>2. ChunkCount * q \in Nat
    BY <1>1, <1>2
  <2> QED
    BY <1>1, <1>2, <2>1, <2>2
<1>4. r = IF x < ChunkCount THEN x ELSE x - ChunkCount
  BY <1>1, <1>2, <1>3
<1>5. x = c + a
  BY DEF x
<1>6. r = (c + a) % ChunkCount
  BY DEF x, r
<1>7. c + a - ChunkCount = x - ChunkCount
  BY <1>1, <1>5 DEF Chunks
<1> QED
  BY <1>4, <1>5, <1>6, <1>7, Zenon

\* The next step in the ring.
LEMMA OneFurther ==
  ASSUME NEW c \in Chunks, NEW a \in 1 .. ChunkCount, a < ChunkCount, NEW n \in Chunks,
         (c + a) % ChunkCount = n
  PROVE  c # n /\ (c + (a + 1)) % ChunkCount = Advance(n)
<1>1. c \in Nat /\ c < ChunkCount /\ n \in Nat /\ n < ChunkCount /\ ChunkCount \in Nat \ {0}
  BY SizesAssumption DEF Chunks
<1>2. n = IF c + a < ChunkCount THEN c + a ELSE c + a - ChunkCount
  BY Around
<1>3. a + 1 \in 1 .. ChunkCount
  BY <1>1
<1>4. (c + (a + 1)) % ChunkCount
        = IF c + (a + 1) < ChunkCount THEN c + (a + 1) ELSE c + (a + 1) - ChunkCount
  BY <1>3, Around
<1> QED
  BY <1>1, <1>2, <1>4 DEF Advance

\* The queue of the last n keys after one more.
LEMMA QueueGrows ==
  ASSUME NEW S, NEW q \in Seq(S), NEW x \in S, NEW n \in Nat \ {0}, Len(q) <= n,
         NEW f, f = Append(IF Len(q) = n THEN Tail(q) ELSE q, x)
  PROVE  /\ f \in Seq(S)
         /\ Len(f) = (IF Len(q) = n THEN n ELSE Len(q) + 1)
         /\ f[Len(f)] = x
         /\ \A i \in 1 .. Len(f) - 1 : f[i] = (IF Len(q) = n THEN q[i + 1] ELSE q[i])
<1>1. CASE Len(q) = n
  <2>1. Tail(q) \in Seq(S) /\ Len(Tail(q)) = n - 1 /\ f = Append(Tail(q), x)
    BY <1>1
  <2>2. \A i \in 1 .. n - 1 : Tail(q)[i] = q[i + 1]
    BY <1>1
  <2>3. f \in Seq(S) /\ Len(f) = n /\ f[n] = x /\ \A i \in 1 .. n - 1 : f[i] = Tail(q)[i]
    BY <2>1
  <2> QED
    BY <1>1, <2>2, <2>3
<1>2. CASE Len(q) # n
  BY <1>2
<1> QED
  BY <1>1, <1>2

\* replaceMeta leaves a key alone that it does not replace.
LEMMA ReplaceMetaKeeps ==
  ASSUME IndexInv, pc = "idle",
         NEW old \in Mapped(chunkMap), NEW new \in MetaEntry, NEW d \in BOOLEAN,
         chunkMap[new.key] = Missing,
         ReplaceMeta(old, new, d),
         NEW i \in 1 .. Len(fifo), fifo[i] # old, Kept(i)
  PROVE  Kept(i)'
<1> DEFINE chunk == chunkMap[old].chunk
           e == chunkMap[fifo[i]]
<1>1. TypeOK /\ IndexOK(chunkMap, metaMap)
  BY DEF IndexInv, IndexMatches, Running
<1>2. fifo[i] \in HashKeys /\ e # Missing
  BY <1>1 DEF TypeOK, Kept
<1>3. fifo[i] # new.key
  BY <1>2
<1>4. /\ chunk \in Chunks
      /\ metaMap[chunk].key = old
      /\ \A c \in Chunks \ {chunk} : metaMap'[c] = metaMap[c]
      /\ \A k \in HashKeys \ {old, new.key} : chunkMap'[k] = chunkMap[k]
      /\ UNCHANGED <<diskData, nextChunk, fifo>>
  BY ReplaceMetaWrites DEF history
<1>5. chunkMap'[fifo[i]] = e
  BY <1>2, <1>3, <1>4
<1>6. e.chunk \in Chunks /\ metaMap[e.chunk].key = fifo[i]
  BY <1>1, <1>2 DEF TypeOK, IndexOK, Mapped, ChunkmapEntry
<1>7. metaMap'[e.chunk] = metaMap[e.chunk]
  BY <1>4, <1>6
<1> HIDE DEF chunk
<1> QED
  BY <1>4, <1>5, <1>7 DEF Kept

\* Without a history there is nothing to keep.
LEMMA FreshFifoKept ==
  ASSUME fifo' = <<>>
  PROVE  FifoKept'
BY SizesAssumption DEF FifoKept

\* Add gives up the key whose turn it is, if any.
LEMMA AddStartFifoKept ==
  ASSUME IndexInv, IndexInv', FifoKept, NEW k \in Keys, NEW v \in Values, AddStart(k, v)
  PROVE  FifoKept'
<1> DEFINE old == metaMap[nextChunk].key
           new == [key |-> k, sum |-> v]
<1>1. /\ TypeOK /\ IndexOK(chunkMap, metaMap) /\ pc = "idle" /\ pending = Nothing
      /\ k \in HashKeys /\ Running
  BY DEF AddStart, IndexInv, IndexMatches, Running, PhasesFit, HashKeys
<1>2. old \in HashKeys /\ nextChunk \in Chunks
  BY <1>1 DEF TypeOK, MetaEntry
<1>3. old \in Mapped(chunkMap) /\ chunkMap[old].chunk = nextChunk
  BY <1>1, <1>2 DEF IndexOK, Mapped
<1>4. new \in MetaEntry /\ chunkMap[new.key] = Missing
  BY <1>1 DEF AddStart, MetaEntry
<1>5. ReplaceMeta(old, new, FALSE) /\ pending' # Nothing /\ fifo' = fifo
  BY ValuesAssumption DEF AddStart, ReplaceMeta, history
<1>6. ASSUME NEW i \in 1 .. Len(fifo), Len(fifo) - i + 1 < ChunkCount
      PROVE  Kept(i)'
  <2>1. Kept(i) /\ Len(fifo) \in Nat
    BY <1>1, <1>6 DEF FifoKept, TypeOK
  <2>2. fifo[i] \in HashKeys
    BY <1>1, <1>6 DEF TypeOK
  <2>3. chunkMap[fifo[i]].chunk \in Chunks
    BY <1>1, <2>1, <2>2 DEF Kept, TypeOK, ChunkmapEntry
  <2>4. Len(fifo) - i + 1 \in 1 .. ChunkCount
    BY <1>6, <2>1, SizesAssumption
  <2>5. chunkMap[fifo[i]].chunk # nextChunk
    BY <1>2, <1>6, <2>1, <2>3, <2>4, OneFurther DEF Kept
  <2>6. fifo[i] # old
    BY <1>3, <2>5
  <2> HIDE DEF old, new
  <2> QED
    BY <1>1, <1>3, <1>4, <1>5, <2>1, <2>6, ReplaceMetaKeeps
<1> QED
  BY <1>5, <1>6 DEF FifoKept

\* Get does not give up a key that is intact.
LEMMA GetFifoKept ==
  ASSUME IndexInv, IndexInv', FifoKept, NEW k \in Keys, Get(k)
  PROVE  FifoKept'
<1>1. /\ TypeOK /\ IndexOK(chunkMap, metaMap) /\ pc = "idle" /\ pending = Nothing
      /\ k \in HashKeys /\ Running /\ fifo' = fifo
      /\ \A i \in 1 .. Len(fifo) : Kept(i)
  BY DEF Get, GetMiss, GetHit, GetCorrupt, IndexInv, IndexMatches, Running, PhasesFit,
         HashKeys, FifoKept, ReplaceMeta, history
<1> SUFFICES ASSUME NEW i \in 1 .. Len(fifo) PROVE Kept(i)'
  BY <1>1 DEF FifoKept
<1>2. Kept(i) /\ fifo[i] \in HashKeys
  BY <1>1 DEF TypeOK
<1>3. CASE GetMiss(k)
  BY <1>2, <1>3 DEF GetMiss, Kept, disk, memory, history
<1>4. CASE GetHit(k)
  <2>1. /\ chunkMap' = [chunkMap EXCEPT ![k] = [chunk |-> chunkMap[k].chunk, dirty |-> FALSE]]
        /\ UNCHANGED <<metaMap, diskData, nextChunk, fifo>>
    BY <1>4 DEF GetHit, disk, history
  <2>2. CASE fifo[i] = k
    <3>1. /\ chunkMap'[k].chunk = chunkMap[k].chunk
      BY <1>1, <2>1 DEF TypeOK
    <3>2. chunkMap'[k] # Missing
      <4>1. chunkMap[k] \in ChunkmapEntry
        BY <1>1, <1>2, <2>2 DEF Kept, TypeOK
      <4>2. chunkMap'[k] \in ChunkmapEntry
        BY <1>1, <2>1, <4>1 DEF TypeOK, ChunkmapEntry
      <4> QED
        BY <4>2, ValuesAssumption
    <3> QED
      BY <1>2, <2>1, <2>2, <3>1, <3>2 DEF Kept
  <2>3. CASE fifo[i] # k
    <3>1. chunkMap'[fifo[i]] = chunkMap[fifo[i]]
      BY <1>1, <1>2, <2>1, <2>3 DEF TypeOK
    <3> QED
      BY <1>2, <2>1, <3>1 DEF Kept
  <2> QED
    BY <2>2, <2>3
<1>5. CASE GetCorrupt(k)
  <2>1. PICK fake \in FreeKeys(ZeroKey, Mapped(chunkMap)) :
          ReplaceMeta(k, [key |-> fake, sum |-> Empty], TRUE)
    BY <1>5 DEF GetCorrupt
  <2> DEFINE new == [key |-> fake, sum |-> Empty]
  <2>2. fake \in HashKeys /\ fake \notin Mapped(chunkMap)
    BY DEF FreeKeys, HashKeys
  <2>3. new \in MetaEntry /\ chunkMap[new.key] = Missing
    BY <2>2, ValuesAssumption DEF MetaEntry, Mapped
  <2>4. k \in Mapped(chunkMap)
    BY <1>1, <1>5 DEF GetCorrupt, Mapped
  <2>5. fifo[i] # k
    BY <1>2, <1>5 DEF GetCorrupt, Servable, Kept
  <2> QED
    BY <1>1, <1>2, <2>1, <2>3, <2>4, <2>5, ReplaceMetaKeeps
<1> QED
  BY <1>3, <1>4, <1>5 DEF Get

\* The data write completes the newest key.
LEMMA AddFinishFifoKept ==
  ASSUME IndexInv, IndexInv', FifoKept, AddFinish
  PROVE  FifoKept'
<1> DEFINE key == metaMap[nextChunk].key
           L == Len(fifo)
<1>1. /\ TypeOK /\ IndexOK(chunkMap, metaMap) /\ pc = "data" /\ pending # Nothing
      /\ Running /\ metaMap[nextChunk].sum = pending /\ nextChunk \in Chunks
  BY DEF AddFinish, IndexInv, IndexMatches, Running, PhasesFit, TypeOK
<1>2. /\ key \in HashKeys /\ fifo \in Seq(HashKeys) /\ L \in Nat /\ L <= ChunkCount
      /\ ChunkCount \in Nat \ {0}
  BY <1>1, SizesAssumption DEF TypeOK, MetaEntry, FifoKept
<1>3. /\ fifo' = Append(IF L = ChunkCount THEN Tail(fifo) ELSE fifo, key)
      /\ diskData' = IF pending = Empty THEN diskData
                                        ELSE [diskData EXCEPT ![nextChunk] = pending]
      /\ nextChunk' = Advance(nextChunk) /\ pending' = Nothing
      /\ UNCHANGED <<metaMap, chunkMap>>
  BY DEF AddFinish
<1>4. PICK n \in Nat : n = Len(fifo')
  <2>1. Len(fifo') \in Nat
    BY DEF IndexInv, TypeOK
  <2> QED
    BY <2>1
<1>5. /\ n = (IF L = ChunkCount THEN ChunkCount ELSE L + 1)
      /\ fifo'[n] = key
      /\ \A i \in 1 .. n - 1 : fifo'[i] = (IF L = ChunkCount THEN fifo[i + 1] ELSE fifo[i])
  <2> HIDE DEF key
  <2> QED
    BY <1>2, <1>3, <1>4, QueueGrows
<1>6. Kept(n)'
  <2>1. chunkMap[key] # Missing /\ chunkMap[key].chunk = nextChunk
    BY <1>1 DEF IndexOK
  <2>2. (nextChunk + 1) % ChunkCount = Advance(nextChunk)
    <3>1. 1 \in 1 .. ChunkCount /\ nextChunk \in Nat /\ nextChunk < ChunkCount
      BY <1>1, <1>2 DEF Chunks
    <3> QED
      BY <1>1, <1>2, <3>1, Around DEF Advance
  <2>3. n - n + 1 = 1
    BY <1>4
  <2>4. Intact(metaMap[nextChunk], diskData'[nextChunk])
    BY <1>1, <1>3 DEF Intact, TypeOK
  <2> QED
    BY <1>3, <1>4, <1>5, <2>1, <2>2, <2>3, <2>4 DEF Kept
<1>7. ASSUME NEW i \in 1 .. n - 1
      PROVE  Kept(i)'
  <2>1. PICK j \in 1 .. L : /\ fifo'[i] = fifo[j]
                            /\ L - j + 1 < ChunkCount
                            /\ n - i + 1 = (L - j + 1) + 1
    <3>1. CASE L = ChunkCount
      <4>1. i + 1 \in 1 .. L
        BY <1>2, <1>5, <1>7, <3>1
      <4>2. L - (i + 1) + 1 < ChunkCount /\ n - i + 1 = (L - (i + 1) + 1) + 1
        BY <1>2, <1>5, <1>7, <3>1
      <4> QED
        BY <1>5, <1>7, <3>1, <4>1, <4>2
    <3>2. CASE L # ChunkCount
      <4>1. i \in 1 .. L /\ L - i + 1 < ChunkCount /\ n - i + 1 = (L - i + 1) + 1
        BY <1>2, <1>5, <1>7, <3>2
      <4> QED
        BY <1>5, <1>7, <3>2, <4>1
    <3> QED
      BY <3>1, <3>2
  <2> DEFINE e == chunkMap[fifo[j]]
             a == L - j + 1
  <2>2. Kept(j)
    BY <1>1, <2>1 DEF FifoKept
  <2>3. e.chunk \in Chunks
    BY <1>1, <1>2, <2>1, <2>2 DEF Kept, TypeOK, ChunkmapEntry
  <2>4. a \in 1 .. ChunkCount /\ a < ChunkCount
    BY <1>2, <2>1
  <2>5. (e.chunk + a) % ChunkCount = nextChunk
    BY <2>2 DEF Kept
  <2>6. e.chunk # nextChunk /\ (e.chunk + (a + 1)) % ChunkCount = Advance(nextChunk)
    <3> HIDE DEF e, a
    <3> QED
      BY <1>1, <2>3, <2>4, <2>5, OneFurther
  <2>7. diskData'[e.chunk] = diskData[e.chunk]
    BY <1>1, <1>3, <2>3, <2>6 DEF TypeOK
  <2> QED
    BY <1>3, <1>4, <2>1, <2>2, <2>6, <2>7 DEF Kept
<1>8. n \in Nat /\ n <= ChunkCount
  BY <1>2, <1>5
<1>9. \A i \in 1 .. n : i = n \/ i \in 1 .. n - 1
  BY <1>8
<1> QED
  BY <1>4, <1>6, <1>7, <1>8, <1>9 DEF FifoKept

LEMMA StepFifoKept ==
  IndexInv /\ IndexInv' /\ StoreInv /\ StoreInv' /\ FifoKept /\ [Next]_vars => FifoKept'
<1> SUFFICES ASSUME IndexInv, IndexInv', StoreInv, StoreInv', FifoKept, [Next]_vars
             PROVE  FifoKept'
  OBVIOUS
<1>1. CASE Open
  <2>1. UNCHANGED history /\ ~ Running
    BY <1>1 DEF Open, Create, Truncate, OpenExisting, OpenRefused, Load, Running
  <2> QED
    BY <2>1, FreshFifoKept DEF StoreInv, HistoryFresh, history
<1>2. CASE Close \/ Crash
  BY <1>2, FreshFifoKept DEF Close, Crash, Stopped
<1>3. CASE \E k \in Keys : Get(k)
  BY <1>3, GetFifoKept
<1>4. ASSUME NEW k \in Keys, NEW v \in Values, Add(k, v)
      PROVE  FifoKept'
  <2>1. CASE AddDeclined(k)
    BY <2>1 DEF AddDeclined, FifoKept, Kept, disk, memory, history, Running
  <2> QED
    BY <1>4, <2>1, AddStartFifoKept DEF Add
<1>5. CASE WriteHint
  <2>1. Running /\ UNCHANGED <<metaMap, diskData, chunkMap, nextChunk, pending, fifo>>
    BY <1>5 DEF WriteHint, memory, Running
  <2> QED
    BY <2>1 DEF FifoKept, Kept
<1>6. CASE AddFinish
  BY <1>6, AddFinishFifoKept
<1>7. CASE UNCHANGED vars
  BY <1>7 DEF vars, disk, memory, history, FifoKept, Kept, Running
<1> QED
  BY <1>1, <1>2, <1>3, <1>4, <1>5, <1>6, <1>7 DEF Next

\* Eviction is first in, first out and never early: the last ChunkCount keys a run
\* added are all served, each with its data intact and at its place in the ring,
\* over every verification, replacement and corrupted neighbour.
THEOREM LastAddsAreKept == Spec => []LastAddsAreServed
<1>1. Init => FifoKept
  BY SizesAssumption DEF Init, FifoKept, Running
<1>2. IndexInv /\ FifoKept => LastAddsAreServed
  <2> SUFFICES ASSUME IndexInv, FifoKept, pc = "idle", NEW i \in 1 .. Len(fifo)
               PROVE  LET e == chunkMap[fifo[i]] IN
                      /\ e # Missing
                      /\ (e.chunk + Len(fifo) - i + 1) % ChunkCount = nextChunk
                      /\ Intact(metaMap[e.chunk], diskData[e.chunk])
    BY DEF LastAddsAreServed
  <2>1. Kept(i)
    BY DEF FifoKept, IndexInv, PhasesFit, Running
  <2>2. fifo[i] \in HashKeys /\ Len(fifo) \in Nat /\ i \in Nat
    BY DEF IndexInv, TypeOK
  <2>3. chunkMap[fifo[i]].chunk \in Nat
    BY <2>1, <2>2 DEF Kept, IndexInv, TypeOK, ChunkmapEntry, Chunks
  <2>4. chunkMap[fifo[i]].chunk + Len(fifo) - i + 1
          = chunkMap[fifo[i]].chunk + (Len(fifo) - i + 1)
    BY <2>2, <2>3
  <2> QED
    BY <2>1, <2>4 DEF Kept
<1> QED
  BY <1>1, <1>2, StepFifoKept, StoreInvariant, PTL DEF Spec

-----------------------------------------------------------------------------
(* The hint skips what was written since *)

\* The chunks filled since the hint was written at chunk p lie before e, and the
\* next chunk that saves a hint was not passed.
FilledTo(p, e) ==
  /\ p <= e /\ e <= ChunkCount
  /\ \A c \in hinted : p <= c /\ c < e
  /\ e <= HintPeriod * (p \div HintPeriod) + HintPeriod

HintInv ==
  hinted # Nothing =>
    \E p \in Chunks :
      /\ diskHint = p + HintSlack
      /\ FilledTo(p, nextChunk) \/ (nextChunk = 0 /\ FilledTo(p, ChunkCount))
      /\ pc = "data" /\ nextChunk % HintPeriod = 0 => hinted = {} /\ nextChunk = p

\* Multiples of the period.
LEMMA Multiples ==
  ASSUME NEW m \in Nat
  PROVE  (HintPeriod * m) % HintPeriod = 0
<1> DEFINE x == HintPeriod * m
           q == x \div HintPeriod
           r == x % HintPeriod
<1>1. HintPeriod \in Nat \ {0} /\ x \in Nat
  BY SizesAssumption
<1>2. x = HintPeriod * q + r /\ r \in 0 .. HintPeriod - 1 /\ q \in Nat
  <2> HIDE DEF x
  <2> QED
    BY <1>1, Division
<1> HIDE DEF q, r
<1>3. HintPeriod * q \in Nat /\ HintPeriod * m \in Nat
  BY <1>1, <1>2
<1>4. CASE m < q
  <2>1. HintPeriod * (m + 1) <= HintPeriod * q
    BY <1>1, <1>2, <1>4, ProductGrows
  <2>2. HintPeriod * (m + 1) = HintPeriod * m + HintPeriod
    BY <1>1
  <2> QED
    BY <1>1, <1>2, <1>3, <2>1, <2>2
<1>5. CASE q < m
  <2>1. HintPeriod * (q + 1) <= HintPeriod * m
    BY <1>1, <1>2, <1>5, ProductGrows
  <2>2. HintPeriod * (q + 1) = HintPeriod * q + HintPeriod
    BY <1>1, <1>2
  <2> QED
    BY <1>1, <1>2, <1>3, <2>1, <2>2
<1>6. CASE q = m
  <2>1. r = 0
    BY <1>2, <1>3, <1>6
  <2> QED
    BY <2>1 DEF r
<1> QED
  BY <1>2, <1>4, <1>5, <1>6

\* The chunk at hand lies before the next one that saves a hint, and is not that.
LEMMA BeforeNextHint ==
  ASSUME NEW c \in Chunks
  PROVE  /\ c <= HintPeriod * (c \div HintPeriod) + HintPeriod
         /\ c + 1 <= HintPeriod * (c \div HintPeriod) + HintPeriod
         /\ HintPeriod * (c \div HintPeriod) <= c
         /\ HintPeriod * (c \div HintPeriod) \in Nat
         /\ \A n \in Nat : n = HintPeriod * (c \div HintPeriod) + HintPeriod =>
              n % HintPeriod = 0
<1> DEFINE q == c \div HintPeriod
           r == c % HintPeriod
<1>1. HintPeriod \in Nat \ {0} /\ c \in Nat
  BY SizesAssumption DEF Chunks
<1>2. c = HintPeriod * q + r /\ r \in 0 .. HintPeriod - 1 /\ q \in Nat
  BY <1>1, Division
<1> HIDE DEF q, r
<1>3. HintPeriod * q \in Nat
  BY <1>1, <1>2
<1>4. HintPeriod * (q + 1) = HintPeriod * q + HintPeriod /\ q + 1 \in Nat
  BY <1>1, <1>2
<1>5. (HintPeriod * (q + 1)) % HintPeriod = 0
  BY <1>4, Multiples
<1>6. /\ c <= HintPeriod * q + HintPeriod
      /\ c + 1 <= HintPeriod * q + HintPeriod
      /\ HintPeriod * q <= c
  BY <1>1, <1>2, <1>3
<1> QED
  BY <1>3, <1>4, <1>5, <1>6 DEF q

LEMMA ZeroSavesHint == 0 % HintPeriod = 0
<1>1. HintPeriod * 0 = 0
  BY SizesAssumption
<1> QED
  BY <1>1, Multiples

\* The steps that write neither the hint nor a chunk, and do not start to.
LEMMA ElsewhereHintInv ==
  ASSUME HintInv, UNCHANGED <<diskHint, nextChunk, hinted>>,
         pc' = "data" => pc = "data" \/ nextChunk % HintPeriod # 0
  PROVE  HintInv'
<1> SUFFICES ASSUME hinted # Nothing
             PROVE  \E p \in Chunks :
                      /\ diskHint' = p + HintSlack
                      /\ FilledTo(p, nextChunk)' \/ (nextChunk' = 0 /\ FilledTo(p, ChunkCount)')
                      /\ pc' = "data" /\ nextChunk' % HintPeriod = 0 =>
                           hinted' = {} /\ nextChunk' = p
  BY DEF HintInv, FilledTo
<1>1. PICK p \in Chunks :
        /\ diskHint = p + HintSlack
        /\ FilledTo(p, nextChunk) \/ (nextChunk = 0 /\ FilledTo(p, ChunkCount))
        /\ pc = "data" /\ nextChunk % HintPeriod = 0 => hinted = {} /\ nextChunk = p
  BY DEF HintInv
<1>2. FilledTo(p, nextChunk)' \/ (nextChunk' = 0 /\ FilledTo(p, ChunkCount)')
  BY <1>1 DEF FilledTo
<1> QED
  BY <1>1, <1>2

\* A hint that is written covers nothing yet.
LEMMA WriteHintHintInv ==
  ASSUME IndexInv, WriteHint
  PROVE  HintInv'
<1>1. /\ nextChunk \in Chunks /\ diskHint' = nextChunk + HintSlack /\ hinted' = {}
      /\ nextChunk' = nextChunk
  BY DEF IndexInv, TypeOK, WriteHint, Hint, memory
<1>2. nextChunk \in Nat /\ nextChunk <= ChunkCount
  BY <1>1, SizesAssumption DEF Chunks
<1>3. FilledTo(nextChunk, nextChunk)'
  BY <1>1, <1>2, BeforeNextHint DEF FilledTo
<1> QED
  BY <1>1, <1>3 DEF HintInv

\* Add fills a chunk that the hint covers, and where a hint is due it was written.
LEMMA AddFinishHintInv ==
  ASSUME IndexInv, HintInv, AddFinish
  PROVE  HintInv'
<1> SUFFICES ASSUME hinted # Nothing PROVE HintInv'
  BY DEF AddFinish, HintInv
<1>1. /\ nextChunk \in Chunks /\ nextChunk \in Nat /\ nextChunk < ChunkCount
      /\ ChunkCount \in Nat
  BY SizesAssumption DEF IndexInv, TypeOK, Chunks
<1>2. /\ pc = "data" /\ pc' = "idle" /\ diskHint' = diskHint
      /\ hinted' = hinted \cup {nextChunk} /\ nextChunk' = Advance(nextChunk)
  BY DEF AddFinish
<1>3. nextChunk' = nextChunk + 1 \/ (nextChunk' = 0 /\ nextChunk + 1 = ChunkCount)
  BY <1>1, <1>2 DEF Advance
<1>4. PICK p \in Chunks :
        /\ diskHint = p + HintSlack
        /\ FilledTo(p, nextChunk) \/ (nextChunk = 0 /\ FilledTo(p, ChunkCount))
        /\ nextChunk % HintPeriod = 0 => hinted = {} /\ nextChunk = p
  BY <1>2 DEF HintInv
<1>5. p \in Nat
  BY <1>4 DEF Chunks
<1>6. PICK n \in Nat : n = nextChunk
  BY <1>1
<1>7. /\ p <= n + 1 /\ n + 1 <= ChunkCount
      /\ \A c \in hinted' : p <= c /\ c < n + 1
      /\ n + 1 <= HintPeriod * (p \div HintPeriod) + HintPeriod
  <2>1. CASE n % HintPeriod = 0
    BY <1>1, <1>2, <1>4, <1>5, <1>6, <2>1, BeforeNextHint
  <2>2. CASE n % HintPeriod # 0
    <3>1. n # 0
      BY <2>2, ZeroSavesHint
    <3>2. /\ p <= n /\ n <= HintPeriod * (p \div HintPeriod) + HintPeriod
          /\ \A c \in hinted : p <= c /\ c < n
      BY <1>4, <1>6, <3>1 DEF FilledTo
    <3>3. n # HintPeriod * (p \div HintPeriod) + HintPeriod
      BY <1>6, <2>2, BeforeNextHint
    <3>4. n + 1 <= HintPeriod * (p \div HintPeriod) + HintPeriod
      <4>1. HintPeriod * (p \div HintPeriod) \in Nat /\ HintPeriod \in Nat
        BY BeforeNextHint, SizesAssumption
      <4> DEFINE b == HintPeriod * (p \div HintPeriod)
      <4> HIDE DEF b
      <4>2. b \in Nat /\ n <= b + HintPeriod /\ n # b + HintPeriod
        BY <3>2, <3>3, <4>1 DEF b
      <4>3. n + 1 <= b + HintPeriod
        BY <4>1, <4>2
      <4> QED
        BY <4>3 DEF b
    <3>5. \A c \in hinted : c \in Nat
      BY DEF IndexInv, TypeOK, Chunks
    <3>6. \A c \in hinted' : p <= c /\ c < n + 1
      BY <1>2, <1>5, <1>6, <3>2, <3>5
    <3> QED
      BY <1>1, <1>5, <1>6, <3>2, <3>4, <3>6
  <2> QED
    BY <2>1, <2>2
<1>8. FilledTo(p, nextChunk)' \/ (nextChunk' = 0 /\ FilledTo(p, ChunkCount)')
  BY <1>3, <1>6, <1>7 DEF FilledTo
<1> QED
  BY <1>2, <1>4, <1>8 DEF HintInv

LEMMA StepHintInv ==
  IndexInv /\ StoreInv /\ StoreInv' /\ HintInv /\ [Next]_vars => HintInv'
<1> SUFFICES ASSUME IndexInv, StoreInv, StoreInv', HintInv, [Next]_vars PROVE HintInv'
  OBVIOUS
<1>1. CASE Open \/ Close \/ Crash
  <2>1. hinted' = Nothing
    BY <1>1 DEF Open, Create, Truncate, OpenExisting, OpenRefused, Load, Close, Crash,
                Stopped, history, StoreInv, HistoryFresh, Running
  <2> QED
    BY <2>1 DEF HintInv
<1>2. ASSUME NEW k \in Keys, Get(k)
      PROVE  HintInv'
  <2>1. UNCHANGED <<diskHint, nextChunk, hinted>>
    BY <1>2 DEF Get, GetMiss, GetHit, GetCorrupt, ReplaceMeta, disk, memory, history
  <2>2. pc' # "data"
    BY <1>2 DEF Get, GetMiss, GetHit, GetCorrupt, ReplaceMeta, AfterReplace, IndexInv, PhasesFit
  <2> QED
    BY <2>1, <2>2, ElsewhereHintInv
<1>3. ASSUME NEW k \in Keys, NEW v \in Values, Add(k, v)
      PROVE  HintInv'
  <2>1. CASE AddDeclined(k)
    BY <2>1, ElsewhereHintInv DEF AddDeclined, disk, memory, history
  <2>2. CASE AddStart(k, v)
    <3>1. UNCHANGED <<diskHint, nextChunk, hinted>>
      BY <2>2 DEF AddStart, ReplaceMeta, history
    <3>2. ChunkOf(metaMap[nextChunk].key) = nextChunk
      BY <2>2 DEF AddStart, IndexInv, IndexMatches, IndexOK, Running, ChunkOf, TypeOK
    <3>3. pc' = "data" => nextChunk % HintPeriod # 0
      BY <2>2, <3>2 DEF AddStart, ReplaceMeta
    <3> QED
      BY <3>1, <3>3, ElsewhereHintInv
  <2> QED
    BY <1>3, <2>1, <2>2 DEF Add
<1>4. CASE WriteHint
  BY <1>4, WriteHintHintInv
<1>5. CASE AddFinish
  BY <1>5, AddFinishHintInv
<1>6. CASE UNCHANGED vars
  BY <1>6, ElsewhereHintInv DEF vars, disk, memory, history
<1> QED
  BY <1>1, <1>2, <1>3, <1>4, <1>5, <1>6 DEF Next

\* With a slack of at least the period (520 and 512) and a ring longer than the
\* slack (32768 chunks), a run that is killed after it saved a hint is followed by
\* one that starts at a chunk not filled since.
THEOREM HintsSkipNewData ==
  ASSUME HintPeriod <= HintSlack, HintSlack < ChunkCount
  PROVE  Spec => []HintSkipsNewData
<1>1. Init => HintInv
  BY DEF Init, HintInv
<1>2. IndexInv /\ HintInv => HintSkipsNewData
  <2> SUFFICES ASSUME IndexInv, HintInv, hinted # Nothing, Resume(diskHint) \in hinted
               PROVE  FALSE
    BY DEF HintSkipsNewData
  <2>1. PICK p \in Chunks :
          /\ diskHint = p + HintSlack
          /\ \/ FilledTo(p, nextChunk)
             \/ nextChunk = 0 /\ FilledTo(p, ChunkCount)
    BY DEF HintInv
  <2>2. PICK e \in Nat : FilledTo(p, e)
    BY <2>1, SizesAssumption DEF IndexInv, TypeOK, Chunks
  <2>3. /\ p \in Nat /\ HintSlack \in Nat /\ ChunkCount \in Nat /\ HintPeriod \in Nat
    BY SizesAssumption DEF Chunks
  <2>4. e <= p + HintPeriod
    <3> DEFINE b == HintPeriod * (p \div HintPeriod)
    <3>1. b \in Nat /\ b <= p /\ e <= b + HintPeriod
      BY <2>2, BeforeNextHint DEF FilledTo
    <3> HIDE DEF b
    <3> QED
      BY <2>2, <2>3, <3>1
  <2>5. p <= Resume(diskHint) /\ Resume(diskHint) < e
    BY <2>2 DEF FilledTo
  <2> QED
    BY <2>1, <2>2, <2>3, <2>4, <2>5 DEF Resume
<1> QED
  BY <1>1, <1>2, StepHintInv, StoreInvariant, PTL DEF Spec

-----------------------------------------------------------------------------
(* The refinement of LossyStore *)

\* Chunk c holds the data of key k.
Holds(meta, data, c, k) == meta[c].key = k /\ Intact(meta[c], data[c])

\* The abstract store of a metadata table and a data area.
StoreOf(meta, data) ==
  [k \in Keys |->
     IF \E c \in Chunks : Holds(meta, data, c, k)
       THEN meta[CHOOSE c \in Chunks : Holds(meta, data, c, k)].sum
       ELSE Missing]

Once(meta) ==
  \A c, d \in Chunks : meta[c].key = meta[d].key /\ c # d => meta[c].key \notin Keys

LEMMA StoredIs ==
  /\ Stored = StoreOf(diskMeta, diskData)
  /\ Stored' = StoreOf(diskMeta', diskData')
  /\ KeysOnceOnDisk => Once(diskMeta)
  /\ KeysOnceOnDisk' => Once(diskMeta')
BY DEF Stored, StoreOf, Holds, KeysOnceOnDisk, Once

\* Without double keys the store has what the one chunk of a key holds.
LEMMA StoreOfHolds ==
  ASSUME NEW meta, NEW data, Once(meta), NEW k \in Keys
  PROVE  /\ \A c \in Chunks : Holds(meta, data, c, k) => StoreOf(meta, data)[k] = meta[c].sum
         /\ (\A c \in Chunks : ~ Holds(meta, data, c, k)) => StoreOf(meta, data)[k] = Missing
<1>1. ASSUME NEW c \in Chunks, Holds(meta, data, c, k)
      PROVE  StoreOf(meta, data)[k] = meta[c].sum
  <2> DEFINE d == CHOOSE d \in Chunks : Holds(meta, data, d, k)
  <2>1. d \in Chunks /\ Holds(meta, data, d, k)
    BY <1>1
  <2>2. StoreOf(meta, data)[k] = meta[d].sum
    BY <1>1 DEF StoreOf
  <2> HIDE DEF d
  <2>3. d = c
    BY <1>1, <2>1 DEF Holds, Once
  <2> QED
    BY <2>2, <2>3
<1>2. ASSUME \A c \in Chunks : ~ Holds(meta, data, c, k)
      PROVE  StoreOf(meta, data)[k] = Missing
  BY <1>2 DEF StoreOf
<1> QED
  BY <1>1, <1>2

\* A key keeps its value if the chunks that hold it stay as they are.
LEMMA StoreOfKeeps ==
  ASSUME NEW m1, NEW d1, NEW m2, NEW d2, Once(m1), Once(m2), NEW k \in Keys,
         \A c \in Chunks :
           /\ Holds(m1, d1, c, k) <=> Holds(m2, d2, c, k)
           /\ Holds(m1, d1, c, k) => m1[c].sum = m2[c].sum
  PROVE  StoreOf(m2, d2)[k] = StoreOf(m1, d1)[k]
<1>1. CASE \E c \in Chunks : Holds(m1, d1, c, k)
  <2>1. PICK c \in Chunks : Holds(m1, d1, c, k)
    BY <1>1
  <2>2. Holds(m2, d2, c, k) /\ m1[c].sum = m2[c].sum
    BY <2>1
  <2> QED
    BY <2>1, <2>2, StoreOfHolds
<1>2. CASE \A c \in Chunks : ~ Holds(m1, d1, c, k)
  BY <1>2, StoreOfHolds
<1> QED
  BY <1>1, <1>2

LEMMA StoreOfSame ==
  ASSUME NEW m1, NEW d1, NEW m2, NEW d2,
         \A k \in Keys : StoreOf(m2, d2)[k] = StoreOf(m1, d1)[k]
  PROVE  StoreOf(m2, d2) = StoreOf(m1, d1)
<1>1. StoreOf(m1, d1) = [k \in Keys |-> StoreOf(m1, d1)[k]]
  BY DEF StoreOf
<1>2. StoreOf(m2, d2) = [k \in Keys |-> StoreOf(m2, d2)[k]]
  BY DEF StoreOf
<1> QED
  BY <1>1, <1>2, Zenon

\* A caller of the running cache sees in the store what Get would serve.
LEMMA StoreServes ==
  ASSUME IndexInv, StoreInv, pc = "idle", NEW k \in Keys
  PROVE  /\ Servable(k) => /\ Stored[k] = metaMap[chunkMap[k].chunk].sum
                           /\ Stored[k] \in Values
                           /\ Intact(metaMap[chunkMap[k].chunk], diskData[chunkMap[k].chunk])
         /\ ~ Servable(k) => Stored[k] = Missing
<1>1. /\ TypeOK /\ IndexOK(chunkMap, metaMap) /\ Running /\ DiskFollows /\ KeysOnceOnDisk
      /\ CleanIsIntact /\ pending = Nothing
  BY DEF IndexInv, IndexMatches, Running, StoreInv, PhasesFit
<1>2. /\ Stored = StoreOf(diskMeta, diskData)
      /\ Once(diskMeta)
  BY <1>1, StoredIs
<1>3. \A c \in Chunks : diskMeta[c].key = k => chunkMap[k] # Missing /\ chunkMap[k].chunk = c
  BY <1>1, IndexFindsDisk
<1> DEFINE c == chunkMap[k].chunk
<1>4. ASSUME chunkMap[k] # Missing
      PROVE  /\ c \in Chunks /\ diskMeta[c].key = k /\ metaMap[c].sum = diskMeta[c].sum
             /\ metaMap[c].sum \in Values
             /\ Intact(metaMap[c], diskData[c]) <=> Holds(diskMeta, diskData, c, k)
  <2>1. c \in Chunks /\ diskMeta[c].key = k
    BY <1>1, <1>4, IndexFindsDisk
  <2>2. metaMap[c].sum = diskMeta[c].sum /\ metaMap[c].sum \in Values
    BY <1>1, <2>1 DEF DiskFollows, TypeOK, MetaEntry
  <2> QED
    BY <2>1, <2>2 DEF Holds, Intact
<1>5. ASSUME Servable(k)
      PROVE  /\ Stored[k] = metaMap[c].sum
             /\ Stored[k] \in Values
             /\ Intact(metaMap[c], diskData[c])
  <2>1. chunkMap[k] # Missing
    BY <1>5 DEF Servable
  <2>2. k \in Mapped(chunkMap)
    BY <2>1 DEF Mapped, HashKeys
  <2>3. Intact(metaMap[c], diskData[c])
    BY <1>1, <1>5, <2>2 DEF Servable, CleanIsIntact
  <2> QED
    BY <1>2, <1>4, <2>1, <2>3, StoreOfHolds
<1>6. ASSUME ~ Servable(k)
      PROVE  Stored[k] = Missing
  <2>1. \A b \in Chunks : ~ Holds(diskMeta, diskData, b, k)
    <3> SUFFICES ASSUME NEW b \in Chunks, Holds(diskMeta, diskData, b, k) PROVE FALSE
      OBVIOUS
    <3>1. chunkMap[k] # Missing /\ c = b
      BY <1>3 DEF Holds
    <3> QED
      BY <1>4, <1>6, <3>1 DEF Servable
  <2> QED
    BY <1>2, <2>1, StoreOfHolds
<1> QED
  BY <1>5, <1>6

\* The Add in progress is known by the value it has yet to write.
LEMMA OfferedIs ==
  /\ IndexInv => Offered = IF pending # Nothing
                             THEN <<metaMap[nextChunk].key, pending>> ELSE Nothing
  /\ IndexInv' => Offered' = IF pending' # Nothing
                               THEN <<metaMap'[nextChunk'].key, pending'>> ELSE Nothing
BY DEF Offered, IndexInv, PhasesFit

LEMMA OfferedIsSome ==
  ASSUME IndexInv, pending # Nothing
  PROVE  Offered # Nothing /\ Offered = <<metaMap[nextChunk].key, pending>>
<1>1. metaMap[nextChunk].key \in HashKeys /\ pending \in Values
  BY DEF IndexInv, TypeOK, MetaEntry
<1>2. <<metaMap[nextChunk].key, pending>> \in HashKeys \X Values
  BY <1>1
<1> QED
  BY <1>2, OfferedIs, ValuesAssumption

\* The steps that show nothing to a caller.
LEMMA QuietSteps ==
  ASSUME IndexInv, IndexInv', Open \/ Close \/ WriteHint \/ UNCHANGED vars
  PROVE  UNCHANGED <<Stored, Offered, reply>>
<1>1. UNCHANGED <<diskMeta, diskData, reply>>
  BY DEF Open, Create, Truncate, OpenExisting, OpenRefused, Load, Close, Stopped, WriteHint,
         vars, disk
<1>2. Stored' = Stored
  BY <1>1, StoredIs
<1>3. CASE Open \/ Close
  <2>1. pending = Nothing /\ pending' = Nothing
    BY <1>3 DEF Open, Create, Truncate, OpenExisting, OpenRefused, Load, Close, Stopped,
                IndexInv, PhasesFit
  <2> QED
    BY <1>1, <1>2, <2>1, OfferedIs
<1>4. CASE WriteHint \/ UNCHANGED vars
  <2>1. UNCHANGED <<metaMap, nextChunk, pending>>
    BY <1>4 DEF WriteHint, vars, memory
  <2> QED
    BY <1>1, <1>2, <2>1, OfferedIs
<1> QED
  BY <1>3, <1>4

\* A kill loses at most the Add in progress: where its data was torn there was
\* nothing to serve before, and there is nothing after.
LEMMA CrashAbandons ==
  ASSUME IndexInv, IndexInv', StoreInv, StoreInv', Crash
  PROVE  Lossy!Abandon \/ UNCHANGED <<Stored, Offered, reply>>
<1>1. /\ diskMeta' = diskMeta /\ reply' = reply /\ pending' = Nothing
      /\ pc = "data" => pending # Nothing
  BY DEF Crash, Stopped, IndexInv, PhasesFit
<1>2. Offered' = Nothing
  BY <1>1, OfferedIs
<1>3. CASE diskData' = diskData
  <2>1. Stored' = Stored
    BY <1>1, <1>3, StoredIs
  <2> QED
    BY <1>1, <1>2, <2>1 DEF Lossy!Abandon
<1>4. CASE diskData' # diskData
  <2>1. /\ pc = "data" /\ pending # Nothing /\ pending # Empty /\ diskData[nextChunk] # pending
        /\ diskData' = [diskData EXCEPT ![nextChunk] = Torn]
    BY <1>1, <1>4 DEF Crash
  <2>2. /\ nextChunk \in Chunks /\ diskData \in [Chunks -> Values \cup {Torn}]
        /\ pending \in Values
    BY <2>1 DEF IndexInv, TypeOK
  <2>3. diskMeta[nextChunk].sum = pending
    BY <2>1, <2>2 DEF IndexInv, PhasesFit, StoreInv, DiskFollows, Running
  <2>4. /\ ~ Intact(diskMeta[nextChunk], diskData[nextChunk])
        /\ ~ Intact(diskMeta[nextChunk], diskData'[nextChunk])
    BY <2>1, <2>2, <2>3, ValuesAssumption DEF Intact
  <2>5. \A c \in Chunks, k \in Keys :
          Holds(diskMeta, diskData, c, k) <=> Holds(diskMeta, diskData', c, k)
    BY <2>1, <2>2, <2>4 DEF Holds
  <2>6. Once(diskMeta)
    BY StoredIs DEF StoreInv
  <2>7. \A k \in Keys : StoreOf(diskMeta, diskData')[k] = StoreOf(diskMeta, diskData)[k]
    BY <2>5, <2>6, StoreOfKeeps
  <2>8. Stored' = Stored
    BY <1>1, <2>7, StoreOfSame, StoredIs
  <2>9. Offered # Nothing
    BY <2>1, OfferedIsSome
  <2> QED
    BY <1>1, <1>2, <2>8, <2>9 DEF Lossy!Abandon
<1> QED
  BY <1>3, <1>4

\* Get answers with what the store has under the key.
LEMMA GetLooksUp ==
  ASSUME IndexInv, IndexInv', StoreInv, StoreInv', NEW k \in Keys, Get(k)
  PROVE  Lossy!Lookup(k)
<1>1. /\ pc = "idle" /\ pending = Nothing /\ pending' = Nothing
      /\ TypeOK /\ IndexOK(chunkMap, metaMap) /\ Running
  BY DEF Get, GetMiss, GetHit, GetCorrupt, IndexInv, IndexMatches, PhasesFit, Running
<1>2. Offered = Nothing /\ Offered' = Nothing
  BY <1>1, OfferedIs
<1>3. CASE GetMiss(k)
  <2>1. UNCHANGED <<diskMeta, diskData>> /\ ~ Servable(k)
    BY <1>3 DEF GetMiss, disk, Servable
  <2>2. Stored' = Stored /\ Stored[k] = Missing
    BY <1>1, <2>1, StoredIs, StoreServes
  <2> QED
    BY <1>2, <1>3, <2>2 DEF Lossy!Lookup, GetMiss
<1>4. CASE GetHit(k)
  <2>1. UNCHANGED <<diskMeta, diskData>> /\ Servable(k)
    BY <1>4 DEF GetHit, disk
  <2>2. Stored' = Stored
    BY <2>1, StoredIs
  <2>3. /\ Stored[k] = metaMap[chunkMap[k].chunk].sum
        /\ Stored[k] # Missing
        /\ Intact(metaMap[chunkMap[k].chunk], diskData[chunkMap[k].chunk])
    BY <1>1, <2>1, StoreServes, ValuesAssumption
  <2>4. reply' = [kind |-> "hit", key |-> k, val |-> Stored[k]]
    BY <1>4, <2>3 DEF GetHit, Intact
  <2> QED
    BY <1>2, <2>2, <2>3, <2>4 DEF Lossy!Lookup
<1>5. CASE GetCorrupt(k)
  <2> DEFINE chunk == chunkMap[k].chunk
  <2>1. PICK fake \in FreeKeys(ZeroKey, Mapped(chunkMap)) :
          ReplaceMeta(k, [key |-> fake, sum |-> Empty], TRUE)
    BY <1>5 DEF GetCorrupt
  <2>2. fake \in HashKeys /\ fake \notin Mapped(chunkMap) /\ fake \notin Keys
    BY KeysAssumption DEF FreeKeys, HashKeys
  <2>3. /\ [key |-> fake, sum |-> Empty] \in MetaEntry
        /\ chunkMap[[key |-> fake, sum |-> Empty].key] = Missing
    BY <2>2, ValuesAssumption DEF MetaEntry, Mapped
  <2>4. k \in Mapped(chunkMap) /\ chunkMap[k] # Missing /\ ~ Servable(k)
    BY <1>5 DEF GetCorrupt, Mapped, HashKeys
  <2>5. /\ chunk \in Chunks /\ diskData' = diskData
        /\ diskMeta'[chunk] = [key |-> fake, sum |-> Empty]
        /\ \A c \in Chunks \ {chunk} : diskMeta'[c] = diskMeta[c]
    BY <1>1, <2>1, <2>3, <2>4, ReplaceMetaWrites
  <2>6. \A w \in Keys : ~ Holds(diskMeta, diskData, chunk, w)
    <3>1. ~ Intact(metaMap[chunk], diskData[chunk])
      BY <2>4 DEF Servable
    <3>2. metaMap[chunk].sum = diskMeta[chunk].sum
      BY <1>1, <2>5 DEF StoreInv, DiskFollows
    <3> QED
      BY <3>1, <3>2 DEF Holds, Intact
  <2>7. \A w \in Keys : ~ Holds(diskMeta', diskData', chunk, w)
    BY <2>2, <2>5 DEF Holds
  <2> HIDE DEF chunk
  <2>8. \A c \in Chunks, w \in Keys :
          /\ Holds(diskMeta, diskData, c, w) <=> Holds(diskMeta', diskData', c, w)
          /\ Holds(diskMeta, diskData, c, w) => diskMeta[c].sum = diskMeta'[c].sum
    BY <2>5, <2>6, <2>7 DEF Holds
  <2>9. \A w \in Keys : StoreOf(diskMeta', diskData')[w] = StoreOf(diskMeta, diskData)[w]
    BY <2>8, StoreOfKeeps, StoredIs DEF StoreInv
  <2>10. Stored' = Stored
    BY <2>9, StoreOfSame, StoredIs
  <2>11. Stored[k] = Missing
    BY <1>1, <2>4, StoreServes
  <2> QED
    BY <1>2, <1>5, <2>10, <2>11 DEF Lossy!Lookup, GetCorrupt
<1> QED
  BY <1>3, <1>4, <1>5 DEF Get

\* An Add of a mapped key is turned down.
LEMMA DeclinedDeclines ==
  ASSUME IndexInv, IndexInv', NEW k \in Keys, AddDeclined(k)
  PROVE  Lossy!Decline(k)
<1>1. pending = Nothing /\ pending' = Nothing /\ UNCHANGED <<diskMeta, diskData>>
  BY DEF AddDeclined, IndexInv, PhasesFit, disk
<1>2. Offered = Nothing /\ Offered' = Nothing /\ Stored' = Stored
  BY <1>1, OfferedIs, StoredIs
<1> QED
  BY <1>2 DEF AddDeclined, Lossy!Decline

\* An Add of a new key gives up the key of the chunk it takes.
LEMMA AddBegins ==
  ASSUME IndexInv, IndexInv', StoreInv, StoreInv', NEW k \in Keys, NEW v \in Values,
         AddStart(k, v)
  PROVE  Lossy!Begin(k, v)
<1> DEFINE old == metaMap[nextChunk].key
           new == [key |-> k, sum |-> v]
           victims == {w \in Keys : w = old}
           early == Intact(new, diskData[nextChunk])
<1>1. /\ pc = "idle" /\ pending = Nothing /\ pending' = v /\ v # Nothing /\ reply' = reply
      /\ TypeOK /\ IndexOK(chunkMap, metaMap) /\ Running /\ DiskFollows
      /\ chunkMap[k] = Missing /\ Once(diskMeta) /\ Once(diskMeta')
  BY StoredIs, ValuesAssumption
     DEF AddStart, IndexInv, IndexMatches, PhasesFit, Running, StoreInv
<1>2. /\ nextChunk \in Chunks /\ old \in Mapped(chunkMap) /\ old # k
      /\ chunkMap[old].chunk = nextChunk
  BY <1>1 DEF TypeOK, MetaEntry, IndexOK, Mapped
<1>3. new \in MetaEntry /\ chunkMap[new.key] = Missing /\ ReplaceMeta(old, new, FALSE)
  BY <1>1 DEF AddStart, MetaEntry, HashKeys
<1>4. /\ metaMap'[nextChunk] = new /\ diskMeta'[nextChunk] = new
      /\ \A c \in Chunks \ {nextChunk} : diskMeta'[c] = diskMeta[c]
      /\ diskData' = diskData /\ nextChunk' = nextChunk
  <2> HIDE DEF old, new
  <2> QED
    BY <1>1, <1>2, <1>3, ReplaceMetaWrites
<1>5. Offered = Nothing /\ Offered' = <<k, v>>
  BY <1>1, <1>4, OfferedIs
<1>6. Stored[k] = Missing
  BY <1>1, StoreServes DEF Servable
<1>7. \A c \in Chunks, w \in Keys :
        diskMeta[c].key = w => w # k /\ (c = nextChunk <=> w = old)
  BY <1>1, <1>2, IndexFindsDisk
<1> HIDE DEF old
<1>8. ASSUME NEW w \in Keys
      PROVE  Stored'[w] = IF w \in victims THEN Missing
                          ELSE IF w = k /\ early THEN v ELSE Stored[w]
  <2>1. CASE w = old
    <3>1. \A c \in Chunks : ~ Holds(diskMeta', diskData', c, w)
      BY <1>2, <1>4, <1>7, <2>1 DEF Holds
    <3> QED
      BY <1>1, <2>1, <3>1, StoreOfHolds, StoredIs
  <2>2. CASE w = k /\ early
    <3>1. Holds(diskMeta', diskData', nextChunk, w) /\ diskMeta'[nextChunk].sum = v
      BY <1>4, <2>2 DEF Holds
    <3> QED
      BY <1>1, <1>2, <2>2, <3>1, StoreOfHolds, StoredIs
  <2>3. CASE w = k /\ ~ early
    <3>1. \A c \in Chunks : ~ Holds(diskMeta', diskData', c, w)
      BY <1>4, <1>7, <2>3 DEF Holds
    <3> QED
      BY <1>1, <1>2, <1>6, <2>3, <3>1, StoreOfHolds, StoredIs
  <2>4. CASE w # old /\ w # k
    <3>1. \A c \in Chunks :
            /\ Holds(diskMeta, diskData, c, w) <=> Holds(diskMeta', diskData', c, w)
            /\ Holds(diskMeta, diskData, c, w) => diskMeta[c].sum = diskMeta'[c].sum
      BY <1>4, <1>7, <2>4 DEF Holds
    <3>2. StoreOf(diskMeta', diskData')[w] = StoreOf(diskMeta, diskData)[w]
      BY <1>1, <3>1, StoreOfKeeps
    <3> QED
      BY <2>4, <3>2, StoredIs
  <2> QED
    BY <2>1, <2>2, <2>3, <2>4
<1>9. victims \in {{}} \cup {{w} : w \in Keys \ {k}} /\ early \in BOOLEAN
  <2>1. early \in BOOLEAN
    BY Zenon DEF Intact
  <2>2. CASE old \in Keys
    BY <1>2, <2>1, <2>2
  <2>3. CASE old \notin Keys
    BY <2>1, <2>3
  <2> QED
    BY <2>2, <2>3
<1> HIDE DEF victims, early
<1>10. Stored' = [w \in Keys |-> IF w \in victims THEN Missing
                                 ELSE IF w = k /\ early THEN v ELSE Stored[w]]
  BY <1>8 DEF Stored
<1> QED
  BY <1>1, <1>5, <1>6, <1>9, <1>10 DEF Lossy!Begin

\* The data write makes the value of the Add the one that is stored.
LEMMA AddFinishes ==
  ASSUME IndexInv, IndexInv', StoreInv, StoreInv', AddFinish
  PROVE  Lossy!Finish
<1> DEFINE key == metaMap[nextChunk].key
<1>1. /\ pc = "data" /\ pending # Nothing /\ pending' = Nothing /\ Running
      /\ TypeOK /\ DiskFollows /\ nextChunk \in Chunks /\ pending \in Values
      /\ diskMeta' = diskMeta /\ Once(diskMeta)
      /\ metaMap[nextChunk].sum = pending /\ key \in Keys
  BY StoredIs DEF AddFinish, IndexInv, TypeOK, PhasesFit, Running, StoreInv, OfferedKey
<1>2. Offered # Nothing /\ Offered = <<key, pending>> /\ Offered' = Nothing
  BY <1>1, OfferedIsSome, OfferedIs
<1>3. reply' = [kind |-> "added", key |-> key, val |-> pending]
  BY DEF AddFinish
<1>4. diskMeta[nextChunk].sum = pending /\ diskMeta[nextChunk].key = key
  BY <1>1, KeysAssumption DEF DiskFollows
<1> HIDE DEF key
<1>5. /\ Intact(diskMeta[nextChunk], diskData'[nextChunk])
      /\ \A c \in Chunks \ {nextChunk} : diskData'[c] = diskData[c]
  BY <1>1, <1>4 DEF AddFinish, Intact, TypeOK
<1>6. ASSUME NEW w \in Keys
      PROVE  Stored'[w] = IF w = key THEN pending ELSE Stored[w]
  <2>1. CASE w = key
    <3>1. Holds(diskMeta, diskData', nextChunk, w)
      BY <1>4, <1>5, <2>1 DEF Holds
    <3>2. StoreOf(diskMeta, diskData')[w] = pending
      BY <1>1, <1>4, <3>1, StoreOfHolds
    <3> QED
      BY <1>1, <2>1, <3>2, StoredIs
  <2>2. CASE w # key
    <3>1. \A c \in Chunks :
            Holds(diskMeta, diskData, c, w) <=> Holds(diskMeta, diskData', c, w)
      BY <1>4, <1>5, <2>2 DEF Holds
    <3>2. StoreOf(diskMeta, diskData')[w] = StoreOf(diskMeta, diskData)[w]
      BY <1>1, <3>1, StoreOfKeeps
    <3> QED
      BY <1>1, <2>2, <3>2, StoredIs
  <2> QED
    BY <2>1, <2>2
<1>7. Stored' = [Stored EXCEPT ![key] = pending]
  BY <1>6 DEF Stored
<1>8. Offered[1] = key /\ Offered[2] = pending
  BY <1>2
<1> QED
  BY <1>2, <1>3, <1>7, <1>8 DEF Lossy!Finish

\* Every step of the cache is a step of the lossy store, or none.
LEMMA StepIsLossy ==
  IndexInv /\ IndexInv' /\ StoreInv /\ StoreInv' /\ [Next]_vars => [Lossy!Next]_(Lossy!vars)
<1> SUFFICES ASSUME IndexInv, IndexInv', StoreInv, StoreInv', [Next]_vars
             PROVE  Lossy!Next \/ UNCHANGED <<Stored, Offered, reply>>
  BY DEF Lossy!vars
<1>1. CASE Open \/ Close \/ WriteHint \/ UNCHANGED vars
  BY <1>1, QuietSteps
<1>2. CASE Crash
  BY <1>2, CrashAbandons DEF Lossy!Next
<1>3. ASSUME NEW k \in Keys, Get(k)
      PROVE  Lossy!Next
  BY <1>3, GetLooksUp DEF Lossy!Next
<1>4. ASSUME NEW k \in Keys, NEW v \in Values, Add(k, v)
      PROVE  Lossy!Next
  <2>1. Lossy!Decline(k) \/ Lossy!Begin(k, v)
    BY <1>4, DeclinedDeclines, AddBegins DEF Add
  <2> QED
    BY <2>1 DEF Lossy!Next
<1>5. CASE AddFinish
  BY <1>5, AddFinishes DEF Lossy!Next
<1> QED
  BY <1>1, <1>2, <1>3, <1>4, <1>5 DEF Next

\* An empty file stores nothing.
LEMMA InitIsLossy == Init => Lossy!Init
<1> SUFFICES ASSUME Init PROVE Lossy!Init
  OBVIOUS
<1>1. \A k \in Keys, c \in Chunks : diskMeta[c].key # k
  BY KeysAssumption DEF Init, ZeroMeta
<1>2. Stored = [k \in Keys |-> Missing]
  BY <1>1 DEF Stored
<1>3. Offered = Nothing
  BY DEF Init, Offered
<1> QED
  BY <1>2, <1>3 DEF Init, Lossy!Init

\* The cache implements the lossy store, for every number of chunks and over
\* every kill and restart: Get answers with what was stored under the key or a
\* miss, no value replaces a stored one, each Add evicts one value at most, and a
\* kill loses the Add in progress at most.
THEOREM CacheIsALossyStore == Spec => ImplementsLossyStore
<1>1. Init => Lossy!Init
  BY InitIsLossy
<1>2. IndexInv /\ IndexInv' /\ StoreInv /\ StoreInv' /\ [Next]_vars
        => [Lossy!Next]_(Lossy!vars)
  BY StepIsLossy
<1> QED
  BY <1>1, <1>2, StoreInvariant, PTL DEF Spec, ImplementsLossyStore, Lossy!Spec

=============================================================================
