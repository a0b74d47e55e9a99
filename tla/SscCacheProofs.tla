--------------------------- MODULE SscCacheProofs ---------------------------
(***************************************************************************)
(* Proofs about SscCache for every number of chunks, every set of keys and *)
(* values and every position of kills and restarts: the state is well      *)
(* typed, the index and the metadata table always match, replaceMeta never *)
(* panics, and an entry served without a checksum test is intact.          *)
(***************************************************************************)
EXTENDS SscCache, TLAPS, FunctionTheorems, FiniteSetTheorems

USE SizesAssumption, ValuesAssumption, KeysAssumption

\* Chunk 0 exists, and the ring pointer stays inside the ring (nextChunk++ and
\* the overflow test in Add, the bound test in openDbFile).
LEMMA RingBounds ==
  /\ 0 \in Chunks
  /\ \A c \in Chunks : Advance(c) \in Chunks
  /\ \A h \in Nat : Resume(h) \in Chunks
BY DEF Chunks, Advance, Resume

\* An index that matches the metadata table has one entry per chunk: the test
\* len(chunkMap) != len(metaMap) of replaceMeta cannot fire.
LEMMA IndexSize ==
  ASSUME NEW map \in [HashKeys -> ChunkmapEntry \cup {Missing}],
         NEW meta \in [Chunks -> MetaEntry],
         IndexOK(map, meta)
  PROVE  Cardinality(Mapped(map)) = ChunkCount
<1> DEFINE F == [c \in Chunks |-> meta[c].key]
<1>1. F \in [Chunks -> Mapped(map)]
  BY DEF IndexOK, Mapped, MetaEntry
<1>2. \A a, b \in Chunks : F[a] = F[b] => a = b
  BY DEF IndexOK
<1>3. \A k \in Mapped(map) : \E c \in Chunks : F[c] = k
  <2> TAKE k \in Mapped(map)
  <2>1. map[k] \in ChunkmapEntry
    BY DEF Mapped
  <2>2. map[k].chunk \in Chunks /\ meta[map[k].chunk].key = k
    BY <2>1 DEF ChunkmapEntry, IndexOK
  <2> QED BY <2>2
<1>4. F \in Bijection(Chunks, Mapped(map))
  BY <1>1, <1>2, <1>3, Fun_IsBij
<1>5. ExistsBijection(Chunks, Mapped(map))
  BY <1>4 DEF ExistsBijection
<1>6. IsFiniteSet(Chunks) /\ Cardinality(Chunks) = ChunkCount
  BY FS_Interval DEF Chunks
<1> QED BY <1>5, <1>6, FS_Bijection

\* Moving the chunk of a mapped key to an unmapped one keeps the match.
LEMMA RekeyingKeepsIndex ==
  ASSUME TypeOK, IndexOK(chunkMap, metaMap),
         NEW old \in Mapped(chunkMap), NEW new \in MetaEntry, NEW d \in BOOLEAN,
         chunkMap[new.key] = Missing
  PROVE  /\ ChunkOf(old) \in Chunks
         /\ ChunkOf(old) = chunkMap[old].chunk
         /\ Rekeyed(old, new.key, ChunkOf(old), d)
              \in [HashKeys -> ChunkmapEntry \cup {Missing}]
         /\ IndexOK(Rekeyed(old, new.key, ChunkOf(old), d),
                    [metaMap EXCEPT ![ChunkOf(old)] = new])
<1> DEFINE chunk == ChunkOf(old)
           map == Rekeyed(old, new.key, chunk, d)
           meta == [metaMap EXCEPT ![chunk] = new]
<1>1. chunkMap[old] \in ChunkmapEntry /\ chunk = chunkMap[old].chunk /\ chunk \in Chunks
  BY DEF TypeOK, Mapped, ChunkOf, ChunkmapEntry
<1>2. metaMap[chunk].key = old
  BY <1>1 DEF IndexOK
<1>3. new.key \in HashKeys /\ old \in HashKeys /\ new.key # old
  BY DEF MetaEntry, Mapped
<1>4. map \in [HashKeys -> ChunkmapEntry \cup {Missing}]
  BY <1>1, <1>3 DEF TypeOK, Rekeyed, ChunkmapEntry
<1>5. meta \in [Chunks -> MetaEntry]
  BY <1>1 DEF TypeOK
<1>6. /\ map[new.key] = [chunk |-> chunk, dirty |-> d]
      /\ map[old] = Missing
      /\ \A k \in HashKeys \ {old, new.key} : map[k] = chunkMap[k]
  BY <1>3 DEF TypeOK, Rekeyed
<1>7. meta[chunk] = new /\ \A c \in Chunks \ {chunk} : meta[c] = metaMap[c]
  BY <1>1 DEF TypeOK
<1>8. [chunk |-> chunk, dirty |-> d] # Missing
  BY <1>1 DEF ChunkmapEntry
<1>9. ASSUME NEW c \in Chunks
      PROVE  map[meta[c].key] # Missing /\ map[meta[c].key].chunk = c
  <2>1. CASE c = chunk
    BY <2>1, <1>6, <1>7, <1>8
  <2>2. CASE c # chunk
    <3>1. metaMap[c].key \in HashKeys \ {old, new.key}
      BY <2>2, <1>1, <1>2 DEF IndexOK, TypeOK, MetaEntry
    <3> QED BY <2>2, <3>1, <1>6, <1>7 DEF IndexOK
  <2> QED BY <2>1, <2>2
<1>10. ASSUME NEW k \in Mapped(map)
       PROVE  meta[map[k].chunk].key = k
  <2>1. CASE k = new.key
    BY <2>1, <1>6, <1>7
  <2>2. CASE k # new.key
    <3>1. k \in HashKeys \ {old, new.key} /\ k \in Mapped(chunkMap)
      BY <2>2, <1>6 DEF Mapped
    <3>2. chunkMap[k] \in ChunkmapEntry /\ chunkMap[k].chunk \in Chunks \ {chunk}
      BY <3>1, <1>2 DEF TypeOK, Mapped, ChunkmapEntry, IndexOK
    <3> QED BY <3>1, <3>2, <1>6, <1>7 DEF IndexOK
  <2> QED BY <2>1, <2>2
<1>11. IndexOK(map, meta)
  BY <1>9, <1>10 DEF IndexOK
<1> QED BY <1>1, <1>4, <1>11

-----------------------------------------------------------------------------
(* One lemma for each operation. *)

\* A new process starts with nothing loaded.
LEMMA InitIndexInv == Init => IndexInv
<1> SUFFICES ASSUME Init PROVE IndexInv
  OBVIOUS
<1>1. ZeroMeta \in MetaEntry
  BY DEF ZeroMeta, MetaEntry, HashKeys
<1>2. TypeOK
  BY <1>1, RingBounds DEF Init, TypeOK, HashKeys
<1> QED
  BY <1>2 DEF Init, IndexInv, IndexMatches, NeverPanics, PhasesFit, CleanIsIntact, Running

\* The end of a process, whatever it was doing, leaves the file well typed.
LEMMA StoppedIndexInv ==
  ASSUME TypeOK, Stopped,
         file' = file, diskHint' = diskHint, diskMeta' = diskMeta,
         diskData' \in [Chunks -> Values \cup {Torn}]
  PROVE  IndexInv'
<1>1. ZeroMeta \in MetaEntry
  BY DEF ZeroMeta, MetaEntry, HashKeys
<1>2. TypeOK'
  BY <1>1, RingBounds DEF Stopped, TypeOK
<1> QED
  BY <1>2 DEF Stopped, IndexInv, IndexMatches, NeverPanics, PhasesFit, CleanIsIntact, Running

\* Close and a kill in the middle of a call.
LEMMA EndIndexInv == IndexInv /\ (Close \/ Crash) => IndexInv'
<1> SUFFICES ASSUME IndexInv, Close \/ Crash PROVE IndexInv'
  OBVIOUS
<1>1. CASE Close
  <2>1. diskData' \in [Chunks -> Values \cup {Torn}]
    BY <1>1 DEF Close, disk, IndexInv, TypeOK
  <2> QED BY <1>1, <2>1, StoppedIndexInv DEF Close, disk, IndexInv
<1>2. CASE Crash
  <2>1. diskData' \in [Chunks -> Values \cup {Torn}]
    BY <1>2 DEF Crash, IndexInv, TypeOK
  <2> QED BY <1>2, <2>1, StoppedIndexInv DEF Crash, IndexInv
<1> QED BY <1>1, <1>2

\* Loading gives every chunk a key of its own: findFreeKey never returns a key
\* a lower chunk has taken.
LEMMA LoadIndexInv == IndexInv /\ Load => IndexInv'
<1> SUFFICES ASSUME IndexInv, Load PROVE IndexInv'
  OBVIOUS
<1> TypeOK
  BY DEF IndexInv
<1>1. PICK key \in [Chunks -> FakeKeys \cup {diskMeta[c].key : c \in Chunks}] :
        /\ \A c \in Chunks :
             key[c] \in FreeKeys(diskMeta[c].key, {key[d] : d \in 0 .. c - 1})
        /\ metaMap' = [c \in Chunks |-> [key |-> key[c], sum |-> diskMeta[c].sum]]
        /\ chunkMap' = [k \in HashKeys |->
             IF \E c \in Chunks : key[c] = k
               THEN [chunk |-> CHOOSE c \in Chunks : key[c] = k, dirty |-> TRUE]
               ELSE Missing]
  BY DEF Load
<1>2. \A c \in Chunks : key[c] \in HashKeys
  BY DEF TypeOK, MetaEntry, HashKeys
<1>3. \A c, d \in Chunks : d < c => key[d] # key[c]
  <2> SUFFICES ASSUME NEW c \in Chunks, NEW d \in Chunks, d < c
               PROVE  key[d] # key[c]
    OBVIOUS
  <2>1. d \in 0 .. c - 1
    BY DEF Chunks
  <2>2. key[c] \in FreeKeys(diskMeta[c].key, {key[e] : e \in 0 .. c - 1})
    BY <1>1
  <2> QED BY <2>1, <2>2 DEF FreeKeys
<1>4. \A c, d \in Chunks : key[c] = key[d] => c = d
  <2> SUFFICES ASSUME NEW c \in Chunks, NEW d \in Chunks, key[c] = key[d]
               PROVE  c = d
    OBVIOUS
  <2>1. c < d \/ d < c \/ c = d
    BY DEF Chunks
  <2> QED BY <2>1, <1>3
<1>5. \A c \in Chunks : /\ metaMap'[c].key = key[c]
                        /\ metaMap'[c] \in MetaEntry
  BY <1>1, <1>2 DEF TypeOK, MetaEntry
<1> DEFINE Fresh(c) == [chunk |-> c, dirty |-> TRUE]
<1>6. \A c \in Chunks : chunkMap'[key[c]] = Fresh(c)
  BY <1>1, <1>2, <1>4
<1>7. \A c \in Chunks : /\ Fresh(c) \in ChunkmapEntry
                        /\ Fresh(c) # Missing
                        /\ Fresh(c).chunk = c
                        /\ Fresh(c).dirty = TRUE
  <2> SUFFICES ASSUME NEW c \in Chunks
               PROVE  /\ Fresh(c) \in ChunkmapEntry
                      /\ Fresh(c) # Missing
                      /\ Fresh(c).chunk = c
                      /\ Fresh(c).dirty = TRUE
    OBVIOUS
  <2>1. Fresh(c) \in ChunkmapEntry
    BY DEF ChunkmapEntry
  <2>2. Fresh(c).chunk = c /\ Fresh(c).dirty = TRUE
    OBVIOUS
  <2>3. \A m \in ChunkmapEntry : m # Missing
    OBVIOUS
  <2> QED BY <2>1, <2>2, <2>3
<1> HIDE DEF Fresh
<1>8. \A k \in HashKeys :
        \/ chunkMap'[k] = Missing
        \/ \E c \in Chunks : key[c] = k /\ chunkMap'[k] = Fresh(c)
  <2> SUFFICES ASSUME NEW k \in HashKeys, chunkMap'[k] # Missing
               PROVE  \E c \in Chunks : key[c] = k /\ chunkMap'[k] = Fresh(c)
    OBVIOUS
  <2>1. PICK c \in Chunks : key[c] = k
    BY <1>1
  <2> QED BY <2>1, <1>6
<1>9. chunkMap' \in [HashKeys -> ChunkmapEntry \cup {Missing}]
  <2>1. \A k \in HashKeys : chunkMap'[k] \in ChunkmapEntry \cup {Missing}
    BY <1>7, <1>8
  <2>2. \E f \in {chunkMap'} : f = [k \in HashKeys |-> chunkMap'[k]]
    BY <1>1
  <2> QED BY <2>1, <2>2
<1>10. nextChunk' \in Chunks
  BY RingBounds DEF Load, TypeOK
<1>11. TypeOK'
  <2>1. metaMap' \in [Chunks -> MetaEntry]
    BY <1>1, <1>5
  <2> QED BY <2>1, <1>9, <1>10 DEF Load, TypeOK, disk, history
<1>12. IndexOK(chunkMap', metaMap')
  <2>1. \A c \in Chunks : chunkMap'[metaMap'[c].key] # Missing
                          /\ chunkMap'[metaMap'[c].key].chunk = c
    BY <1>5, <1>6, <1>7
  <2>2. \A k \in Mapped(chunkMap') : metaMap'[chunkMap'[k].chunk].key = k
    BY <1>5, <1>7, <1>8 DEF Mapped
  <2> QED BY <2>1, <2>2 DEF IndexOK
<1>13. CleanIsIntact'
  <2> SUFFICES ASSUME NEW k \in Mapped(chunkMap')
               PROVE  chunkMap'[k].dirty = TRUE
    BY DEF CleanIsIntact
  <2> QED BY <1>7, <1>8 DEF Mapped
<1> QED
  BY <1>11, <1>12, <1>13 DEF IndexInv, Load, IndexMatches, NeverPanics, PhasesFit

\* The other steps of openDbFile touch nothing but the file's size.
LEMMA OpenIndexInv == IndexInv /\ Open => IndexInv'
<1> SUFFICES ASSUME IndexInv, Open, ~ Load PROVE IndexInv'
  BY LoadIndexInv
<1>1. pc' \in {"creating", "loading", "refused"} /\ pc \in {"closed", "creating"}
  BY DEF Open, Create, Truncate, OpenExisting, OpenRefused
<1>2. /\ file' \in {"absent", "superblock", "full"}
      /\ UNCHANGED <<diskHint, diskMeta, diskData, memory, pending, reply, history>>
  BY DEF Open, Create, Truncate, OpenExisting, OpenRefused, IndexInv, TypeOK, disk
<1> QED
  BY <1>1, <1>2 DEF IndexInv, TypeOK, IndexMatches, NeverPanics, PhasesFit, CleanIsIntact,
                    Running, memory, history

Replies == [kind : {"none", "hit", "miss", "added", "declined"},
            key : HashKeys, val : Values \cup {Torn, Nothing}]

\* After replaceMeta the length test passes and the process goes on.
LEMMA AfterReplaceContinues ==
  ASSUME NEW map \in [HashKeys -> ChunkmapEntry \cup {Missing}],
         NEW meta \in [Chunks -> MetaEntry],
         IndexOK(map, meta),
         NEW v
  PROVE  /\ v = Nothing => AfterReplace(map, v) = "idle"
         /\ v # Nothing => AfterReplace(map, v) = "data"
BY IndexSize DEF AfterReplace

\* replaceMeta, as Add calls it (a clean entry for the chunk under the ring
\* pointer, whose data follows) and as Get does (a dirty entry).
LEMMA ReplaceMetaIndexInv ==
  ASSUME IndexInv, pc = "idle",
         NEW old \in Mapped(chunkMap), NEW new \in MetaEntry, NEW d \in BOOLEAN,
         chunkMap[new.key] = Missing,
         ReplaceMeta(old, new, d),
         reply' \in Replies,
         \/ d = TRUE /\ pending' = Nothing
         \/ chunkMap[old].chunk = nextChunk /\ pending' = new.sum
  PROVE  IndexInv'
<1> DEFINE chunk == ChunkOf(old)
<1>1. /\ TypeOK /\ IndexOK(chunkMap, metaMap) /\ CleanIsIntact /\ pending = Nothing
      /\ Running
  BY DEF IndexInv, IndexMatches, Running, PhasesFit
<1>2. /\ chunk \in Chunks
      /\ chunk = chunkMap[old].chunk
      /\ chunkMap' \in [HashKeys -> ChunkmapEntry \cup {Missing}]
      /\ IndexOK(chunkMap', metaMap')
      /\ metaMap' = [metaMap EXCEPT ![chunk] = new]
      /\ diskMeta' = [diskMeta EXCEPT ![chunk] = new]
      /\ chunkMap' = Rekeyed(old, new.key, chunk, d)
  BY <1>1, RekeyingKeepsIndex DEF ReplaceMeta
<1>3. metaMap' \in [Chunks -> MetaEntry] /\ diskMeta' \in [Chunks -> MetaEntry]
  BY <1>1, <1>2 DEF TypeOK
<1>4. new.sum \in Values /\ new.key \in HashKeys /\ old \in HashKeys
  BY DEF MetaEntry, Mapped
<1>5. pending' \in Values \cup {Nothing}
  BY <1>4
<1>6. /\ pc' \in {"hint", "idle", "data"}
      /\ pc' = "data" => pending' # Nothing
      /\ pending' # Nothing => pc' \in {"hint", "data"}
  BY <1>2, <1>3, AfterReplaceContinues DEF ReplaceMeta
<1>7. TypeOK'
  BY <1>1, <1>2, <1>3, <1>5, <1>6 DEF TypeOK, ReplaceMeta, history, Replies
<1>8. PhasesFit'
  <2>1. pending' # Nothing => chunk = nextChunk /\ pending' = new.sum
    BY <1>2
  <2>2. nextChunk' = nextChunk
    BY DEF ReplaceMeta
  <2>3. metaMap'[chunk] = new
    BY <1>1, <1>2 DEF TypeOK
  <2> QED BY <1>6, <2>1, <2>2, <2>3 DEF PhasesFit
<1>9. CleanIsIntact'
  <2> SUFFICES ASSUME NEW k \in Mapped(chunkMap')
               PROVE  \/ chunkMap'[k].dirty
                      \/ pending' # Nothing /\ chunkMap'[k].chunk = nextChunk'
                      \/ Intact(metaMap'[chunkMap'[k].chunk], diskData'[chunkMap'[k].chunk])
    BY DEF CleanIsIntact
  <2>1. diskData' = diskData /\ nextChunk' = nextChunk
    BY DEF ReplaceMeta
  <2>2. k \in HashKeys /\ chunkMap'[k] \in ChunkmapEntry
    BY <1>2 DEF Mapped
  <2>3. CASE k = new.key
    <3>1. chunkMap'[k].dirty = d /\ chunkMap'[k].chunk = chunk
      BY <2>3, <1>1, <1>2, <1>4 DEF Rekeyed, TypeOK
    <3> QED BY <3>1, <2>1, <1>2, <1>4
  <2>4. CASE k # new.key
    <3>1. k # old /\ chunkMap'[k] = chunkMap[k] /\ k \in Mapped(chunkMap)
      BY <2>2, <2>4, <1>1, <1>2, <1>4 DEF Rekeyed, TypeOK, Mapped
    <3>2. chunkMap[k].chunk \in Chunks /\ chunkMap[k].chunk # chunk
      <4>1. chunkMap[k].chunk \in Chunks
        BY <2>2, <3>1 DEF ChunkmapEntry
      <4>2. metaMap[chunkMap[k].chunk].key = k /\ metaMap[chunk].key = old
        BY <3>1, <1>1, <1>2 DEF IndexOK
      <4> QED BY <4>1, <4>2, <3>1
    <3>3. metaMap'[chunkMap[k].chunk] = metaMap[chunkMap[k].chunk]
      BY <3>2, <1>1, <1>2 DEF TypeOK
    <3>4. chunkMap[k].dirty \/ Intact(metaMap[chunkMap[k].chunk], diskData[chunkMap[k].chunk])
      BY <3>1, <1>1 DEF CleanIsIntact
    <3> QED BY <3>1, <3>3, <3>4, <2>1
  <2> QED BY <2>3, <2>4
<1> QED
  BY <1>2, <1>6, <1>7, <1>8, <1>9 DEF IndexInv, IndexMatches, NeverPanics

\* Add up to its metadata: the entry it replaces is the one of the chunk under
\* the ring pointer.
LEMMA AddIndexInv ==
  ASSUME NEW k \in Keys, NEW v \in Values, IndexInv, Add(k, v)
  PROVE  IndexInv'
<1>1. CASE AddDeclined(k)
  <2>1. reply' \in Replies
    BY <1>1 DEF AddDeclined, Replies, HashKeys
  <2> QED BY <1>1, <2>1 DEF AddDeclined, IndexInv, TypeOK, IndexMatches, NeverPanics,
             PhasesFit, CleanIsIntact, Running, disk, memory, history, Replies
<1>2. CASE AddStart(k, v)
  <2> DEFINE old == metaMap[nextChunk].key
             new == [key |-> k, sum |-> v]
  <2>1. TypeOK /\ IndexOK(chunkMap, metaMap) /\ pc = "idle" /\ ReplaceMeta(old, new, FALSE)
    BY <1>2 DEF AddStart, IndexInv, IndexMatches, Running
  <2>2. old \in HashKeys /\ nextChunk \in Chunks
    BY <2>1 DEF TypeOK, MetaEntry
  <2>3. old \in Mapped(chunkMap) /\ chunkMap[old].chunk = nextChunk
    BY <2>1, <2>2 DEF IndexOK, Mapped
  <2>4. new \in MetaEntry /\ chunkMap[new.key] = Missing /\ pending' = new.sum
    BY <1>2 DEF AddStart, MetaEntry, HashKeys
  <2>5. reply' \in Replies
    BY <1>2, <2>1 DEF AddStart, TypeOK, Replies
  <2> QED BY <2>1, <2>3, <2>4, <2>5, ReplaceMetaIndexInv
<1> QED BY <1>1, <1>2 DEF Add

\* Get, with the replacement of an entry that fails its checksum.
LEMMA GetIndexInv ==
  ASSUME NEW k \in Keys, IndexInv, Get(k)
  PROVE  IndexInv'
<1>1. /\ TypeOK /\ IndexOK(chunkMap, metaMap) /\ pc = "idle" /\ pending = Nothing
      /\ CleanIsIntact /\ k \in HashKeys
  BY DEF Get, GetMiss, GetHit, GetCorrupt, IndexInv, IndexMatches, Running, PhasesFit, HashKeys
<1>2. CASE GetMiss(k)
  <2>1. reply' \in Replies
    BY <1>1, <1>2 DEF GetMiss, Replies
  <2> QED BY <1>2, <2>1 DEF GetMiss, IndexInv, TypeOK, IndexMatches, NeverPanics,
             PhasesFit, CleanIsIntact, Running, disk, memory, history, Replies
<1>3. CASE GetHit(k)
  <2> DEFINE e == chunkMap[k]
  <2>1. e \in ChunkmapEntry /\ e # Missing /\ e.chunk \in Chunks
    BY <1>1, <1>3 DEF GetHit, Servable, TypeOK, ChunkmapEntry
  <2>2. reply' \in Replies
    <3>1. metaMap[e.chunk].sum \in Values /\ diskData[e.chunk] \in Values \cup {Torn}
      BY <2>1, <1>1 DEF TypeOK, MetaEntry
    <3> QED BY <3>1, <1>1, <1>3 DEF GetHit, Replies, ValuesAssumption
  <2> DEFINE clean == [chunk |-> e.chunk, dirty |-> FALSE]
  <2>4. clean \in ChunkmapEntry /\ clean.chunk = e.chunk
    BY <2>1 DEF ChunkmapEntry
  <2>5. clean # Missing
    BY <2>4
  <2> HIDE DEF clean
  <2>6. /\ chunkMap'[k] = clean
        /\ \A w \in HashKeys \ {k} : chunkMap'[w] = chunkMap[w]
        /\ chunkMap' \in [HashKeys -> ChunkmapEntry \cup {Missing}]
    BY <1>1, <1>3, <2>4 DEF GetHit, TypeOK, clean
  <2>7. \A w \in HashKeys : /\ chunkMap'[w] # Missing <=> chunkMap[w] # Missing
                            /\ chunkMap[w] # Missing => chunkMap'[w].chunk = chunkMap[w].chunk
    BY <2>1, <2>4, <2>5, <2>6
  <2>8. metaMap' = metaMap /\ diskData' = diskData /\ nextChunk' = nextChunk
    BY <1>3 DEF GetHit, disk
  <2>9. TypeOK'
    BY <1>1, <1>3, <2>2, <2>6 DEF GetHit, TypeOK, disk, history, Replies
  <2>10. IndexOK(chunkMap', metaMap')
    <3>1. \A c \in Chunks : metaMap[c].key \in HashKeys
      BY <1>1 DEF TypeOK, MetaEntry
    <3> QED BY <1>1, <2>7, <2>8, <3>1 DEF IndexOK, Mapped
  <2>11. CleanIsIntact'
    <3> SUFFICES ASSUME NEW w \in Mapped(chunkMap')
                 PROVE  \/ chunkMap'[w].dirty
                        \/ pending' # Nothing /\ chunkMap'[w].chunk = nextChunk'
                        \/ Intact(metaMap'[chunkMap'[w].chunk], diskData'[chunkMap'[w].chunk])
      BY DEF CleanIsIntact
    <3>1. w \in Mapped(chunkMap) /\ chunkMap'[w].chunk = chunkMap[w].chunk
      BY <2>7 DEF Mapped
    <3>2. \/ chunkMap[w].dirty
          \/ Intact(metaMap[chunkMap[w].chunk], diskData[chunkMap[w].chunk])
      BY <3>1, <1>1 DEF CleanIsIntact, Running
    <3>3. CASE w = k
      BY <1>3, <2>8, <3>1, <3>2, <3>3 DEF GetHit, Servable
    <3>4. CASE w # k
      <4>1. chunkMap'[w] = chunkMap[w]
        BY <2>6, <3>1, <3>4 DEF Mapped
      <4> QED BY <2>8, <3>2, <4>1
    <3> QED BY <3>3, <3>4
  <2> QED BY <1>1, <1>3, <2>9, <2>10, <2>11
          DEF GetHit, IndexInv, IndexMatches, NeverPanics, PhasesFit
<1>4. CASE GetCorrupt(k)
  <2>1. PICK fake \in FreeKeys(ZeroKey, Mapped(chunkMap)) :
          ReplaceMeta(k, [key |-> fake, sum |-> Empty], TRUE)
    BY <1>4 DEF GetCorrupt
  <2> DEFINE new == [key |-> fake, sum |-> Empty]
  <2>2. fake \in HashKeys /\ fake \notin Mapped(chunkMap)
    BY DEF FreeKeys, HashKeys
  <2>3. new \in MetaEntry /\ chunkMap[new.key] = Missing
    BY <2>2 DEF MetaEntry, Mapped
  <2>4. k \in Mapped(chunkMap) /\ pending' = Nothing
    BY <1>1, <1>4 DEF GetCorrupt, Mapped
  <2>5. reply' \in Replies
    BY <1>1, <1>4 DEF GetCorrupt, Replies
  <2> QED BY <1>1, <2>1, <2>3, <2>4, <2>5, ReplaceMetaIndexInv
<1> QED BY <1>2, <1>3, <1>4 DEF Get

\* The lazily saved superblock touches neither the index nor the data.
LEMMA WriteHintIndexInv == IndexInv /\ WriteHint => IndexInv'
<1> SUFFICES ASSUME IndexInv, WriteHint PROVE IndexInv'
  OBVIOUS
<1>1. TypeOK /\ IndexOK(chunkMap, metaMap) /\ PhasesFit /\ CleanIsIntact /\ Running
  BY DEF IndexInv, IndexMatches, WriteHint, Running
<1>2. /\ pc' \in {"idle", "data"}
      /\ pc' = "data" <=> pending # Nothing
  BY <1>1, AfterReplaceContinues DEF WriteHint, TypeOK
<1>3. diskHint' \in Nat
  BY <1>1 DEF WriteHint, TypeOK, Hint, Chunks
<1> QED
  BY <1>1, <1>2, <1>3 DEF WriteHint, IndexInv, TypeOK, IndexMatches, NeverPanics, PhasesFit,
                          CleanIsIntact, Running, memory

\* The data write makes the one exempt entry intact.
LEMMA AddFinishIndexInv == IndexInv /\ AddFinish => IndexInv'
<1> SUFFICES ASSUME IndexInv, AddFinish PROVE IndexInv'
  OBVIOUS
<1>1. /\ TypeOK /\ IndexOK(chunkMap, metaMap) /\ CleanIsIntact /\ Running
      /\ pending \in Values /\ metaMap[nextChunk].sum = pending /\ nextChunk \in Chunks
  BY DEF IndexInv, IndexMatches, AddFinish, Running, PhasesFit, TypeOK
<1>2. diskData' \in [Chunks -> Values \cup {Torn}]
  BY <1>1 DEF AddFinish, TypeOK
<1>3. fifo' \in Seq(HashKeys)
  <2>1. metaMap[nextChunk].key \in HashKeys
    BY <1>1 DEF TypeOK, MetaEntry
  <2>2. fifo \in Seq(HashKeys) /\ (Len(fifo) = ChunkCount => Tail(fifo) \in Seq(HashKeys))
    BY <1>1 DEF TypeOK
  <2> QED BY <2>1, <2>2 DEF AddFinish
<1>4. reply' \in Replies
  BY <1>1 DEF AddFinish, TypeOK, MetaEntry, Replies
<1>5. hinted' \in (SUBSET Chunks) \cup {Nothing}
  BY <1>1 DEF AddFinish, TypeOK
<1>6. nextChunk' \in Chunks
  BY <1>1, RingBounds DEF AddFinish
<1>7. TypeOK'
  BY <1>1, <1>2, <1>3, <1>4, <1>5, <1>6 DEF AddFinish, TypeOK, Replies
<1>8. CleanIsIntact'
  <2> SUFFICES ASSUME NEW k \in Mapped(chunkMap)
               PROVE  \/ chunkMap[k].dirty
                      \/ Intact(metaMap[chunkMap[k].chunk], diskData'[chunkMap[k].chunk])
    BY DEF CleanIsIntact, AddFinish
  <2>1. chunkMap[k].chunk \in Chunks
    BY <1>1 DEF TypeOK, Mapped, ChunkmapEntry
  <2>2. CASE chunkMap[k].chunk = nextChunk
    BY <2>2, <1>1 DEF AddFinish, TypeOK, Intact
  <2>3. CASE chunkMap[k].chunk # nextChunk
    <3>1. diskData'[chunkMap[k].chunk] = diskData[chunkMap[k].chunk]
      BY <2>1, <2>3, <1>1 DEF AddFinish, TypeOK
    <3> QED BY <2>3, <3>1, <1>1 DEF CleanIsIntact
  <2> QED BY <2>2, <2>3
<1> QED
  BY <1>1, <1>7, <1>8 DEF AddFinish, IndexInv, IndexMatches, NeverPanics, PhasesFit

-----------------------------------------------------------------------------
\* The index invariant holds in every reachable state: through any order of
\* Add and Get, kills between any two writes, and any number of restarts.
THEOREM IndexInvariant == Spec => []IndexInv
<1>1. Init => IndexInv
  BY InitIndexInv
<1>2. IndexInv /\ [Next]_vars => IndexInv'
  <2> SUFFICES ASSUME IndexInv, [Next]_vars PROVE IndexInv'
    OBVIOUS
  <2>1. CASE Open
    BY <2>1, OpenIndexInv
  <2>2. CASE Close \/ Crash
    BY <2>2, EndIndexInv
  <2>3. CASE \E k \in Keys : Get(k)
    BY <2>3, GetIndexInv
  <2>4. CASE \E k \in Keys, v \in Values : Add(k, v)
    BY <2>4, AddIndexInv
  <2>5. CASE WriteHint
    BY <2>5, WriteHintIndexInv
  <2>6. CASE AddFinish
    BY <2>6, AddFinishIndexInv
  <2>7. CASE UNCHANGED vars
    BY <2>7 DEF vars, disk, memory, history, IndexInv, TypeOK, IndexMatches, NeverPanics,
                PhasesFit, CleanIsIntact, Running
  <2> QED BY <2>1, <2>2, <2>3, <2>4, <2>5, <2>6, <2>7 DEF Next
<1> QED BY <1>1, <1>2, PTL DEF Spec

\* Every variable keeps the type ssc.go declares for it.
THEOREM TypeCorrect == Spec => []TypeOK
<1>1. IndexInv => TypeOK
  BY DEF IndexInv
<1> QED BY <1>1, IndexInvariant, PTL

\* chunkMap and metaMap name each other after every call, so Add writes its
\* data to the chunk its metadata describes.
THEOREM IndexAlwaysMatches == Spec => []IndexMatches
<1>1. IndexInv => IndexMatches
  BY DEF IndexInv
<1> QED BY <1>1, IndexInvariant, PTL

\* The panic "Corrupted mapping!" of replaceMeta is unreachable for a caller
\* that makes one call at a time.
THEOREM MappingNeverCorrupted == Spec => []NeverPanics
<1>1. IndexInv => NeverPanics
  BY DEF IndexInv
<1> QED BY <1>1, IndexInvariant, PTL

\* An entry Get serves without testing its checksum holds the bytes that were
\* added.
THEOREM UnverifiedHitsAreIntact == Spec => []CleanIsIntact
<1>1. IndexInv => CleanIsIntact
  BY DEF IndexInv
<1> QED BY <1>1, IndexInvariant, PTL
=============================================================================
