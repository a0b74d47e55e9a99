--------------------------- MODULE HgmFileProofs ---------------------------
(***************************************************************************)
(* Proofs about HgmFile when Read runs one request at a time (OneReader),  *)
(* for files, blocks, caches, offsets and sizes of every size and any      *)
(* number of faults: a successful read returns the file's bytes, all of    *)
(* them without the cache, and what fails has a cause in the network.      *)
(***************************************************************************)
EXTENDS HgmFile, TLAPS, SequenceTheorems, FiniteSetTheorems

USE SizesAssumption, NilAssumption

\* The FUSE server has at most one request for the file in progress.
OneReader == \E r : Readers = {r}

\* The body and the connection come and go together.  A body ends with the
\* file, unless it is empty: a range past the end, or the empty 200 answer of
\* which only a discard can learn.
BodyFits ==
  /\ connected <=> bbody # NoBody
  /\ bbody # NoBody =>
       /\ bbody.end <= ContentSize \/ bbody.at = bbody.end
       /\ bbody.last = "failed" => faults > 0
       /\ \A r \in Readers :
            bbody.last = "EOF" /\ bbody.end < ContentSize =>
              bbody.end = 0 /\ pc[r] = "discard" /\ req[r].off >= ContentSize

\* The stream is ahead of file.offset by what the one request has fetched and not
\* counted yet.
OffsetFits ==
  connected => bbody # NoBody /\ \A r \in Readers : bbody.at = offset + Unaccounted(r)

\* What is still to be done follows from where the stream is.
PlaceFits(r) ==
  /\ pc[r] # "idle" => req[r].size > 0 /\ fileSize # 0
  /\ pc[r] \notin {"idle", "read"} => data[r] = <<>>
  /\ InBody(r) => connected /\ count[r] > 0
  /\ pc[r] = "dialing" => ~ connected
  /\ pc[r] = "connect" /\ connected => offset = req[r].off
  /\ pc[r] \in {"skip", "discard"} => offset + count[r] = req[r].off
  /\ pc[r] = "read" =>
       /\ data[r] = Slice(req[r].off, Len(data[r]))
       /\ offset = req[r].off + Len(data[r])
       /\ Len(data[r]) + count[r] = req[r].size
       /\ Len(data[r]) > 0 => offset <= ContentSize

\* A block that was fetched holds the bytes of file.offset; it ends with EOF
\* only at the end of the file, or where the discard of an empty answer stops.
BlockFits(r) ==
  block[r] # NoBlock =>
    /\ InBody(r)
    /\ block[r].bytes = Slice(offset, Got(r))
    /\ Got(r) <= count[r]
    /\ Got(r) > 0 => offset + Got(r) <= ContentSize
    /\ block[r].err = "failed" => faults > 0
    /\ block[r].err = "EOF" =>
         /\ Got(r) = 0
         /\ offset >= ContentSize \/ (pc[r] = "discard" /\ req[r].off >= ContentSize)

\* The cache is used only when it is enabled, and what it has of the end of the
\* file is there.
CacheFits ==
  /\ ~ lruEnabled => lruCache = {}
  /\ \A e \in lruCache : e.bytes = <<>> => e.at >= ContentSize

\* The inductive invariant.
StreamInv ==
  /\ TypeOK
  /\ BodyFits
  /\ OffsetFits
  /\ \A r \in Readers : PlaceFits(r) /\ BlockFits(r)
  /\ CacheFits
  /\ CacheHoldsTheFile
  /\ ReadsReturnTheFile
  /\ ReadsAreComplete
  /\ EmptyOnlyAtTheEnd
  /\ ErrorsHaveACause

-----------------------------------------------------------------------------
(* Lemmas about the bytes of the file *)

LEMMA SliceFacts ==
  ASSUME NEW from \in Nat, NEW n \in Nat
  PROVE  Slice(from, n) \in Seq(Nat) /\ Len(Slice(from, n)) = n
<1>1. \A i \in 1 .. n : from + i - 1 \in Nat
  OBVIOUS
<1> QED BY <1>1 DEF Slice

\* Consecutive slices of the file join (append to resp.Data).
LEMMA SlicesJoin ==
  ASSUME NEW from \in Nat, NEW m \in Nat, NEW n \in Nat
  PROVE  Slice(from, m) \o Slice(from + m, n) = Slice(from, m + n)
<1>1. Slice(from, m) \in Seq(Nat) /\ Len(Slice(from, m)) = m
  BY SliceFacts
<1>2. Slice(from + m, n) \in Seq(Nat) /\ Len(Slice(from + m, n)) = n
  <2>1. from + m \in Nat
    OBVIOUS
  <2> QED BY <2>1, SliceFacts
<1>3. Slice(from, m + n) \in Seq(Nat) /\ Len(Slice(from, m + n)) = m + n
  <2>1. m + n \in Nat
    OBVIOUS
  <2> QED BY <2>1, SliceFacts
<1>4. \A i \in 1 .. m + n :
        (Slice(from, m) \o Slice(from + m, n))[i] = Slice(from, m + n)[i]
  BY <1>1, <1>2 DEF Slice
<1> DEFINE both == Slice(from, m) \o Slice(from + m, n)
<1>5. both \in Seq(Nat) /\ Len(both) = m + n
  BY <1>1, <1>2, ConcatProperties
<1>6. \A i \in 1 .. Len(both) : both[i] = Slice(from, m + n)[i]
  BY <1>4, <1>5
<1> HIDE DEF both
<1>7. both = Slice(from, m + n)
  BY <1>3, <1>5, <1>6, SeqEqual
<1> QED BY <1>7 DEF both

LEMMA SliceGrows ==
  ASSUME NEW from \in Nat, NEW m \in Nat, NEW n \in Nat
  PROVE  /\ Slice(from, m) \o Slice(from + m, n) = Slice(from, m + n)
         /\ Len(Slice(from, m + n)) = m + n
<1>1. m + n \in Nat
  OBVIOUS
<1>2. Len(Slice(from, m + n)) = m + n
  BY <1>1, SliceFacts
<1> QED BY <1>2, SlicesJoin

\* A cached block that is longer than the request is cut to a slice.
LEMMA SliceIsCut ==
  ASSUME NEW from \in Nat, NEW n \in Nat, NEW k \in 0 .. n
  PROVE  SubSeq(Slice(from, n), 1, k) = Slice(from, k)
<1>1. Slice(from, n) \in Seq(Nat) /\ Len(Slice(from, n)) = n
  BY SliceFacts
<1> QED BY <1>1 DEF Slice

LEMMA EmptySlice ==
  ASSUME NEW from \in Nat
  PROVE  Slice(from, 0) = <<>>
BY DEF Slice

\* Reading from a body moves its position and nothing else.
LEMMA BodyMoved ==
  ASSUME NEW b \in Body, NEW n \in Nat
  PROVE  LET c == [b EXCEPT !.at = @ + n] IN
         c \in Body /\ c.at = b.at + n /\ c.end = b.end /\ c.last = b.last
<1>1. b = [at |-> b.at, end |-> b.end, last |-> b.last] /\ b.at \in Nat
  BY DEF Body
<1>2. [b EXCEPT !.at = @ + n] = [at |-> b.at + n, end |-> b.end, last |-> b.last]
  BY <1>1
<1> QED BY <1>1, <1>2 DEF Body

-----------------------------------------------------------------------------
(* One lemma per operation *)

LEMMA StartReadKeeps ==
  ASSUME OneReader, StreamInv, NEW r \in Readers,
         NEW off \in Offsets, NEW size \in Sizes, StartRead(r, off, size)
  PROVE  StreamInv'
<1> Readers = {r}
  BY DEF OneReader
<1>0. off \in Nat /\ size \in Nat /\ Chopped(size) \in Nat /\ Chopped(size) > 0
  BY DEF Chopped, Least
<1>1. TypeOK'
  BY <1>0 DEF StreamInv, TypeOK, StartRead, Goto, settings, handle
<1>2. BodyFits' /\ OffsetFits'
  BY <1>0 DEF StreamInv, TypeOK, BodyFits, PlaceFits, BlockFits, OffsetFits,
       Unaccounted, Got, InBody, StartRead, Goto, settings, handle
<1>3. PlaceFits(r)' /\ BlockFits(r)'
  BY <1>0 DEF StreamInv, TypeOK, PlaceFits, BlockFits, InBody, Got, StartRead, Goto,
       settings, handle
<1>4. CacheFits' /\ CacheHoldsTheFile'
  BY DEF StreamInv, CacheFits, CacheHoldsTheFile, StartRead, settings
<1>5. (ReadsReturnTheFile /\ ReadsAreComplete /\ EmptyOnlyAtTheEnd /\ ErrorsHaveACause)'
  BY DEF StreamInv, TypeOK, ReadsReturnTheFile, ReadsAreComplete, EmptyOnlyAtTheEnd,
       ErrorsHaveACause, StartRead, Goto
<1> QED BY <1>1, <1>2, <1>3, <1>4, <1>5 DEF StreamInv

LEMMA ReadEmptyFileKeeps ==
  ASSUME OneReader, StreamInv, NEW r \in Readers,
         NEW off \in Offsets, NEW size \in Sizes, ReadEmptyFile(r, off, size)
  PROVE  StreamInv'
<1> Readers = {r}
  BY DEF OneReader
<1>0. off \in Nat /\ size \in Nat /\ size > 0
  OBVIOUS
<1>1. TypeOK'
  BY <1>0 DEF StreamInv, TypeOK, ReadEmptyFile, Answer, Goto, settings, handle
<1>2. BodyFits' /\ OffsetFits'
  BY <1>0 DEF StreamInv, TypeOK, BodyFits, PlaceFits, BlockFits, OffsetFits,
       Unaccounted, Got, InBody, ReadEmptyFile, Answer, Goto, settings, handle
<1>3. PlaceFits(r)' /\ BlockFits(r)'
  BY <1>0 DEF StreamInv, TypeOK, PlaceFits, BlockFits, InBody, Got, ReadEmptyFile,
       Answer, Goto, settings, handle
<1>4. CacheFits' /\ CacheHoldsTheFile'
  BY DEF StreamInv, CacheFits, CacheHoldsTheFile, ReadEmptyFile, settings
<1>5. (ReadsReturnTheFile /\ ReadsAreComplete /\ EmptyOnlyAtTheEnd /\ ErrorsHaveACause)'
  BY <1>0, EmptySlice DEF StreamInv, TypeOK, ReadsReturnTheFile, ReadsAreComplete,
       EmptyOnlyAtTheEnd, ErrorsHaveACause, ReadEmptyFile, Answer, Goto, settings
<1> QED BY <1>1, <1>2, <1>3, <1>4, <1>5 DEF StreamInv

LEMMA ReadCachedKeeps ==
  ASSUME OneReader, StreamInv, NEW r \in Readers,
         NEW off \in Offsets, NEW size \in Sizes, ReadCached(r, off, size)
  PROVE  StreamInv'
<1> Readers = {r}
  BY DEF OneReader
<1>0. off \in Nat /\ size \in Nat /\ Chopped(size) \in Nat /\ Chopped(size) > 0
  BY DEF Chopped, Least
<1> DEFINE n == Chopped(size)
<1>a. PICK e \in lruCache : e.at = off /\ Answer(r, "ok", SubSeq(e.bytes, 1, Least(Len(e.bytes), n)))
  BY DEF ReadCached
<1>b. e.bytes \in Seq(Nat) /\ Len(e.bytes) \in Nat /\ e.bytes = Slice(off, Len(e.bytes))
  BY <1>a DEF StreamInv, TypeOK, CacheHoldsTheFile
<1> DEFINE k == Least(Len(e.bytes), n)
<1>c. k \in 0 .. Len(e.bytes) /\ k \in Nat /\ (k = 0 => Len(e.bytes) = 0)
  BY <1>0, <1>b DEF Least
<1>d. SubSeq(e.bytes, 1, k) = Slice(off, k)
  <2> DEFINE m == Len(e.bytes)
  <2>1. m \in Nat /\ k \in 0 .. m
    BY <1>b, <1>c
  <2> HIDE DEF m
  <2>2. SubSeq(Slice(off, m), 1, k) = Slice(off, k)
    BY <1>0, <2>1, SliceIsCut
  <2> QED BY <1>b, <2>2 DEF m
<1>e. Slice(off, k) \in Seq(Nat) /\ Len(Slice(off, k)) = k
  BY <1>0, <1>c, SliceFacts
<1>f. Answer(r, "ok", Slice(off, k))
  BY <1>a, <1>d
<1>g. lruEnabled /\ (k = 0 => off >= ContentSize)
  BY <1>a, <1>b, <1>c, EmptySlice DEF StreamInv, CacheFits
<1> HIDE DEF n, k
<1>1. TypeOK'
  BY <1>0, <1>e, <1>f DEF n, StreamInv, TypeOK, ReadCached, Answer, Goto, settings, handle
<1>2. BodyFits' /\ OffsetFits'
  BY <1>0, <1>f DEF n, StreamInv, TypeOK, BodyFits, PlaceFits, BlockFits,
       OffsetFits, Unaccounted, Got, InBody, ReadCached, Answer, Goto,
       settings, handle
<1>3. PlaceFits(r)' /\ BlockFits(r)'
  BY <1>0, <1>f DEF n, StreamInv, TypeOK, PlaceFits, BlockFits, InBody, Got,
       ReadCached, Answer, Goto, settings, handle
<1>4. CacheFits' /\ CacheHoldsTheFile'
  BY DEF StreamInv, CacheFits, CacheHoldsTheFile, ReadCached, settings
<1>5. (ReadsReturnTheFile /\ ReadsAreComplete /\ EmptyOnlyAtTheEnd /\ ErrorsHaveACause)'
  BY <1>0, <1>c, <1>e, <1>f, <1>g DEF n, StreamInv, TypeOK, ReadsReturnTheFile,
       ReadsAreComplete, EmptyOnlyAtTheEnd, ErrorsHaveACause, ReadCached, Answer,
       Goto, settings
<1> QED BY <1>1, <1>2, <1>3, <1>4, <1>5 DEF StreamInv

LEMMA SeekNowhereKeeps ==
  ASSUME OneReader, StreamInv, NEW r \in Readers, SeekNowhere(r)
  PROVE  StreamInv'
<1> Readers = {r}
  BY DEF OneReader
<1>1. TypeOK'
  BY DEF StreamInv, TypeOK, SeekNowhere, Goto, settings, handle
<1>2. BodyFits' /\ OffsetFits'
  BY DEF StreamInv, TypeOK, BodyFits, PlaceFits, BlockFits, OffsetFits,
       Unaccounted, Got, InBody, SeekNowhere, Goto, settings, handle
<1>3. PlaceFits(r)' /\ BlockFits(r)'
  BY DEF StreamInv, TypeOK, PlaceFits, BlockFits, InBody, Got, SeekNowhere, Goto,
       settings, handle
<1>4. CacheFits' /\ CacheHoldsTheFile'
  BY DEF StreamInv, CacheFits, CacheHoldsTheFile, SeekNowhere, Goto, settings, handle
<1>5. (ReadsReturnTheFile /\ ReadsAreComplete /\ EmptyOnlyAtTheEnd /\ ErrorsHaveACause)'
  BY DEF StreamInv, TypeOK, ReadsReturnTheFile, ReadsAreComplete, EmptyOnlyAtTheEnd,
       ErrorsHaveACause, SeekNowhere, Goto, settings, handle
<1> QED BY <1>1, <1>2, <1>3, <1>4, <1>5 DEF StreamInv

LEMMA SeekForwardKeeps ==
  ASSUME OneReader, StreamInv, NEW r \in Readers, SeekForward(r)
  PROVE  StreamInv'
<1> Readers = {r}
  BY DEF OneReader
<1>1. TypeOK'
  BY DEF StreamInv, TypeOK, SeekForward, Goto, MaySkip, settings, handle
<1>2. BodyFits' /\ OffsetFits'
  BY DEF StreamInv, TypeOK, BodyFits, PlaceFits, BlockFits, OffsetFits,
       Unaccounted, Got, InBody, SeekForward, Goto, MaySkip, settings, handle
<1>3. PlaceFits(r)' /\ BlockFits(r)'
  <2>1. /\ connected' /\ offset' = offset /\ req' = req /\ data' = data
        /\ fileSize' = fileSize /\ pc'[r] = "skip"
        /\ count'[r] = req[r].off - offset
    BY DEF StreamInv, TypeOK, SeekForward, Goto, settings, handle
  <2>2. offset \in Nat /\ req[r].off \in Nat /\ req[r].off > offset
    BY DEF StreamInv, TypeOK, SeekForward, MaySkip
  <2>3. req[r].size > 0 /\ fileSize # 0 /\ data[r] = <<>>
    BY DEF StreamInv, PlaceFits, SeekForward
  <2>4. PlaceFits(r)'
    BY <2>1, <2>2, <2>3 DEF PlaceFits, InBody
  <2>5. BlockFits(r)'
    BY DEF StreamInv, TypeOK, BlockFits, InBody, SeekForward
  <2> QED BY <2>4, <2>5
<1>4. CacheFits' /\ CacheHoldsTheFile'
  BY DEF StreamInv, CacheFits, CacheHoldsTheFile, SeekForward, Goto, MaySkip,
       settings, handle
<1>5. (ReadsReturnTheFile /\ ReadsAreComplete /\ EmptyOnlyAtTheEnd /\ ErrorsHaveACause)'
  BY DEF StreamInv, TypeOK, ReadsReturnTheFile, ReadsAreComplete, EmptyOnlyAtTheEnd,
       ErrorsHaveACause, SeekForward, Goto, MaySkip, settings, handle
<1> QED BY <1>1, <1>2, <1>3, <1>4, <1>5 DEF StreamInv

LEMMA SeekAwayKeeps ==
  ASSUME OneReader, StreamInv, NEW r \in Readers, SeekAway(r)
  PROVE  StreamInv'
<1> Readers = {r}
  BY DEF OneReader
<1>1. TypeOK'
  BY DEF StreamInv, TypeOK, SeekAway, Goto, ResetHandle, settings, handle
<1>2. BodyFits' /\ OffsetFits'
  BY DEF StreamInv, TypeOK, BodyFits, PlaceFits, BlockFits, OffsetFits,
       Unaccounted, Got, InBody, SeekAway, Goto, ResetHandle, settings, handle
<1>3. PlaceFits(r)' /\ BlockFits(r)'
  BY DEF StreamInv, TypeOK, PlaceFits, BlockFits, InBody, Got, SeekAway, Goto,
       ResetHandle, settings, handle
<1>4. CacheFits' /\ CacheHoldsTheFile'
  BY DEF StreamInv, CacheFits, CacheHoldsTheFile, SeekAway, Goto, ResetHandle,
       settings, handle
<1>5. (ReadsReturnTheFile /\ ReadsAreComplete /\ EmptyOnlyAtTheEnd /\ ErrorsHaveACause)'
  BY DEF StreamInv, TypeOK, ReadsReturnTheFile, ReadsAreComplete, EmptyOnlyAtTheEnd,
       ErrorsHaveACause, SeekAway, Goto, ResetHandle, settings, handle
<1> QED BY <1>1, <1>2, <1>3, <1>4, <1>5 DEF StreamInv

LEMMA UseConnectionKeeps ==
  ASSUME OneReader, StreamInv, NEW r \in Readers, UseConnection(r)
  PROVE  StreamInv'
<1> Readers = {r}
  BY DEF OneReader
<1>1. TypeOK'
  BY DEF StreamInv, TypeOK, UseConnection, Goto, settings, handle
<1>2. BodyFits' /\ OffsetFits'
  BY DEF StreamInv, TypeOK, BodyFits, PlaceFits, BlockFits, OffsetFits,
       Unaccounted, Got, InBody, UseConnection, Goto, settings, handle
<1>3. PlaceFits(r)' /\ BlockFits(r)'
  BY EmptySlice DEF StreamInv, TypeOK, PlaceFits, BlockFits, InBody, Got,
       UseConnection, Goto, settings, handle
<1>4. CacheFits' /\ CacheHoldsTheFile'
  BY DEF StreamInv, CacheFits, CacheHoldsTheFile, UseConnection, Goto, settings, handle
<1>5. (ReadsReturnTheFile /\ ReadsAreComplete /\ EmptyOnlyAtTheEnd /\ ErrorsHaveACause)'
  BY DEF StreamInv, TypeOK, ReadsReturnTheFile, ReadsAreComplete, EmptyOnlyAtTheEnd,
       ErrorsHaveACause, UseConnection, Goto, settings, handle
<1> QED BY <1>1, <1>2, <1>3, <1>4, <1>5 DEF StreamInv

LEMMA DialKeeps ==
  ASSUME OneReader, StreamInv, NEW r \in Readers, Dial(r)
  PROVE  StreamInv'
<1> Readers = {r}
  BY DEF OneReader
<1>1. TypeOK'
  BY DEF StreamInv, TypeOK, Dial, Goto, settings, handle
<1>2. BodyFits' /\ OffsetFits'
  BY DEF StreamInv, TypeOK, BodyFits, PlaceFits, BlockFits, OffsetFits,
       Unaccounted, Got, InBody, Dial, Goto, settings, handle
<1>3. PlaceFits(r)' /\ BlockFits(r)'
  BY DEF StreamInv, TypeOK, PlaceFits, BlockFits, InBody, Got, Dial, Goto, settings,
       handle
<1>4. CacheFits' /\ CacheHoldsTheFile'
  BY DEF StreamInv, CacheFits, CacheHoldsTheFile, Dial, Goto, settings, handle
<1>5. (ReadsReturnTheFile /\ ReadsAreComplete /\ EmptyOnlyAtTheEnd /\ ErrorsHaveACause)'
  BY DEF StreamInv, TypeOK, ReadsReturnTheFile, ReadsAreComplete, EmptyOnlyAtTheEnd,
       ErrorsHaveACause, Dial, Goto, settings, handle
<1> QED BY <1>1, <1>2, <1>3, <1>4, <1>5 DEF StreamInv

LEMMA DialFailsKeeps ==
  ASSUME OneReader, StreamInv, NEW r \in Readers, DialFails(r)
  PROVE  StreamInv'
<1> Readers = {r}
  BY DEF OneReader
<1>a. connected' \in BOOLEAN /\ offset' \in Nat /\ bbody' \in {bbody, NoBody}
  <2>1. CASE UNCHANGED handle
    BY <2>1 DEF StreamInv, TypeOK, handle
  <2>2. CASE ResetHandle
    BY <2>2 DEF ResetHandle
  <2> QED BY <2>1, <2>2 DEF DialFails
<1>b. faults' \in 1 .. MaxFaults
  BY DEF StreamInv, TypeOK, DialFails
<1>1. TypeOK'
  BY <1>a, <1>b DEF StreamInv, TypeOK, DialFails, Answer, Goto, settings
<1>2. BodyFits' /\ OffsetFits'
  BY DEF StreamInv, TypeOK, BodyFits, PlaceFits, BlockFits, OffsetFits,
       Unaccounted, Got, InBody, DialFails, Answer, Goto, ResetHandle, settings,
       handle
<1>3. PlaceFits(r)' /\ BlockFits(r)'
  BY DEF StreamInv, TypeOK, PlaceFits, BlockFits, InBody, Got, DialFails, Answer,
       Goto, ResetHandle, settings, handle
<1>4. CacheFits' /\ CacheHoldsTheFile'
  BY DEF StreamInv, CacheFits, CacheHoldsTheFile, DialFails, Answer, Goto,
       ResetHandle, settings, handle
<1>5. (ReadsReturnTheFile /\ ReadsAreComplete /\ EmptyOnlyAtTheEnd /\ ErrorsHaveACause)'
  BY DEF StreamInv, TypeOK, ReadsReturnTheFile, ReadsAreComplete, EmptyOnlyAtTheEnd,
       ErrorsHaveACause, DialFails, Answer, Goto, ResetHandle, settings, handle
<1> QED BY <1>1, <1>2, <1>3, <1>4, <1>5 DEF StreamInv

LEMMA ReleaseKeeps ==
  ASSUME OneReader, StreamInv, NEW r \in Readers, Release(r)
  PROVE  StreamInv'
<1> Readers = {r}
  BY DEF OneReader
<1>1. TypeOK'
  BY DEF StreamInv, TypeOK, Release, ResetHandle, request, settings, handle
<1>2. BodyFits' /\ OffsetFits'
  BY DEF StreamInv, TypeOK, BodyFits, PlaceFits, BlockFits, OffsetFits,
       Unaccounted, Got, InBody, Release, ResetHandle, request, settings, handle
<1>3. PlaceFits(r)' /\ BlockFits(r)'
  BY DEF StreamInv, TypeOK, PlaceFits, BlockFits, InBody, Got, Release, ResetHandle,
       request, settings, handle
<1>4. CacheFits' /\ CacheHoldsTheFile'
  BY DEF StreamInv, CacheFits, CacheHoldsTheFile, Release, ResetHandle, request,
       settings, handle
<1>5. (ReadsReturnTheFile /\ ReadsAreComplete /\ EmptyOnlyAtTheEnd /\ ErrorsHaveACause)'
  BY DEF StreamInv, TypeOK, ReadsReturnTheFile, ReadsAreComplete, EmptyOnlyAtTheEnd,
       ErrorsHaveACause, Release, ResetHandle, request, settings, handle
<1> QED BY <1>1, <1>2, <1>3, <1>4, <1>5 DEF StreamInv

LEMMA DialPartialKeeps ==
  ASSUME OneReader, StreamInv, NEW r \in Readers, DialPartial(r)
  PROVE  StreamInv'
<1> Readers = {r}
  BY DEF OneReader
<1> DEFINE end == Greatest(req[r].off, ContentSize)
<1>a. /\ connected' = TRUE /\ offset' = req[r].off
      /\ bbody' = [at |-> req[r].off, end |-> end, last |-> "EOF"]
  BY DEF DialPartial
<1>b. /\ req[r].off \in Nat /\ req[r].size \in Nat /\ end \in Nat
      /\ req[r].off <= end /\ ContentSize <= end
      /\ end = ContentSize \/ end = req[r].off
  BY DEF StreamInv, TypeOK, Greatest
<1>c. req[r].size > 0 /\ fileSize # 0 /\ data[r] = <<>> /\ block[r] = NoBlock
  BY DEF StreamInv, PlaceFits, BlockFits, InBody, DialPartial
<1>d. /\ pc'[r] = "read" /\ count'[r] = req[r].size
      /\ UNCHANGED <<fileSize, lruEnabled, lruCache, req, block, data, answer, faults>>
  BY DEF StreamInv, TypeOK, DialPartial, Goto, settings
<1>e. bbody' \in Body
  BY <1>a, <1>b DEF Body
<1> HIDE DEF end
<1>1. TypeOK'
  BY <1>a, <1>b, <1>e DEF StreamInv, TypeOK, DialPartial, Goto, settings
<1>2. BodyFits' /\ OffsetFits'
  BY <1>a, <1>b, <1>c, <1>d, <1>e DEF BodyFits, OffsetFits, Unaccounted
<1>3. PlaceFits(r)' /\ BlockFits(r)'
  BY <1>a, <1>b, <1>c, <1>d, EmptySlice DEF PlaceFits, BlockFits, InBody
<1>4. CacheFits' /\ CacheHoldsTheFile'
  BY <1>d DEF StreamInv, CacheFits, CacheHoldsTheFile
<1>5. (ReadsReturnTheFile /\ ReadsAreComplete /\ EmptyOnlyAtTheEnd /\ ErrorsHaveACause)'
  BY <1>d DEF ReadsReturnTheFile, ReadsAreComplete, EmptyOnlyAtTheEnd, ErrorsHaveACause
<1> QED BY <1>1, <1>2, <1>3, <1>4, <1>5 DEF StreamInv

LEMMA DialPlainKeeps ==
  ASSUME OneReader, StreamInv, NEW r \in Readers, DialPlain(r)
  PROVE  StreamInv'
<1> Readers = {r}
  BY DEF OneReader
<1>p. PICK end \in {ContentSize} \cup (IF req[r].off >= ContentSize THEN {0} ELSE {}) :
        bbody' = [at |-> 0, end |-> end, last |-> "EOF"]
  BY DEF DialPlain
<1>a. connected' = TRUE /\ offset' = 0
  BY DEF DialPlain, PlainStart
<1>b. /\ req[r].off \in Nat /\ req[r].size \in Nat /\ end \in Nat
      /\ end = ContentSize \/ (end = 0 /\ req[r].off >= ContentSize)
  BY <1>p DEF StreamInv, TypeOK
<1>c. req[r].size > 0 /\ fileSize # 0 /\ data[r] = <<>> /\ block[r] = NoBlock
  BY DEF StreamInv, PlaceFits, BlockFits, InBody, DialPlain
<1>d. /\ \/ pc'[r] = "read" /\ count'[r] = req[r].size /\ req[r].off = 0
         \/ pc'[r] = "discard" /\ count'[r] = req[r].off /\ req[r].off > 0
      /\ UNCHANGED <<fileSize, lruEnabled, lruCache, req, block, data, answer, faults>>
  BY <1>b DEF StreamInv, TypeOK, DialPlain, Goto, settings
<1>e. bbody' \in Body
  BY <1>p, <1>b DEF Body
<1>1. TypeOK'
  BY <1>p, <1>a, <1>b, <1>e DEF StreamInv, TypeOK, DialPlain, Goto, settings
<1>2. BodyFits' /\ OffsetFits'
  BY <1>p, <1>a, <1>b, <1>c, <1>d, <1>e DEF BodyFits, OffsetFits, Unaccounted
<1>3. PlaceFits(r)' /\ BlockFits(r)'
  <2>1. CASE pc'[r] = "read"
    <3>1. data'[r] = Slice(req'[r].off, 0) /\ Len(data'[r]) = 0
      BY <1>b, <1>c, <1>d, EmptySlice
    <3>2. /\ req'[r].off = 0 /\ req'[r].size = count'[r] /\ count'[r] \in Nat
          /\ count'[r] > 0 /\ fileSize' # 0 /\ block'[r] = NoBlock
      BY <2>1, <1>b, <1>c, <1>d
    <3> QED BY <2>1, <3>1, <3>2, <1>a DEF PlaceFits, BlockFits, InBody
  <2>2. CASE pc'[r] = "discard"
    BY <2>2, <1>a, <1>b, <1>c, <1>d DEF PlaceFits, BlockFits, InBody
  <2> QED BY <2>1, <2>2, <1>d
<1>4. CacheFits' /\ CacheHoldsTheFile'
  BY <1>d DEF StreamInv, CacheFits, CacheHoldsTheFile
<1>5. (ReadsReturnTheFile /\ ReadsAreComplete /\ EmptyOnlyAtTheEnd /\ ErrorsHaveACause)'
  BY <1>d DEF ReadsReturnTheFile, ReadsAreComplete, EmptyOnlyAtTheEnd, ErrorsHaveACause
<1> QED BY <1>1, <1>2, <1>3, <1>4, <1>5 DEF StreamInv

LEMMA ConnectionDiesKeeps ==
  ASSUME OneReader, StreamInv, ConnectionDies
  PROVE  StreamInv'
<1>a. bbody # NoBody /\ bbody \in Body /\ bbody.at <= bbody.end
  BY DEF StreamInv, TypeOK, ConnectionDies
<1>p. PICK end \in bbody.at .. bbody.end :
        bbody' = [at |-> bbody.at, end |-> end, last |-> "failed"]
  BY DEF ConnectionDies
<1>b. /\ bbody' \in Body /\ bbody'.at = bbody.at /\ bbody'.end = end
      /\ bbody'.last = "failed"
  BY <1>a, <1>p DEF Body
<1>c. /\ faults' = faults + 1 /\ faults' \in 1 .. MaxFaults
      /\ UNCHANGED <<fileSize, lruEnabled, connected, offset, lruCache, pc, req, count, block, data, answer>>
  BY DEF StreamInv, TypeOK, ConnectionDies, settings, request
<1>d. bbody.at \in Nat /\ bbody.end \in Nat /\ bbody.at <= end /\ end <= bbody.end /\ end \in Nat
  BY <1>a DEF Body
<1>1. TypeOK'
  BY <1>b, <1>c, <1>d DEF StreamInv, TypeOK
<1>2. BodyFits' /\ OffsetFits'
  BY <1>a, <1>b, <1>c, <1>d DEF StreamInv, BodyFits, OffsetFits, Unaccounted, Got
<1>3. \A r \in Readers : PlaceFits(r)' /\ BlockFits(r)'
  BY <1>c DEF StreamInv, PlaceFits, BlockFits, InBody, Got
<1>4. CacheFits' /\ CacheHoldsTheFile'
  BY <1>c DEF StreamInv, CacheFits, CacheHoldsTheFile
<1>5. (ReadsReturnTheFile /\ ReadsAreComplete /\ EmptyOnlyAtTheEnd /\ ErrorsHaveACause)'
  BY <1>c DEF StreamInv, ReadsReturnTheFile, ReadsAreComplete, EmptyOnlyAtTheEnd,
       ErrorsHaveACause
<1> QED BY <1>1, <1>2, <1>3, <1>4, <1>5 DEF StreamInv

\* With one request nobody takes the body away while it is read.
LEMMA FetchNeverPanics ==
  ASSUME StreamInv, NEW r \in Readers
  PROVE  ~ FetchPanics(r)
BY DEF StreamInv, BodyFits, PlaceFits, FetchPanics

LEMMA FetchKeeps ==
  ASSUME OneReader, StreamInv, NEW r \in Readers, Fetch(r)
  PROVE  StreamInv'
<1> Readers = {r}
  BY DEF OneReader
<1>a. /\ bbody # NoBody /\ bbody \in Body /\ bbody.at \in Nat /\ bbody.end \in Nat
      /\ bbody.last \in {"EOF", "failed"} /\ bbody.at <= bbody.end
      /\ InBody(r) /\ block[r] = NoBlock /\ connected /\ offset = bbody.at /\ offset \in Nat
  BY DEF StreamInv, TypeOK, Fetch, OffsetFits, Unaccounted, PlaceFits, Body
<1> DEFINE n == Least(count[r], BlockSize)
           got == Least(n, bbody.end - bbody.at)
           b == Fetched(n)
<1>b. count[r] \in Nat /\ n \in Nat /\ n > 0 /\ n <= count[r]
  BY <1>a DEF StreamInv, TypeOK, PlaceFits, Least
<1>c. got \in Nat /\ got <= n /\ bbody.at + got <= bbody.end
      /\ (got # n => got = bbody.end - bbody.at)
  <2> HIDE DEF n
  <2> QED BY <1>a, <1>b DEF Least
<1> HIDE DEF n
<1>d. b.bytes = Slice(offset, got) /\ b.bytes \in Seq(Nat) /\ Len(b.bytes) = got
  BY <1>a, <1>c, SliceFacts DEF Fetched
<1>e. b.err = IF got = n \/ (got > 0 /\ bbody.last = "EOF") THEN "nil" ELSE bbody.last
  BY DEF Fetched
<1>f. b \in Block
  <2>1. b = [bytes |-> b.bytes, err |-> b.err]
    BY DEF Fetched
  <2>2. b.err \in Errors
    BY <1>a, <1>e DEF Errors
  <2> HIDE DEF b
  <2> QED BY <1>d, <2>1, <2>2 DEF Block
<1>g. /\ block' = [block EXCEPT ![r] = b]
      /\ bbody' = [bbody EXCEPT !.at = @ + Len(b.bytes)]
      /\ UNCHANGED <<fileSize, lruEnabled, connected, offset, lruCache, pc, req, count, data, answer, faults>>
  BY DEF Fetch, n, settings
<1> HIDE DEF b, got
<1>h. /\ bbody' \in Body /\ bbody'.at = offset + got /\ bbody'.end = bbody.end
      /\ bbody'.last = bbody.last
  BY <1>a, <1>c, <1>d, <1>g, BodyMoved
<1>i. block'[r] = b /\ b # NoBlock
  <2>1. b # NoBlock
    BY <1>f
  <2> QED BY <2>1, <1>g DEF StreamInv, TypeOK
<1>1. TypeOK'
  BY <1>a, <1>c, <1>f, <1>g, <1>h, <1>i DEF StreamInv, TypeOK
<1>2. BodyFits' /\ OffsetFits'
  BY <1>a, <1>c, <1>d, <1>g, <1>h, <1>i DEF StreamInv, BodyFits, OffsetFits,
       Unaccounted, Got
<1>3. PlaceFits(r)'
  BY <1>g DEF StreamInv, PlaceFits, InBody
<1>4. BlockFits(r)'
  <2>1. /\ Got(r)' = got /\ InBody(r)' /\ block'[r].bytes = Slice(offset', got)
        /\ got <= count'[r]
    BY <1>a, <1>b, <1>c, <1>d, <1>g, <1>i DEF Got, InBody
  <2>2. got > 0 => offset' + got <= ContentSize
    BY <1>a, <1>c, <1>g DEF StreamInv, BodyFits
  <2>3. block'[r].err = "failed" => faults' > 0
    BY <1>a, <1>e, <1>g, <1>i DEF StreamInv, BodyFits
  <2>4. ASSUME block'[r].err = "EOF"
        PROVE  /\ got = 0
               /\ \/ offset' >= ContentSize
                  \/ pc'[r] = "discard" /\ req'[r].off >= ContentSize
    <3>1. bbody.last = "EOF" /\ got = 0 /\ got # n
      BY <2>4, <1>a, <1>c, <1>e, <1>i
    <3>2. offset = bbody.end
      BY <3>1, <1>a, <1>c
    <3> QED BY <3>1, <3>2, <1>a, <1>g DEF StreamInv, BodyFits
  <2> QED BY <2>1, <2>2, <2>3, <2>4 DEF BlockFits
<1>5. CacheFits' /\ CacheHoldsTheFile'
  BY <1>g DEF StreamInv, CacheFits, CacheHoldsTheFile
<1>6. (ReadsReturnTheFile /\ ReadsAreComplete /\ EmptyOnlyAtTheEnd /\ ErrorsHaveACause)'
  BY <1>g DEF StreamInv, ReadsReturnTheFile, ReadsAreComplete, EmptyOnlyAtTheEnd,
       ErrorsHaveACause
<1> QED BY <1>1, <1>2, <1>3, <1>4, <1>5, <1>6 DEF StreamInv

\* What a fetched block and the body tell about each other.
LEMMA BlockInHand ==
  ASSUME OneReader, StreamInv, NEW r \in Readers, InBody(r), block[r] # NoBlock
  PROVE  /\ Readers = {r}
         /\ block[r] \in Block /\ block[r].bytes \in Seq(Nat) /\ block[r].err \in Errors
         /\ Got(r) \in Nat /\ offset \in Nat /\ count[r] \in Nat /\ Got(r) <= count[r]
         /\ offset + Got(r) \in Nat /\ count[r] - Got(r) \in Nat
         /\ block[r].bytes = Slice(offset, Got(r))
         /\ connected /\ bbody # NoBody /\ bbody.at = offset + Got(r)
<1>1. block[r] \in Block
  BY DEF StreamInv, TypeOK
<1>2. /\ block[r].bytes \in Seq(Nat) /\ block[r].err \in Errors
      /\ Got(r) \in Nat /\ offset \in Nat /\ count[r] \in Nat
  BY <1>1 DEF StreamInv, TypeOK, Block, Got
<1>3. Got(r) <= count[r] /\ block[r].bytes = Slice(offset, Got(r))
  BY DEF StreamInv, BlockFits
<1>4. connected /\ bbody # NoBody /\ bbody.at = offset + Got(r)
  BY DEF StreamInv, PlaceFits, OffsetFits, Unaccounted
<1> QED BY <1>1, <1>2, <1>3, <1>4 DEF OneReader

\* Add puts the block under file.offset, before the offset moves on.
LEMMA CacheBlockKeeps ==
  ASSUME OneReader, StreamInv, NEW r \in Readers, pc[r] = "read", block[r] # NoBlock,
         CacheBlock(r), UNCHANGED lruEnabled
  PROVE  /\ CacheFits' /\ CacheHoldsTheFile'
         /\ \A e \in lruCache' : e.at \in Nat /\ e.bytes \in Seq(Nat)
<1>0. InBody(r)
  BY DEF InBody
<1> DEFINE new == [at |-> offset, bytes |-> block[r].bytes]
<1>1. new.at \in Nat /\ new.bytes \in Seq(Nat) /\ new.bytes = Slice(new.at, Len(new.bytes))
  BY <1>0, BlockInHand DEF Got
<1>2. \/ lruCache' = lruCache
      \/ /\ lruEnabled /\ lruCache' \subseteq lruCache \cup {new}
         /\ block[r].bytes # <<>> \/ block[r].err = "EOF"
  BY DEF CacheBlock
<1>3. lruEnabled /\ block[r].err = "EOF" => offset >= ContentSize
  BY DEF StreamInv, BlockFits
<1> HIDE DEF new
<1>4. new.at = offset /\ new.bytes = block[r].bytes
  BY DEF new
<1>5. CacheFits'
  BY <1>2, <1>3, <1>4 DEF StreamInv, CacheFits
<1>6. CacheHoldsTheFile'
  BY <1>1, <1>2 DEF StreamInv, CacheHoldsTheFile
<1>7. \A e \in lruCache' : e.at \in Nat /\ e.bytes \in Seq(Nat)
  BY <1>1, <1>2 DEF StreamInv, TypeOK
<1> QED BY <1>5, <1>6, <1>7

LEMMA NextBlockKeeps ==
  ASSUME OneReader, StreamInv, NEW r \in Readers, NextBlock(r)
  PROVE  StreamInv'
<1>a. InBody(r) /\ block[r] # NoBlock /\ pc[r] \in {"skip", "discard", "read"}
  BY DEF NextBlock, InBody
<1> Readers = {r}
  BY DEF OneReader
<1> DEFINE g == Got(r)
<1>b. /\ g \in Nat /\ offset \in Nat /\ count[r] \in Nat /\ g < count[r]
      /\ block[r].bytes = Slice(offset, g) /\ block[r].bytes \in Seq(Nat)
      /\ Len(block[r].bytes) = g
      /\ connected /\ bbody # NoBody /\ bbody.at = offset + g
      /\ block[r].err = "nil"
  BY <1>a, BlockInHand DEF NextBlock, Ends, Got
<1>c. g > 0 => offset + g <= ContentSize
  BY <1>a DEF StreamInv, BlockFits
<1> HIDE DEF g
<1>d. /\ offset' = offset + g /\ block' = [block EXCEPT ![r] = NoBlock]
      /\ count' = [count EXCEPT ![r] = @ - g]
      /\ UNCHANGED <<fileSize, lruEnabled, connected, bbody, pc, req, answer, faults>>
  BY DEF NextBlock, Advance, settings, g
<1>e. block'[r] = NoBlock /\ count'[r] = count[r] - g
  BY <1>d DEF StreamInv, TypeOK
<1>f. /\ CacheFits' /\ CacheHoldsTheFile'
      /\ \A e \in lruCache' : e.at \in Nat /\ e.bytes \in Seq(Nat)
  <2>1. CASE pc[r] = "read"
    BY <2>1, <1>a, CacheBlockKeeps DEF NextBlock, settings
  <2>2. CASE pc[r] # "read"
    BY <2>2, <1>d DEF NextBlock, StreamInv, TypeOK, CacheFits, CacheHoldsTheFile
  <2> QED BY <2>1, <2>2
<1>g. IF pc[r] = "read" THEN data' = [data EXCEPT ![r] = @ \o block[r].bytes]
                        ELSE data' = data
  BY DEF NextBlock
<1>1. TypeOK'
  <2>1. data' \in [Readers -> Seq(Nat)]
    <3>1. data \in [Readers -> Seq(Nat)]
      BY DEF StreamInv, TypeOK
    <3>2. data[r] \o block[r].bytes \in Seq(Nat)
      BY <3>1, <1>b, ConcatProperties
    <3> QED BY <3>1, <3>2, <1>g
  <2>2. count' \in [Readers -> Nat] /\ offset' \in Nat
    BY <1>b, <1>d DEF StreamInv, TypeOK
  <2>3. block' \in [Readers -> {NoBlock} \cup Block]
    BY <1>d DEF StreamInv, TypeOK
  <2> QED BY <2>1, <2>2, <2>3, <1>d, <1>f DEF StreamInv, TypeOK
<1>2. BodyFits' /\ OffsetFits'
  BY <1>b, <1>d, <1>e DEF StreamInv, BodyFits, OffsetFits, Unaccounted
<1>3. PlaceFits(r)'
  <2>1. CASE pc[r] = "read"
    <3> DEFINE d == Len(data[r])
    <3>1. /\ data[r] \in Seq(Nat) /\ d \in Nat /\ req[r].off \in Nat /\ req[r].size \in Nat
          /\ data[r] = Slice(req[r].off, d)
      BY <2>1 DEF StreamInv, TypeOK, PlaceFits
    <3>2. /\ offset = req[r].off + d /\ d + count[r] = req[r].size
          /\ req[r].size > 0 /\ fileSize # 0
      BY <2>1 DEF StreamInv, PlaceFits
    <3>3. data'[r] = data[r] \o block[r].bytes
      BY <2>1, <1>g DEF StreamInv, TypeOK
    <3> HIDE DEF d
    <3>4. data'[r] = Slice(req[r].off, d + g) /\ Len(data'[r]) = d + g
      <4>1. block[r].bytes = Slice(req[r].off + d, g)
        BY <1>b, <3>2
      <4>2. req[r].off \in Nat /\ d \in Nat /\ g \in Nat /\ data[r] = Slice(req[r].off, d)
        BY <3>1, <1>b
      <4>3. /\ data[r] \o block[r].bytes = Slice(req[r].off, d + g)
            /\ Len(data[r] \o block[r].bytes) = d + g
        <5>1. data[r] \o block[r].bytes = Slice(req[r].off, d) \o Slice(req[r].off + d, g)
          BY <4>1, <4>2
        <5>2. /\ Slice(req[r].off, d) \o Slice(req[r].off + d, g) = Slice(req[r].off, d + g)
              /\ Len(Slice(req[r].off, d + g)) = d + g
          BY <4>2, SliceGrows
        <5> QED BY <5>1, <5>2
      <4> QED BY <4>3, <3>3
    <3>5. pc'[r] = "read" /\ req' = req /\ fileSize' # 0 /\ connected'
      BY <2>1, <3>2, <1>b, <1>d
    <3>7. /\ offset' = req[r].off + (d + g) /\ (d + g) + count'[r] = req[r].size
          /\ count'[r] > 0
      <4>1. d \in Nat /\ req[r].off \in Nat /\ req[r].size \in Nat
        BY <3>1
      <4>2. offset' = offset + g /\ count'[r] = count[r] - g /\ g < count[r]
            /\ g \in Nat /\ count[r] \in Nat
        BY <1>b, <1>d, <1>e
      <4> QED BY <4>1, <4>2, <3>2
    <3>6. d + g > 0 => offset' <= ContentSize
      BY <2>1, <3>1, <3>2, <1>b, <1>c, <1>d DEF StreamInv, PlaceFits, d
    <3> QED BY <3>2, <3>4, <3>5, <3>6, <3>7 DEF PlaceFits, InBody
  <2>2. CASE pc[r] # "read"
    <3>1. pc[r] \in {"skip", "discard"}
      BY <2>2, <1>a
    <3>2. /\ req[r].off \in Nat /\ offset + count[r] = req[r].off
          /\ req[r].size > 0 /\ fileSize # 0 /\ data[r] = <<>>
      BY <3>1 DEF StreamInv, TypeOK, PlaceFits
    <3>3. data' = data
      BY <2>2, <1>g
    <3>4. /\ pc'[r] \in {"skip", "discard"} /\ req' = req /\ fileSize' = fileSize
          /\ connected' /\ count'[r] > 0 /\ offset' + count'[r] = req[r].off
      BY <3>1, <3>2, <1>b, <1>d, <1>e
    <3> QED BY <3>2, <3>3, <3>4 DEF PlaceFits, InBody
  <2> QED BY <2>1, <2>2
<1>4. BlockFits(r)'
  BY <1>e DEF BlockFits
<1>5. (ReadsReturnTheFile /\ ReadsAreComplete /\ EmptyOnlyAtTheEnd /\ ErrorsHaveACause)'
  BY <1>d DEF StreamInv, ReadsReturnTheFile, ReadsAreComplete, EmptyOnlyAtTheEnd,
       ErrorsHaveACause
<1> QED BY <1>1, <1>2, <1>3, <1>4, <1>5, <1>f DEF StreamInv

LEMMA BodySkippedKeeps ==
  ASSUME OneReader, StreamInv, NEW r \in Readers, BodySkipped(r)
  PROVE  StreamInv'
<1>a. /\ InBody(r) /\ block[r] # NoBlock /\ pc[r] \in {"skip", "discard"}
      /\ Got(r) = count[r]
  BY DEF BodySkipped, Ends, InBody
<1> Readers = {r}
  BY DEF OneReader
<1>b. /\ offset \in Nat /\ count[r] \in Nat /\ count[r] > 0 /\ offset + count[r] \in Nat
      /\ connected /\ bbody # NoBody /\ bbody.at = offset + count[r]
      /\ req[r].off \in Nat /\ req[r].size \in Nat /\ offset + count[r] = req[r].off
  BY <1>a, BlockInHand DEF StreamInv, TypeOK, PlaceFits
<1>c. req[r].size > 0 /\ fileSize # 0 /\ data[r] = <<>>
  BY <1>a DEF StreamInv, PlaceFits
<1>d. /\ offset' = req[r].off /\ block' = [block EXCEPT ![r] = NoBlock]
      /\ UNCHANGED <<fileSize, lruEnabled, connected, bbody, lruCache, req, data, answer, faults>>
  BY <1>a, <1>b DEF BodySkipped, Advance, settings
<1>e. block'[r] = NoBlock
  BY <1>d DEF StreamInv, TypeOK
<1>f. \/ pc[r] = "skip" /\ Goto(r, "connect", 0)
      \/ pc[r] = "discard" /\ Goto(r, "read", req[r].size)
  BY <1>a DEF BodySkipped
<1>g. \/ pc'[r] = "connect"
      \/ pc'[r] = "read" /\ count'[r] = req[r].size
  BY <1>f DEF StreamInv, TypeOK, Goto
<1>h. bbody.at <= bbody.end
  BY <1>b DEF StreamInv, TypeOK
<1>1. TypeOK'
  BY <1>b, <1>d, <1>f DEF StreamInv, TypeOK, Goto
<1>2. BodyFits' /\ OffsetFits'
  <2>1. bbody.end # 0
    BY <1>b, <1>h DEF StreamInv, TypeOK, Body
  <2> QED BY <2>1, <1>b, <1>d, <1>e DEF StreamInv, BodyFits, OffsetFits,
       Unaccounted
<1>3. PlaceFits(r)' /\ BlockFits(r)'
  <2>1. data'[r] = Slice(req'[r].off, 0) /\ Len(data'[r]) = 0
    BY <1>b, <1>c, <1>d, EmptySlice
  <2>2. CASE pc'[r] = "connect"
    BY <2>2, <1>b, <1>c, <1>d, <1>e DEF PlaceFits, BlockFits, InBody
  <2>3. CASE pc'[r] = "read" /\ count'[r] = req[r].size
    <3>1. req'[r] = req[r] /\ fileSize' # 0 /\ connected' /\ offset' = req'[r].off + Len(data'[r])
      BY <2>1, <1>b, <1>c, <1>d
    <3>2. count'[r] > 0 /\ Len(data'[r]) + count'[r] = req'[r].size
      BY <2>1, <2>3, <1>b, <1>c, <1>d
    <3> QED BY <2>1, <2>3, <3>1, <3>2, <1>e DEF PlaceFits, BlockFits, InBody
  <2> QED BY <2>2, <2>3, <1>g
<1>4. CacheFits' /\ CacheHoldsTheFile'
  BY <1>d DEF StreamInv, CacheFits, CacheHoldsTheFile
<1>5. (ReadsReturnTheFile /\ ReadsAreComplete /\ EmptyOnlyAtTheEnd /\ ErrorsHaveACause)'
  BY <1>d, <1>g DEF ReadsReturnTheFile, ReadsAreComplete, EmptyOnlyAtTheEnd,
       ErrorsHaveACause
<1> QED BY <1>1, <1>2, <1>3, <1>4, <1>5 DEF StreamInv

LEMMA SkipFailsKeeps ==
  ASSUME OneReader, StreamInv, NEW r \in Readers, SkipFails(r)
  PROVE  StreamInv'
<1>a. /\ InBody(r) /\ block[r] # NoBlock /\ pc[r] \in {"skip", "discard"}
      /\ block[r].err \in {"EOF", "failed"}
  <2>1. InBody(r) /\ block[r] # NoBlock /\ pc[r] \in {"skip", "discard"} /\ block[r].err # "nil"
    BY DEF SkipFails, Ends, InBody
  <2> QED BY <2>1, BlockInHand DEF Errors
<1> Readers = {r}
  BY DEF OneReader
<1>b. /\ connected' = FALSE /\ offset' = 0 /\ bbody' = NoBody
      /\ block' = [block EXCEPT ![r] = NoBlock]
      /\ UNCHANGED <<fileSize, lruEnabled, lruCache, req, data, faults>>
  BY DEF SkipFails, ResetHandle, settings
<1>c. block'[r] = NoBlock
  BY <1>b DEF StreamInv, TypeOK
<1>d. \/ Goto(r, "connect", 0) /\ UNCHANGED answer
      \/ Answer(r, "error", <<>>)
  BY DEF SkipFails
<1>e. req[r].size > 0 /\ fileSize # 0 /\ data[r] = <<>>
  BY <1>a DEF StreamInv, PlaceFits
<1>f. req[r].off < ContentSize => faults > 0
  <2>1. CASE block[r].err = "failed"
    BY <2>1, <1>a DEF StreamInv, BlockFits
  <2>2. CASE block[r].err = "EOF"
    <3>1. offset >= ContentSize \/ req[r].off >= ContentSize
      BY <2>2, <1>a DEF StreamInv, BlockFits
    <3>2. req[r].off \in Nat /\ offset \in Nat /\ count[r] \in Nat /\ offset + count[r] = req[r].off
      BY <1>a DEF StreamInv, TypeOK, PlaceFits
    <3> QED BY <3>1, <3>2
  <2> QED BY <2>1, <2>2, <1>a
<1>1. TypeOK'
  <2>1. CASE Goto(r, "connect", 0) /\ UNCHANGED answer
    BY <2>1, <1>b DEF StreamInv, TypeOK, Goto
  <2>2. CASE Answer(r, "error", <<>>)
    <3>1. /\ pc' \in [Readers -> {"idle", "seek", "connect", "dialing", "skip", "discard", "read"}]
          /\ count' \in [Readers -> Nat]
          /\ answer' \in [Readers -> [kind : {"none", "ok", "error"}, bytes : Seq(Nat)]]
      BY <2>2 DEF StreamInv, TypeOK, Answer, Goto
    <3> QED BY <3>1, <1>b DEF StreamInv, TypeOK
  <2> QED BY <2>1, <2>2, <1>d
<1>2. BodyFits' /\ OffsetFits'
  BY <1>b DEF BodyFits, OffsetFits
<1>g. pc'[r] \in {"connect", "idle"}
  BY <1>d DEF StreamInv, TypeOK, Answer, Goto
<1>3. PlaceFits(r)' /\ BlockFits(r)'
  BY <1>b, <1>c, <1>e, <1>g DEF PlaceFits, BlockFits, InBody
<1>4. CacheFits' /\ CacheHoldsTheFile'
  BY <1>b DEF StreamInv, CacheFits, CacheHoldsTheFile
<1>5. (ReadsReturnTheFile /\ ReadsAreComplete /\ EmptyOnlyAtTheEnd /\ ErrorsHaveACause)'
  <2>1. CASE Goto(r, "connect", 0)
    BY <2>1 DEF StreamInv, TypeOK, Goto, ReadsReturnTheFile, ReadsAreComplete,
         EmptyOnlyAtTheEnd, ErrorsHaveACause
  <2>2. CASE Answer(r, "error", <<>>)
    BY <2>2, <1>b, <1>f DEF StreamInv, TypeOK, Answer, ReadsReturnTheFile,
         ReadsAreComplete, EmptyOnlyAtTheEnd, ErrorsHaveACause
  <2> QED BY <2>1, <2>2, <1>d
<1> QED BY <1>1, <1>2, <1>3, <1>4, <1>5 DEF StreamInv

LEMMA FinishReadKeeps ==
  ASSUME OneReader, StreamInv, NEW r \in Readers, FinishRead(r)
  PROVE  StreamInv'
<1>a. InBody(r) /\ block[r] # NoBlock /\ pc[r] = "read"
  BY DEF FinishRead, Ends, InBody
<1> Readers = {r}
  BY DEF OneReader
<1> DEFINE g == Got(r)
           d == Len(data[r])
           err == block[r].err
           off == req[r].off
           got == d + g
<1>b. /\ g \in Nat /\ offset \in Nat /\ count[r] \in Nat /\ g <= count[r]
      /\ block[r].bytes = Slice(offset, g) /\ block[r].bytes \in Seq(Nat)
      /\ connected /\ bbody # NoBody /\ bbody.at = offset + g
      /\ err \in {"nil", "EOF", "failed"}
  BY <1>a, BlockInHand DEF Errors
<1>c. /\ g > 0 => offset + g <= ContentSize
      /\ err = "failed" => faults > 0
      /\ err = "EOF" => g = 0 /\ offset >= ContentSize
      /\ err = "nil" => g = count[r]
  BY <1>a DEF StreamInv, BlockFits, FinishRead, Ends
<1>d. /\ data[r] \in Seq(Nat) /\ d \in Nat /\ off \in Nat /\ req[r].size \in Nat
      /\ data[r] = Slice(off, d)
  BY <1>a DEF StreamInv, TypeOK, PlaceFits
<1>e. /\ offset = off + d /\ d + count[r] = req[r].size /\ count[r] > 0
      /\ req[r].size > 0 /\ fileSize = ContentSize
      /\ d > 0 => offset <= ContentSize
  BY <1>a DEF StreamInv, TypeOK, PlaceFits
<1>f. data' = [data EXCEPT ![r] = data[r] \o block[r].bytes]
  BY DEF FinishRead
<1>g. data'[r] = data[r] \o block[r].bytes
  BY <1>f DEF StreamInv, TypeOK
<1> HIDE DEF g, d
<1>h. /\ data'[r] = Slice(off, got) /\ Len(data'[r]) = got /\ got \in Nat
      /\ data'[r] \in Seq(Nat)
  <2>1. block[r].bytes = Slice(off + d, g)
    BY <1>b, <1>e
  <2>2. data[r] \o block[r].bytes = Slice(off, d) \o Slice(off + d, g)
    BY <2>1, <1>d
  <2>3. got \in Nat /\ Slice(off, d) \o Slice(off + d, g) = Slice(off, got) /\ Len(Slice(off, got)) = got
    <3>1. off \in Nat /\ d \in Nat /\ g \in Nat
      BY <1>b, <1>d
    <3>2. got \in Nat
      BY <3>1
    <3>3. /\ Slice(off, d) \o Slice(off + d, g) = Slice(off, d + g)
          /\ Len(Slice(off, d + g)) = d + g
      <4> HIDE DEF off
      <4> QED BY <3>1, SliceGrows
    <3> QED BY <3>2, <3>3
  <2>4. Slice(off, got) \in Seq(Nat)
    BY <2>3, <1>d, SliceFacts
  <2> QED BY <2>2, <2>3, <2>4, <1>g
<1>i. /\ offset' = offset + g /\ block' = [block EXCEPT ![r] = NoBlock]
      /\ UNCHANGED <<fileSize, lruEnabled, connected, bbody, req, faults>>
  BY DEF FinishRead, Advance, settings, g
<1>j. block'[r] = NoBlock
  BY <1>i DEF StreamInv, TypeOK
<1>k. /\ CacheFits' /\ CacheHoldsTheFile'
      /\ \A e \in lruCache' : e.at \in Nat /\ e.bytes \in Seq(Nat)
  BY <1>a, <1>i, CacheBlockKeeps DEF FinishRead
<1>l. \/ /\ Answer(r, "ok", data'[r])
         /\ err = "nil" \/ (err = "EOF" /\ ContentSize = off + got)
      \/ /\ Answer(r, "error", <<>>)
         /\ err = "failed" \/ (err = "EOF" /\ ContentSize # off + got)
  BY <1>b, <1>e, <1>h DEF FinishRead, FinalError
<1> HIDE DEF err, off, got
<1>m. pc'[r] = "idle"
  BY <1>l DEF StreamInv, TypeOK, Answer, Goto
<1>1. TypeOK'
  <2>1. data' \in [Readers -> Seq(Nat)]
    BY <1>f, <1>g, <1>h DEF StreamInv, TypeOK
  <2>2. offset' \in Nat
    BY <1>b, <1>i
  <2>3. block' \in [Readers -> {NoBlock} \cup Block]
    BY <1>i DEF StreamInv, TypeOK
  <2>4. /\ pc' \in [Readers -> {"idle", "seek", "connect", "dialing", "skip", "discard", "read"}]
        /\ count' \in [Readers -> Nat]
        /\ answer' \in [Readers -> [kind : {"none", "ok", "error"}, bytes : Seq(Nat)]]
    <3>1. CASE Answer(r, "ok", data'[r])
      BY <3>1, <1>h DEF StreamInv, TypeOK, Answer, Goto
    <3>2. CASE Answer(r, "error", <<>>)
      BY <3>2 DEF StreamInv, TypeOK, Answer, Goto
    <3> QED BY <3>1, <3>2, <1>l
  <2> QED BY <2>1, <2>2, <2>3, <2>4, <1>i, <1>k DEF StreamInv, TypeOK
<1>2. OffsetFits'
  BY <1>b, <1>i, <1>j DEF OffsetFits, Unaccounted
<1>3. BodyFits'
  BY <1>a, <1>i DEF StreamInv, BodyFits
<1>4. PlaceFits(r)' /\ BlockFits(r)'
  BY <1>j, <1>m DEF PlaceFits, BlockFits, InBody
<1>5. ReadsReturnTheFile' /\ ReadsAreComplete' /\ EmptyOnlyAtTheEnd' /\ ErrorsHaveACause'
  <2>1. CASE Answer(r, "ok", data'[r])
    <3>1. answer'[r].kind = "ok" /\ answer'[r].bytes = data'[r]
      BY <2>1 DEF StreamInv, TypeOK, Answer
    <3>2. Len(answer'[r].bytes) = got /\ answer'[r].bytes = Slice(off, got) /\ req'[r].off = off
      BY <3>1, <1>h, <1>i DEF off
    <3>3. err = "nil" \/ (err = "EOF" /\ ContentSize = off + got)
      BY <2>1, <1>l, <3>1 DEF StreamInv, TypeOK, Answer
    <3>4. \/ got = req[r].size /\ off + got <= ContentSize
          \/ got <= req[r].size /\ off + got = ContentSize
      BY <3>3, <1>b, <1>c, <1>d, <1>e DEF got
    <3>5. ReadsReturnTheFile'
      BY <3>2 DEF ReadsReturnTheFile
    <3>6. ReadsAreComplete'
      BY <3>2, <3>4, <1>d, <1>h, <1>i DEF ReadsAreComplete, Least
    <3>7. EmptyOnlyAtTheEnd'
      <4>1. answer'[r].bytes = <<>> => got = 0
        BY <3>2
      <4> QED BY <4>1, <3>2, <3>4, <1>d, <1>e DEF EmptyOnlyAtTheEnd
    <3> QED BY <3>1, <3>5, <3>6, <3>7 DEF ErrorsHaveACause
  <2>2. CASE Answer(r, "error", <<>>)
    <3>1. answer'[r].kind = "error"
      BY <2>2 DEF StreamInv, TypeOK, Answer
    <3>2. err = "failed" \/ (err = "EOF" /\ ContentSize # off + got)
      BY <2>2, <1>l, <3>1 DEF StreamInv, TypeOK, Answer
    <3>3. off < ContentSize => faults > 0
      BY <3>2, <1>b, <1>c, <1>d, <1>e DEF got
    <3> QED BY <3>1, <3>3, <1>i DEF ReadsReturnTheFile, ReadsAreComplete,
         EmptyOnlyAtTheEnd, ErrorsHaveACause, off
  <2> QED BY <2>1, <2>2, <1>l
<1> QED BY <1>1, <1>2, <1>3, <1>4, <1>5, <1>k DEF StreamInv

-----------------------------------------------------------------------------
LEMMA InitStreamInv == Init => StreamInv
<1> SUFFICES ASSUME Init PROVE StreamInv
  OBVIOUS
<1>1. TypeOK
  <2>1. /\ req \in [Readers -> [off : Nat, size : Nat]]
        /\ answer \in [Readers -> [kind : {"none", "ok", "error"}, bytes : Seq(Nat)]]
        /\ data \in [Readers -> Seq(Nat)]
    BY DEF Init
  <2>2. /\ pc \in [Readers -> {"idle", "seek", "connect", "dialing", "skip", "discard", "read"}]
        /\ count \in [Readers -> Nat]
        /\ block \in [Readers -> {NoBlock} \cup Block]
    BY DEF Init
  <2>3. /\ fileSize \in {0, ContentSize} /\ lruEnabled \in BOOLEAN /\ connected \in BOOLEAN
        /\ offset = 0 /\ bbody = NoBody /\ lruCache = {} /\ faults = 0
    <3>1. fileSize \in {0, ContentSize} /\ lruEnabled \in BOOLEAN
      BY DEF Init
    <3> QED BY <3>1 DEF Init
  <2> QED BY <2>1, <2>2, <2>3 DEF TypeOK
<1>2. BodyFits /\ OffsetFits /\ CacheFits /\ CacheHoldsTheFile
  BY DEF Init, BodyFits, OffsetFits, CacheFits, CacheHoldsTheFile
<1>3. \A r \in Readers : PlaceFits(r) /\ BlockFits(r)
  BY DEF Init, PlaceFits, BlockFits, InBody
<1>4. ReadsReturnTheFile /\ ReadsAreComplete /\ EmptyOnlyAtTheEnd /\ ErrorsHaveACause
  BY DEF Init, ReadsReturnTheFile, ReadsAreComplete, EmptyOnlyAtTheEnd, ErrorsHaveACause
<1> QED BY <1>1, <1>2, <1>3, <1>4 DEF StreamInv

LEMMA StutterStreamInv ==
  ASSUME StreamInv, UNCHANGED vars
  PROVE  StreamInv'
<1> /\ UNCHANGED <<fileSize, lruEnabled, connected, offset, bbody, lruCache, faults>>
    /\ UNCHANGED <<pc, req, count, block, data, answer>>
  BY DEF vars, settings, handle, request
<1>1. TypeOK' /\ BodyFits' /\ OffsetFits'
  BY DEF StreamInv, TypeOK, BodyFits, OffsetFits, Unaccounted, Got
<1>2. \A r \in Readers : PlaceFits(r)' /\ BlockFits(r)'
  BY DEF StreamInv, PlaceFits, BlockFits, InBody, Got
<1>3. CacheFits' /\ CacheHoldsTheFile'
  BY DEF StreamInv, CacheFits, CacheHoldsTheFile
<1>4. (ReadsReturnTheFile /\ ReadsAreComplete /\ EmptyOnlyAtTheEnd /\ ErrorsHaveACause)'
  BY DEF StreamInv, ReadsReturnTheFile, ReadsAreComplete, EmptyOnlyAtTheEnd,
       ErrorsHaveACause
<1> QED BY <1>1, <1>2, <1>3, <1>4 DEF StreamInv

LEMMA NextStreamInv ==
  ASSUME OneReader, StreamInv, [Next]_vars
  PROVE  StreamInv'
<1>1. ASSUME NEW r \in Readers, NEW off \in Offsets, NEW size \in Sizes, Read(r, off, size)
      PROVE  StreamInv'
  BY <1>1, StartReadKeeps, ReadEmptyFileKeeps, ReadCachedKeeps DEF Read
<1>2. ASSUME NEW r \in Readers, Serve(r)
      PROVE  StreamInv'
  <2>1. CASE Seek(r)
    BY <2>1, SeekNowhereKeeps, SeekForwardKeeps, SeekAwayKeeps DEF Seek
  <2>2. CASE Connect(r)
    BY <2>2, UseConnectionKeeps, DialKeeps, DialFailsKeeps, DialPartialKeeps, DialPlainKeeps
       DEF Connect
  <2>3. CASE ReadBody(r)
    BY <2>3, FetchKeeps, FetchNeverPanics, NextBlockKeeps, BodySkippedKeeps, SkipFailsKeeps,
       FinishReadKeeps DEF ReadBody
  <2> QED BY <1>2, <2>1, <2>2, <2>3 DEF Serve
<1>3. ASSUME NEW r \in Readers, Release(r)
      PROVE  StreamInv'
  BY <1>3, ReleaseKeeps
<1>4. CASE ConnectionDies
  BY <1>4, ConnectionDiesKeeps
<1>5. CASE UNCHANGED vars
  BY <1>5, StutterStreamInv
<1> QED BY <1>1, <1>2, <1>3, <1>4, <1>5 DEF Next

LEMMA StreamInvariant ==
  ASSUME OneReader
  PROVE  Spec => []StreamInv
<1>1. StreamInv /\ [Next]_vars => StreamInv'
  BY NextStreamInv
<1> QED BY <1>1, InitStreamInv, PTL DEF Spec

\* With one request the bytes in transit are those of its block.
LEMMA TransitIsCounted ==
  ASSUME OneReader, StreamInv
  PROVE  OffsetIsStreamPos
<1>1. PICK r : Readers = {r}
  BY DEF OneReader
<1>2. Unaccounted(r) \in Nat
  <2>1. block[r] = NoBlock \/ block[r].bytes \in Seq(Nat)
    BY <1>1 DEF StreamInv, TypeOK, Block
  <2> QED BY <2>1, LenProperties DEF Unaccounted, Got
<1>3. InTransit = {r} \X (1 .. Unaccounted(r))
  BY <1>1 DEF InTransit
<1>4. Cardinality({r} \X (1 .. Unaccounted(r))) = Unaccounted(r)
  <2>1. IsFiniteSet({r}) /\ Cardinality({r}) = 1
    BY FS_Singleton
  <2>2. /\ IsFiniteSet(1 .. Unaccounted(r))
        /\ Cardinality(1 .. Unaccounted(r)) = Unaccounted(r)
    BY <1>2, FS_Interval
  <2>3. /\ Cardinality({r} \X (1 .. Unaccounted(r)))
             = Cardinality({r}) * Cardinality(1 .. Unaccounted(r))
    BY <2>1, <2>2, FS_Product
  <2> QED BY <1>2, <2>1, <2>2, <2>3
<1> QED BY <1>1, <1>3, <1>4 DEF StreamInv, OffsetFits, OffsetIsStreamPos

\* The file, its connection and every request in progress are well typed.
THEOREM FileTypeCorrect ==
  ASSUME OneReader
  PROVE  Spec => []TypeOK
<1>1. StreamInv => TypeOK
  BY DEF StreamInv
<1> QED BY <1>1, StreamInvariant, PTL

\* file.offset is the position of the connection whenever there is one, through
\* every seek, fast-forward, discard, short answer and failure of Read.
THEOREM OffsetFollowsTheStream ==
  ASSUME OneReader
  PROVE  Spec => []OffsetIsStreamPos
<1>1. StreamInv => OffsetIsStreamPos
  BY TransitIsCounted
<1> QED BY <1>1, StreamInvariant, PTL

\* A successful Read returns the bytes of the file at its offset, from the stream
\* and from the cache.
THEOREM ReadsAreTrue ==
  ASSUME OneReader
  PROVE  Spec => []ReadsReturnTheFile
<1>1. StreamInv => ReadsReturnTheFile
  BY DEF StreamInv
<1> QED BY <1>1, StreamInvariant, PTL

\* What Read adds to the cache are, under every key it ever used, the bytes of the
\* file from the offset of the key on, never those of another place.
THEOREM CachedBlocksAreTrue ==
  ASSUME OneReader
  PROVE  Spec => []CacheHoldsTheFile
<1>1. StreamInv => CacheHoldsTheFile
  BY DEF StreamInv
<1> QED BY <1>1, StreamInvariant, PTL

\* Without the cache a successful Read is as long as the file allows.
THEOREM ReadsAreWhole ==
  ASSUME OneReader
  PROVE  Spec => []ReadsAreComplete
<1>1. StreamInv => ReadsAreComplete
  BY DEF StreamInv
<1> QED BY <1>1, StreamInvariant, PTL

\* With the cache a successful Read may be short, but an empty one still means the
\* end of the file to the kernel.
THEOREM EmptyReadsEndTheFile ==
  ASSUME OneReader
  PROVE  Spec => []EmptyOnlyAtTheEnd
<1>1. StreamInv => EmptyOnlyAtTheEnd
  BY DEF StreamInv
<1> QED BY <1>1, StreamInvariant, PTL

\* Inside the file Read does not fail while the network and the server are well.
THEOREM ErrorsAreForeign ==
  ASSUME OneReader
  PROVE  Spec => []ErrorsHaveACause
<1>1. StreamInv => ErrorsHaveACause
  BY DEF StreamInv
<1> QED BY <1>1, StreamInvariant, PTL

=============================================================================
