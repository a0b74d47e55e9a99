------------------------------ MODULE HgmFile ------------------------------
(***************************************************************************)
(* The read path of one HgmFile of src/src/hgmfs/hgmfs.go: Read, readBody, *)
(* resetHandle and Release.  Lookup makes one HgmFile for a file and Open  *)
(* returns it to every program that opens the file, so all of them share   *)
(* one HTTP connection and one offset.  The FUSE server runs each request  *)
(* in a goroutine of its own; Readers are the requests that can be in      *)
(* progress at a time, and one element gives the program of a single       *)
(* reader.                                                                 *)
(*                                                                         *)
(* A byte of the file is named by its position, so what a read returns can *)
(* be compared with what it asked for.  The server and the network are     *)
(* modelled from how Read uses net/http.                                   *)
(***************************************************************************)
EXTENDS Naturals, Sequences, FiniteSets

CONSTANTS
  Readers,
  ContentSize,  \* bytes the server has
  Offsets,      \* offsets programs read at
  Sizes,        \* sizes programs ask for
  BlockSize,    \* lruBlockSize
  MaxFwdBytes,  \* maxFwdBytes
  LruSettings,  \* values lruEnabled may have
  MaxFaults,    \* bound: network and server faults in a behaviour
  NoBody,       \* nil for resp and bbody
  NoBlock       \* no block fetched

ASSUME SizesAssumption ==
  /\ ContentSize \in Nat \ {0}
  /\ Offsets \subseteq Nat
  /\ Sizes \subseteq Nat \ {0}
  /\ BlockSize \in Nat \ {0}
  /\ MaxFwdBytes \in Nat
  /\ MaxFaults \in Nat
  /\ LruSettings \subseteq BOOLEAN

Errors == {"nil", "EOF", "failed"}
Body == [at : Nat, end : Nat, last : {"EOF", "failed"}]
Block == [bytes : Seq(Nat), err : Errors]

ASSUME NilAssumption == NoBody \notin Body /\ NoBlock \notin Block

VARIABLES
  fileSize,   \* HgmFile.fileSize, set by Lookup
  lruEnabled, \* lruEnabled, a setting of the whole process
  connected,  \* HgmFile.connected
  offset,     \* HgmFile.offset
  bbody,      \* HgmFile.resp and bbody: next byte, where it stops and how
  lruCache,   \* what lruCache would find, a set of [at, bytes]
  pc,         \* where each request is
  req,        \* its offset and size
  count,      \* readBody's count
  block,      \* byteSink and err, fetched but not yet accounted for
  data,       \* resp.Data
  answer,     \* what the request was last answered
  faults      \* history: faults so far

handle == <<connected, offset, bbody>>
request == <<pc, req, count, block, data, answer>>
settings == <<fileSize, lruEnabled>>
vars == <<settings, handle, lruCache, request, faults>>

-----------------------------------------------------------------------------
(* Helpers *)

Least(a, b) == IF a < b THEN a ELSE b
Greatest(a, b) == IF a > b THEN a ELSE b

\* The n bytes of the file from position `from' on.
Slice(from, n) == [i \in 1 .. n |-> from + i - 1]

\* Goto(r, label, n): request r goes on at `label', with n bytes to read.
Goto(r, label, n) ==
  /\ pc' = [pc EXCEPT ![r] = label]
  /\ count' = [count EXCEPT ![r] = n]

\* Request r is answered.
Answer(r, kind, bytes) ==
  /\ answer' = [answer EXCEPT ![r] = [kind |-> kind, bytes |-> bytes]]
  /\ Goto(r, "idle", 0)

\* resetHandle
ResetHandleConnected ==
  /\ bbody' = NoBody
  /\ offset' = 0
  /\ UNCHANGED connected
ResetHandle ==
  /\ bbody' = NoBody
  /\ connected' = FALSE
  /\ offset' = 0

\* Whether the open connection can be fast-forwarded by n bytes.
MaySkipBackwards(to) == to < offset + MaxFwdBytes
MaySkip(to) == to > offset /\ to < offset + MaxFwdBytes

\* The size a request is served for.
Chopped(size) == IF lruEnabled THEN Least(size, BlockSize) ELSE size

\* What one round of readBody gets when it wants n bytes: bufio hands out what
\* it has before it reports an error, and an EOF after some bytes is hidden.
FetchedHidingAllEofs(n) ==
  LET got == Least(n, bbody.end - bbody.at) IN
  [bytes |-> Slice(bbody.at, got),
   err |-> IF got = n \/ bbody.last = "EOF" THEN "nil" ELSE bbody.last]
Fetched(n) ==
  LET got == Least(n, bbody.end - bbody.at) IN
  [bytes |-> Slice(bbody.at, got),
   err |-> IF got = n \/ (got > 0 /\ bbody.last = "EOF") THEN "nil" ELSE bbody.last]

\* Where the stream of a 200 answer starts.
PlainStartAtRequest(off) == off
PlainStart(off) == 0

\* The error Read returns: the end of the file is none.
FinalErrorIgnored(err, off, got) == IF err = "EOF" THEN "nil" ELSE err
FinalErrorKept(err, off, got) == err
FinalError(err, off, got) ==
  IF err = "EOF" /\ fileSize = off + got THEN "nil" ELSE err

-----------------------------------------------------------------------------
Init ==
  /\ fileSize \in {0, ContentSize}
  /\ lruEnabled \in LruSettings
  /\ connected = FALSE
  /\ offset = 0
  /\ bbody = NoBody
  /\ lruCache = {}
  /\ pc = [r \in Readers |-> "idle"]
  /\ req = [r \in Readers |-> [off |-> 0, size |-> 0]]
  /\ count = [r \in Readers |-> 0]
  /\ block = [r \in Readers |-> NoBlock]
  /\ data = [r \in Readers |-> <<>>]
  /\ answer = [r \in Readers |-> [kind |-> "none", bytes |-> <<>>]]
  /\ faults = 0

(* Read, up to the point where it reads the body *)

\* A request for bytes that the cache does not have.
CacheMiss(off) == \A e \in lruCache : e.at # off

StartRead(r, off, size) ==
  /\ pc[r] = "idle" /\ fileSize # 0
  /\ CacheMiss(off)
  /\ req' = [req EXCEPT ![r] = [off |-> off, size |-> Chopped(size)]]
  /\ data' = [data EXCEPT ![r] = <<>>]
  /\ Goto(r, "seek", 0)
  /\ UNCHANGED <<settings, handle, lruCache, block, answer, faults>>

\* A pseudo-empty file is answered at once.
ReadEmptyFile(r, off, size) ==
  /\ pc[r] = "idle" /\ fileSize = 0
  /\ req' = [req EXCEPT ![r] = [off |-> off, size |-> size]]
  /\ Answer(r, "ok", <<>>)
  /\ UNCHANGED <<settings, handle, lruCache, block, data, faults>>

\* So is a request whose block is cached, chopped to what was asked for.
ReadCached(r, off, size) ==
  /\ pc[r] = "idle" /\ fileSize # 0
  /\ req' = [req EXCEPT ![r] = [off |-> off, size |-> Chopped(size)]]
  /\ \E e \in lruCache :
       /\ e.at = off
       /\ Answer(r, "ok", SubSeq(e.bytes, 1, Least(Len(e.bytes), Chopped(size))))
  /\ UNCHANGED <<settings, handle, lruCache, block, data, faults>>

\* The connection is where the request wants it, or there is none.
SeekNowhere(r) ==
  /\ pc[r] = "seek"
  /\ req[r].off = offset \/ ~ connected
  /\ Goto(r, "connect", 0)
  /\ UNCHANGED <<settings, handle, lruCache, req, block, data, answer, faults>>

SeekForward(r) ==
  /\ pc[r] = "seek" /\ connected
  /\ MaySkip(req[r].off)
  /\ Goto(r, "skip", req[r].off - offset)
  /\ UNCHANGED <<settings, handle, lruCache, req, block, data, answer, faults>>

SeekAway(r) ==
  /\ pc[r] = "seek" /\ connected
  /\ req[r].off # offset /\ ~ MaySkip(req[r].off)
  /\ ResetHandle
  /\ Goto(r, "connect", 0)
  /\ UNCHANGED <<settings, lruCache, req, block, data, answer, faults>>

UseConnection(r) ==
  /\ pc[r] = "connect" /\ connected
  /\ Goto(r, "read", req[r].size)
  /\ UNCHANGED <<settings, handle, lruCache, req, block, data, answer, faults>>

Dial(r) ==
  /\ pc[r] = "connect" /\ ~ connected
  /\ Goto(r, "dialing", 0)
  /\ UNCHANGED <<settings, handle, lruCache, req, block, data, answer, faults>>

\* httpClient.Do fails, or the answer is neither 200 nor 206.
DialFails(r) ==
  /\ pc[r] = "dialing" /\ faults < MaxFaults
  /\ faults' = faults + 1
  /\ Answer(r, "error", <<>>)
  /\ UNCHANGED handle \/ ResetHandle
  /\ UNCHANGED <<settings, lruCache, req, block, data>>

\* 206: the body starts at the offset asked for.
DialPartial(r) ==
  /\ pc[r] = "dialing"
  /\ connected' = TRUE
  /\ offset' = req[r].off
  /\ bbody' = [at |-> req[r].off, end |-> Greatest(req[r].off, ContentSize), last |-> "EOF"]
  /\ Goto(r, "read", req[r].size)
  /\ UNCHANGED <<settings, lruCache, req, block, data, answer, faults>>

\* 200: the body starts at 0, and Read discards what comes before the offset.
\* Past the end of the file the proxy may answer 200 with an empty body.
DialPlain(r) ==
  /\ pc[r] = "dialing"
  /\ connected' = TRUE
  /\ offset' = PlainStart(req[r].off)
  /\ \E end \in {ContentSize} \cup (IF req[r].off >= ContentSize THEN {0} ELSE {}) :
       bbody' = [at |-> 0, end |-> end, last |-> "EOF"]
  /\ IF req[r].off = 0 THEN Goto(r, "read", req[r].size) ELSE Goto(r, "discard", req[r].off)
  /\ UNCHANGED <<settings, lruCache, req, block, data, answer, faults>>

-----------------------------------------------------------------------------
(* readBody, called to fast-forward, to discard and to read *)

InBody(r) == pc[r] \in {"skip", "discard", "read"}

Fetch(r) ==
  /\ InBody(r) /\ block[r] = NoBlock /\ bbody # NoBody
  /\ LET b == Fetched(Least(count[r], BlockSize)) IN
     /\ block' = [block EXCEPT ![r] = b]
     /\ bbody' = [bbody EXCEPT !.at = @ + Len(b.bytes)]
  /\ UNCHANGED <<settings, connected, offset, lruCache, pc, req, count, data, answer, faults>>

\* Another request's reset has taken the body away: the nil dereference is
\* caught by the FUSE server, which answers the request with an error.
FetchPanics(r) ==
  /\ InBody(r) /\ block[r] = NoBlock /\ bbody = NoBody
  /\ Answer(r, "error", <<>>)
  /\ UNCHANGED <<settings, handle, lruCache, req, block, data, faults>>

Got(r) == Len(block[r].bytes)
Ends(r) == block[r] # NoBlock /\ (block[r].err # "nil" \/ Got(r) = count[r])

\* file.offset and count after a block; the next block is fetched afresh.
Advance(r) ==
  /\ offset' = offset + Got(r)
  /\ block' = [block EXCEPT ![r] = NoBlock]

\* Add of the block to the cache: it keeps an entry it has, and it may give up
\* another one.
CacheBlockOnFailure(r) ==
  IF block[r].bytes = <<>> /\ \A e \in lruCache : e.at # offset
  THEN lruCache' = lruCache \cup {[at |-> offset, bytes |-> <<>>]}
  ELSE UNCHANGED lruCache
CacheBlockAfterAdvance(r) ==
  IF block[r].bytes # <<>>
  THEN lruCache' = lruCache \cup {[at |-> offset + Got(r), bytes |-> block[r].bytes]}
  ELSE UNCHANGED lruCache
CacheBlock(r) ==
  LET b == block[r] IN
  IF /\ lruEnabled
     /\ (b.bytes # <<>> /\ b.err = "nil") \/ (b.bytes = <<>> /\ b.err = "EOF")
     /\ \A e \in lruCache : e.at # offset
  THEN \E victim \in {{}} \cup {{e} : e \in lruCache} :
         lruCache' = (lruCache \ victim) \cup {[at |-> offset, bytes |-> b.bytes]}
  ELSE UNCHANGED lruCache

\* A block that is not the last one.
NextBlock(r) ==
  /\ InBody(r) /\ block[r] # NoBlock /\ ~ Ends(r)
  /\ Advance(r)
  /\ count' = [count EXCEPT ![r] = @ - Got(r)]
  /\ IF pc[r] = "read"
       THEN data' = [data EXCEPT ![r] = @ \o block[r].bytes] /\ CacheBlock(r)
       ELSE UNCHANGED <<data, lruCache>>
  /\ UNCHANGED <<settings, connected, bbody, pc, req, answer, faults>>

\* The end of a fast-forward or of a discard, and its failure: the first makes
\* Read connect again, the second makes it give up.
BodySkipped(r) ==
  /\ pc[r] \in {"skip", "discard"} /\ Ends(r) /\ block[r].err = "nil"
  /\ Advance(r)
  /\ IF pc[r] = "skip" THEN Goto(r, "connect", 0) ELSE Goto(r, "read", req[r].size)
  /\ UNCHANGED <<settings, connected, bbody, lruCache, req, data, answer, faults>>

SkipFails(r) ==
  /\ pc[r] \in {"skip", "discard"} /\ Ends(r) /\ block[r].err # "nil"
  /\ ResetHandle
  /\ block' = [block EXCEPT ![r] = NoBlock]
  /\ IF pc[r] = "skip" THEN Goto(r, "connect", 0) /\ UNCHANGED answer
                       ELSE Answer(r, "error", <<>>)
  /\ UNCHANGED <<settings, lruCache, req, data, faults>>

\* The end of Read: on an error the data goes unused.
FinishRead(r) ==
  /\ pc[r] = "read" /\ Ends(r)
  /\ Advance(r)
  /\ CacheBlock(r)
  /\ data' = [data EXCEPT ![r] = @ \o block[r].bytes]
  /\ IF FinalError(block[r].err, req[r].off, Len(data'[r])) = "nil"
       THEN Answer(r, "ok", data'[r]) ELSE Answer(r, "error", <<>>)
  /\ UNCHANGED <<settings, connected, bbody, req, faults>>

-----------------------------------------------------------------------------
\* A program closes the file.
Release(r) ==
  /\ pc[r] = "idle"
  /\ ResetHandle
  /\ UNCHANGED <<settings, lruCache, request, faults>>

\* The network or the proxy breaks the connection; bytes on their way may still
\* be read.
ConnectionDies ==
  /\ bbody # NoBody /\ bbody.last = "EOF" /\ faults < MaxFaults
  /\ \E end \in bbody.at .. bbody.end :
       bbody' = [at |-> bbody.at, end |-> end, last |-> "failed"]
  /\ faults' = faults + 1
  /\ UNCHANGED <<settings, connected, offset, lruCache, request>>

Read(r, off, size) ==
  StartRead(r, off, size) \/ ReadEmptyFile(r, off, size) \/ ReadCached(r, off, size)

Seek(r) == SeekNowhere(r) \/ SeekForward(r) \/ SeekAway(r)
Connect(r) == UseConnection(r) \/ Dial(r) \/ DialFails(r) \/ DialPartial(r) \/ DialPlain(r)
ReadBody(r) ==
  Fetch(r) \/ FetchPanics(r) \/ NextBlock(r) \/ BodySkipped(r) \/ SkipFails(r) \/ FinishRead(r)

\* A step of the goroutine that serves request r.
Serve(r) == Seek(r) \/ Connect(r) \/ ReadBody(r)

Next ==
  \/ \E r \in Readers, off \in Offsets, size \in Sizes : Read(r, off, size)
  \/ \E r \in Readers : Serve(r)
  \/ \E r \in Readers : Release(r)
  \/ ConnectionDies

Spec == Init /\ [][Next]_vars

\* A goroutine that can go on does, and the peer answers or the timeouts of
\* httpClient fire.
FairSpec == Spec /\ \A r \in Readers : WF_vars(Serve(r))

\* A read that failed inside the file.
Failed(r) == pc[r] = "idle" /\ answer[r].kind = "error" /\ req[r].off < ContentSize

\* A program that repeats such a read, until it succeeds or something else is read.
Retry(r) == Failed(r) /\ Read(r, req[r].off, req[r].size)

PersistentSpec == FairSpec /\ \A r \in Readers : WF_vars(Retry(r))

-----------------------------------------------------------------------------
(* Properties *)

\* Types of the state, as the declarations of hgmfs.go give them.
TypeOK ==
  /\ fileSize \in {0, ContentSize}
  /\ lruEnabled \in BOOLEAN
  /\ connected \in BOOLEAN
  /\ offset \in Nat
  /\ bbody = NoBody \/ (bbody \in Body /\ bbody.at <= bbody.end)
  /\ \A e \in lruCache : e.at \in Nat /\ e.bytes \in Seq(Nat)
  /\ pc \in [Readers -> {"idle", "seek", "connect", "dialing", "skip", "discard", "read"}]
  /\ req \in [Readers -> [off : Nat, size : Nat]]
  /\ count \in [Readers -> Nat]
  /\ block \in [Readers -> {NoBlock} \cup Block]
  /\ data \in [Readers -> Seq(Nat)]
  /\ answer \in [Readers -> [kind : {"none", "ok", "error"}, bytes : Seq(Nat)]]
  /\ faults \in 0 .. MaxFaults

\* Bytes fetched from the body that file.offset does not count yet.
Unaccounted(r) == IF block[r] = NoBlock THEN 0 ELSE Got(r)
InTransit == UNION {{r} \X (1 .. Unaccounted(r)) : r \in Readers}

\* HgmFile.offset is the "Current offset of 'resp'", as its declaration says:
\* the position of the next byte of the body, but for the bytes that requests
\* have fetched and not counted yet.
OffsetIsStreamPos ==
  connected => bbody # NoBody /\ bbody.at = offset + Cardinality(InTransit)

\* What a successful read returns is the file's bytes from the offset asked
\* for: a prefix of them, never bytes of another place, as Read sees to that its
\* connection is not "at the wrong offset".
ReadsReturnTheFile ==
  \A r \in Readers :
    answer[r].kind = "ok" /\ pc[r] = "idle" =>
      answer[r].bytes = Slice(req[r].off, Len(answer[r].bytes))

\* Without the cache a successful read is complete: all that was asked for, or
\* all up to the end of the file.
ReadsAreComplete ==
  \A r \in Readers :
    answer[r].kind = "ok" /\ pc[r] = "idle" /\ fileSize # 0 /\ ~ lruEnabled =>
      /\ req[r].off <= ContentSize
      /\ Len(answer[r].bytes) = Least(req[r].size, ContentSize - req[r].off)

\* Inside the file, a read fails only if the network or the server did.
ErrorsHaveACause ==
  \A r \in Readers :
    answer[r].kind = "error" /\ pc[r] = "idle" /\ req[r].off < ContentSize => faults > 0

\* A program that reads until it gets nothing has seen the whole file: an
\* empty answer inside the file never comes back, from the cache either.
EmptyOnlyAtTheEnd ==
  \A r \in Readers :
    answer[r].kind = "ok" /\ pc[r] = "idle" /\ fileSize # 0 /\ answer[r].bytes = <<>> =>
      req[r].off >= ContentSize

\* Every cached block holds the bytes of its offset.
CacheHoldsTheFile == \A e \in lruCache : e.bytes = Slice(e.at, Len(e.bytes))

\* Every read is answered, whatever the other requests and the network do.
EveryReadReturns == \A r \in Readers : pc[r] # "idle" ~> pc[r] = "idle"

OffsetsInFile == {off \in Offsets : off < ContentSize}

\* The read that failed at offset off has succeeded, or is no longer wanted.
Settled(r, off) == (pc[r] = "idle" /\ answer[r].kind = "ok") \/ req[r].off # off

\* Once the network is well again, repeating the failed read of a handle that
\* was reset or has moved on opens a new connection, and succeeds.
MovedHandlesRecover ==
  \A r \in Readers : \A off \in OffsetsInFile :
    Failed(r) /\ req[r].off = off /\ faults = MaxFaults /\ (~ connected \/ offset # off)
      ~> Settled(r, off)

\* The same for every handle: a killed connection is "closed and reset", as the
\* comment in Read says.
RetriesRecover ==
  \A r \in Readers : \A off \in OffsetsInFile : Failed(r) /\ req[r].off = off ~> Settled(r, off)
=============================================================================
