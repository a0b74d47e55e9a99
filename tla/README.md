# HyperGlobalMegaStore in TLA+

Specifications of the parts of HyperGlobalMegaStore that keep state or have to
survive failures, their TLC configurations, and machine-checked proofs. Paths
are relative to the repository; `ssc.go` is
`src/src/libhgms/ssc/ssc.go`, and so on for the file names that are unique.

## The system

    mkpng.pl  --- images --->  image host  <--- GET ---  proxy (hgmweb)  <--- GET, stat ---  hgmfs (FUSE)
        \--- JSON metadata in ./_aliases --------------------^                                  \-- ssc chunk cache

| part | state it keeps | operations | interacts with |
|---|---|---|---|
| uploader, `mkpng.pl` | the JSON file of each upload; SIGHUP flag | per file: split, encrypt, make PNGs, upload with retries, store metadata | image host, `hgmcmd encrypt`, metadata directory |
| codec, `aestool.go`, `crypt-aes.go`, `pngdec.go` | cipher context, bytes to skip, bytes left; PNG buffers | encrypt/decrypt a stream, read a PNG | proxy and uploader |
| proxy, `proxy.go` | per request only: blob, replicas tried, headers sent, bytes sent | `handleAlias`, `serveFullURI`, `handleStat` | image host (HTTP), metadata directory, clients |
| stat service, `stattool.go` | none | stat and readdir of the metadata directory as JSON, status mapping | proxy, hgmfs |
| FUSE directory, `hgmfs.go` | none | `Attr`, `Lookup`, `ReadDirAll` | stat service |
| FUSE file, `hgmfs.go` | one HTTP connection and its offset, the size seen at lookup | `Read`, `readBody`, `resetHandle`, `Release` | proxy, chunk cache; one goroutine per request |
| chunk cache, `ssc.go` | one file: superblock, metadata table, ring of chunks; in memory the index, the ring pointer, one hasher | `New`, `Add`, `Get`, `Close` | FUSE file; called from several goroutines |
| web front end, `dirlist.go`, `assets.go`; `hgmcmd.go` | none | listings, playlists, assets; dispatch | - |

What is hard in it, and what makes each part correct:

* **Chunk cache.** The process may be killed between any two writes of an
  `Add`; keys are replaced at random when the table is loaded; the ring pointer
  is saved lazily; callers overlap, and share a hasher and a file position.
  Correct means: a lookup returns what was added under that key or nothing, the
  index and the table never diverge (else `replaceMeta` panics), and only the
  oldest entry is given up.
* **FUSE file.** One connection is fast-forwarded, discarded, reset and
  redialled to follow reads at any offset, while it may break at any byte.
  Correct means: the bytes of a read are those of the file at the offset asked
  for, complete unless the file ends, an error has a cause, and a repeated read
  gets through once the network is well. All programs that open a file share
  its connection, without a lock.
* **Proxy.** A response is put together from many downloads, each from any of
  several replicas, and its headers are sent with the first byte. Correct
  means: the client gets the file from its offset on, without gaps, and can
  tell a broken response from a complete one; a replica that is down costs
  nothing.
* **Codec.** The ciphertext and the square image are rounded up, scanlines cut
  the data anywhere, the decrypter holds back a block, and nothing marks the
  end. Correct means: the cipher gets whole blocks, the bytes of a blob come
  back, all of them and no padding, in bounded memory.
* **Uploader.** Any tool may fail, an upload is repeated, SIGHUP and kills come
  at any time, and runs with other options add copies later. Correct means: the
  key in the metadata opens every image they name, a stored file never loses a
  copy, a fault tears one metadata file at most, and one file at most is
  finished after a SIGHUP.
* **Metadata as a shared state.** The uploader rewrites in place what the stat
  service, the listings and the proxy read, and the mount keeps a size it saw
  once. Correct means: a size that was seen stays true, a listed name is found,
  and a complete response is the file, whichever copies it was put together
  from.

`PROJECT.json` lists the hazards line by line, with the properties that cover
each and the ones that nothing covers, with the reason.

## The modules

| module | models | built on |
|---|---|---|
| `SscCache` | `ssc.go`, one call at a time, over kills and restarts | |
| `LossyStore` | what `ssc.go` promises | |
| `SscCacheProofs` | theorems about `SscCache`: index and table | `SscCache` |
| `SscStoreProofs` | theorems about `SscCache`: the ring, and that it implements `LossyStore` | `SscCacheProofs` |
| `SscShared` | `ssc.go` with overlapping callers, in one process | |
| `HgmFile` | `Read`, `readBody`, `resetHandle`, `Release` of `hgmfs.go`, for one or more requests at a time | the promises of `LossyStore` and `RangeStream` as its environment |
| `HgmFileProofs` | theorems about `HgmFile` with one request at a time | `HgmFile` |
| `Proxy` | `serveFullURI` of `proxy.go` with `cryptWorker` of `aestool.go`, one request | |
| `RangeStream` | what a response of the proxy promises | |
| `ProxyProofs` | theorems about `Proxy`, and that it implements `RangeStream` | `Proxy` |
| `Codec` | the lengths of a blob through `aestool.go`, `crypt-aes.go`, `convertBlob` of `mkpng.pl`, `pngdec.go` and back | |
| `CodecProofs` | theorems about `Codec` | `Codec` |
| `Uploader` | the loop of `mkpng.pl` over its input, and what stops or kills it | |
| `Archive` | stat service, directories, listings and responses over the uploader's metadata | `Uploader` |
| `ArchiveProofs` | theorems about `Uploader` and `Archive` | `Archive` |
| `ResponseProofs` | theorems about the responses of `Archive` | `ArchiveProofs` |
| `MCSscCache`, `MCSscShared`, `MCHgmFile`, `MCProxy`, `MCCodec`, `MCArchive` | the constants for TLC | |

Operators whose names extend another's (`ResumeUnbounded` before `Resume`, and
so on) are seeded faults: replacing the definition by its neighbour is a
plausible mistake in the code, and each checked property is known to catch one.

### SscCache

`file`, `diskHint`, `diskMeta`, `diskData` are the database file: its size (a
file with only the superblock is a state of its own), the superblock's pointer,
the table and the data. `metaMap`, `chunkMap`, `nextChunk` are the fields of
`Cache`. `pc`, `pending` say which of the writes of a call come next; `reply`
is the last answer; `fifo` and `hinted` are history.

One action is the code between two points where a kill makes a difference:
`Create` and `Truncate` (superblock, then size), `OpenExisting`, `OpenRefused`
and `Load` (the rest of `openDbFile`), `AddStart` (up to the metadata write of
`replaceMeta`), `WriteHint` (its superblock write), `AddFinish` (the data and
the ring pointer), `GetMiss`, `GetHit`, `GetCorrupt`, and `Close` and `Crash`.
A kill during the data write leaves a torn chunk. Writes reach the file in the
order the code makes them: the process dies, the machine does not.

A hash is a model value. `Len` and `Checksum` are abstracted to the value they
were computed from, so checksums do not collide; an entry of length 0 always
passes, as in the code. I/O errors, which the code ignores, are not modelled,
nor is a torn 16-byte metadata entry.

### SscShared

The same code where `SscCache` is silent: callers that overlap. `hasher` is the
field of that name, which `hash64` resets, writes and sums before `Add` and
`Get` take the lock, and `hash32` again under it; `writer`, `readers` are the
lock, `position` that of the shared file. A hash is the sequence of names that
went into the hasher, so that a mix of two names, or nothing (the key 0 of a
table entry that was never written), is seen for what it is. Steps end where
another goroutine can come between: `Call`, `HashWrite`, `HashSum`; `AddLock`,
`AddHashWrite`, `AddStore`; `GetSeek`, `GetRead`, `GetHashWrite` and
`GetVerified` or `GetCorrupt`, all of them under the read lock only. A caller
that panics keeps its lock: the unlock is not deferred.

### HgmFile

`connected`, `offset`, `bbody` are the fields of `HgmFile` (`resp` and `bbody`
change together); a body is the position of its next byte, where it will stop,
and whether it stops with EOF or an error. Each request has its place in `Read`
(`pc`), `req`, `count`, the block being read (`block`), `data`, and its last
`answer`. A byte is named by its position, so misplaced data is visible.

`StartRead`, `ReadEmptyFile`, `ReadCached` are the head of `Read`;
`SeekNowhere`, `SeekForward`, `SeekAway` the choice between following,
fast-forwarding and dropping the connection; `Dial...` the request and the
answers 206, 200 (the whole file, or an empty body past the end) and failure;
`Fetch` one round of the inner loop of `readBody`, and `NextBlock`,
`BodySkipped`, `SkipFails`, `FinishRead` what follows a block in each of its
three uses. `Fetch` and the accounting that follows are separate steps, so that
requests on a shared handle interleave there; what happens inside a step is
atomic, which is coarser than Go, so the races shown exist in the code and
there are more.

With `lruEnabled` (a constant of the code, false as shipped) the cache is what
`LossyStore` promises: a set of blocks from which an `Add` may drop one.

### Proxy

The handler's locals (`bIdx`, `skipBytes`, `untried` for `copyList`), the
cipher's (`streamLen`, `decoded`) and the response. `image` is what each replica
has for each blob: a good image, a complete one that has no room for one block
more (`full`, see `Codec`), no answer or something that is not a PNG
(`unusable`), a download that ends among the chunks before the pixels
(`clipped`) or in them (`truncated`), or a PNG made by somebody else
(`foreign`). It is chosen at the start and each entry is looked at once at most,
so it stands for any behaviour of the hosts; only that blobs of one size are all
full or none is fixed (`RoomIsASizeMatter`). A full image stops giving bytes
with the block before its last, and `DecodeFails` ends the request. A clipped
one is passed over (`PassOver`) or makes `InitReader` loop (`InitReaderLoops`),
in which the request stays. A round of `cryptWorker` decrypts any number of
bytes up to `DecodeBytes`; the stream goes on with padding after the blob's
bytes, and for which sizes it is too short is `Codec`'s question. Replicas that
lack some of the blobs, and copies of different runs, are `Archive`'s.

### Codec

All is counted, nothing is computed: `unread` input, `cipher` bytes encrypted,
the `side` of the image, `deflated` bytes still in it, `uncompressed` and
`decoded` for the two buffers of `pngdec.go`, `fed` for what the decrypter was
given, and `streamLen`, `skipBytes`, `delivered` for the request. The bytes
themselves are abstracted, and which chunks the PNG header has; filters are one
byte per scanline.

`Encrypt` is a round of `cryptWorker` with `paddingReader`; `MakeImage` is
`convertBlob`; `ReadMagic` and `ReadChunks` are `InitReader` on a download that
lasts, `HeaderEnds` one that ends in the header: refused if the magic is not
there, afterwards refused or read in circles, depending on what is left in the
buffer. `Inflate` is one read of the zlib reader, which may return any
number of bytes; `DecryptImage` the rest of a round, once `Read` has a block or
`zlibFeed` bytes; `NothingToDecode` the end of the image before the end of the
blob; `Cut` a download that ends in the pixels. `DecryptFile`, `DecryptRound`,
`DecryptEnds` are `hgmcmd decrypt`, which has no length and reads the ciphertext
through `paddingReader` again. That `DecryptUpdate` of the openssl binding keeps
back the last block it was given (`Released`) is external to the repository.

### Uploader

`meta` is the metadata directory: for each file nothing, something that is not
JSON (`Torn`), or a record. `pc`, `todo`, `options`, `terminate`, `json`, `job`
are the state of one run, lost when it ends; `source` the version each source
file has. A location in the metadata is the image it leads to, and an image
says of which file, version and part it was made, with which key, how many
bytes it holds (`blobSize`, its tag), what it announces (`contentSize`) and
whether its ciphertext is `whole`. `copies`, `edited`, `shortened`, `late` are
history.

`PassOver` is the head of the loop, with its order: the minimal size, the
metadata, the options. `BeginFile` draws a key and, without metadata, a
`BlobSize`, and splits. A part is encrypted (`Encrypt`, or `EncryptPartly` if
`hgmcmd` dies and leaves something, or `EncryptFails` if it leaves nothing,
which skips the part, line 95), uploaded and verified (`Upload`, `UploadFails`,
`VerifyFails`). `OpenMetadata` and `WriteMetadata` are the two halves of
`storeJSON`. Its `print` and `close` are not checked, so instead of the second
the file may stay empty (`WriteFails`: a full disk, which counts as one of the
faults) and the uploader goes on all the same; should `to_json` die, that is as
a kill at this point. `FileEnds` follows either; only there is SIGHUP looked at.
`Kill` may come at every step. A file that fits into one part is linked, not
split, so its image is made of the source as it is by then; of larger ones
`split` keeps a copy.

### Archive

What clients see, over whatever `Uploader` is doing. There is one client, which
uses the mount and the web server in turn; each of its calls but a response is
one step. `Lookup` (with `Attr` of the node it returns, whose size comes from
the same answer), `ReadDirAll` and `Read` are the mount; `GetFile` and
`ListPage` (the page of a directory, or its playlist) the web server. The disk
may fail whenever they look: `stat` with any error, which `handleAlias` answers
with 404 and the stat service with a status of its own, the reading of metadata
with a 500, or with size 0 in `LocalStat`, the reading of a directory with an
error or an empty page. `diskFailed` says that the last call ended so. `node`
keeps the size that was seen at `Lookup`, `js` the metadata a response began
with, `served` the images it was made of and `sent` the bytes of them.
`ServeBlob(i)` serves one image of copy i; `ServeEnds` is the end of the
response, or its break: an image that is damaged or has no room for one block
more (`Decrypts`; `FullSizes` are the blob sizes of which that holds, as `Codec`
has them), bytes beyond `Content-Length` (which is a tag of the first image), or
a copy that is too short (`js.Location[i][bIdx]` panics). `HostsFail` is a
response that ends because no host has an image or one stops in the middle of
it. `SysErrToHttpStatus` and `HttpStatusToFuseErr` are the two translations of
an error between the stat service and FUSE.

Metadata that can be read never have a `BlobSize` of 0 (`TypeOK`), the one value
for which `serveFullURI` would divide by zero.

## Runs

| run | question | result |
|---|---|---|
| `ssc` | a ring of three chunks, four keys, kills anywhere, any number of restarts | types; index and table match; no panic; unverified entries are intact; no key twice on disk; eviction is first in, first out; the saved hint skips what was written since; implements `LossyStore` |
| `ssc_shared` | two overlapping callers: is a hit the block of its key? | no: keys are mixed up in the hasher |
| `file_one_reader` | one request, with and without the cache, two faults, failed reads repeated | offset is the position of the stream; data exact and complete; errors have causes; the cache holds what it should and hides no bytes; a repeated read succeeds if the handle was reset or has moved on |
| `file_shared` | two requests, one fault | each is answered |
| `file_raced` | two requests, no faults: is a read answered with the bytes of its offset? | no |
| `file_stuck` | does a repeated read succeed for every handle? | no: a connection that dies where the read starts is kept for ever |
| `proxy_stream` | three blobs, two replicas, every combination of images, full, clipped and truncated ones included | implements `RangeStream`; `Content-Length` kept; aborts have causes; failover serves |
| `proxy_foreign` | is every accepted image tagged with its size? | no: it is served as no bytes |
| `codec` | blobs on both sides of every boundary, requests at several offsets, downloads that end anywhere, in the header or the pixels | the cipher gets whole blocks; only bytes of the blob are delivered; a response that ends is whole; it ends, but for downloads that end in the header; a complete image is lost only without room for one block more; `hgmcmd decrypt` loses a block only of a full last buffer; the buffers are bounded |
| `codec_header` | does `InitReader` come to the pixels or refuse? | no: it loops when a download ends between two chunks |
| `codec_whole` | does every blob come back from a complete image? | no |
| `archive` | two files, two runs of the uploader with any options, one fault, a disk that fails to be read at any time, one client | keys open their images; copies are kept; a fault tears one metadata file at most; SIGHUP is obeyed; sizes stay true; listed names are found; a complete response is the file; a broken one has a cause |

### Bounds

* Three chunks with a hint period of two and a slack of two are the least in
  which the hint lands inside the ring, at its end and beyond it, in the
  proportions of 512 and 520. One key more than chunks forces eviction.
  `FakeKeys` needs one element less than there are chunks for loading a fresh
  table. Two callers and two chunks suffice to mix up keys.
* A file of two blocks of two bytes, read at its start, inside and at the edge
  of a block, at its end and past it, with sizes below, at and above the block,
  and fast-forwards of up to two bytes: all the branches of `readBody` at both
  sides of each boundary. `MaxFaults` bounds broken connections and failed
  dials; with two, the repair of a fault is itself hit by one. Two requests are
  for a file of a block and a half, at the start of its blocks, with one fault,
  which may hit either; checking liveness makes anything larger expensive.
* Three blobs, the last of one byte, two replicas: the first, a middle and the
  last blob differ, and both orders of the replicas are taken.
* Blocks of 2 bytes, buffers of 8 and a `zlibFeed` of 4 keep the order of 16,
  512K and 4096, except that the feed is two blocks, so that it falls into a
  scanline. Sizes from 1 to 26 pass three buffers and three sides of the image;
  requests skip nothing, something inside or across a block, or more than there
  is.
* A request of the proxy starts at the beginning of the file, inside a blob, at
  the end of the file and past it; cipher blocks are of one byte, so that the
  blobs of two bytes lose their second half when they are full and the last blob
  all of it.
* The archive has one movie and one `index.html`, source files of two versions,
  of 5 bytes and of 1, and blobs of 3: the first version needs two parts, which
  have room in their images, the second one part, whose image is full. Two runs
  with all options (but `--replicate` with `--dry-run`, which only repeats the
  first) make copies of different runs and versions; the fault, a failing tool,
  a failing host, a full disk or a kill, may hit either run, anywhere. Failures
  to read the disk are not bounded. One fault is a limit of the state space;
  what needs two, such as a file that is both short and damaged, is left to the
  proofs.

### Fairness

`SscCache` has none: it only answers calls. In `HgmFile`, `WF_vars(Serve(r))`
says that a goroutine that can go on does; that includes the peer's part. The
wait for headers is bounded by `ResponseHeaderTimeout`; reading a body has no
timeout in the code, so that a body is sent or breaks is an assumption about the
peer. `PersistentSpec` adds a program that repeats a failed read (`WF` of
`Retry`, which is one way to take `Next`, so it can read elsewhere or close the
file instead; `Settled` is then also that the read is no longer wanted). In
`Proxy`, `WF_vars(Serve)` is the handler going on, under the same assumption
about the image hosts; the client may hang up at any time. A request that loops
in `InitReader` has no step left, so that `FailoverServes` is asked only where
no download ends early. In `Codec`, `WF_vars(Next)` is the same again: the body
is sent or breaks; a loop of `InitReader` is a request that stays where it is
(`Spins`), which `RequestEnds` excepts and `codec_header` is about. `SscShared`
and `Archive` have no liveness properties and no fairness: nothing in the
archive has to happen, and an uploader that waits for its image host repeats for
ever.

## Proofs

`SscCacheProofs` proves for every ring size, every set of keys and values, and
every history of calls, kills and restarts: `TypeOK`, `IndexMatches`,
`NeverPanics`, `CleanIsIntact`. Assumed of the constants: there is a chunk, the
model values are distinct, callers' keys differ from random ones and from the
key 0 of an empty table.

None of them is inductive alone. `IndexInv` joins them with `PhasesFit`: while
an `Add` is under way the metadata of the chunk under `nextChunk` already
describes the value that is still to be written, which is what makes the chunk
intact when the write completes (`AddFinishIndexInv`). The core of it is
`RekeyingKeepsIndex`: moving a chunk from a mapped key to an unmapped one keeps
index and table in step. Together with `IndexSize` (such an index has exactly
one entry per chunk) the test in `replaceMeta` cannot fail
(`AfterReplaceContinues`). `LoadIndexInv` needs that `findFreeKey` never returns
a key already given to a lower chunk. There is one lemma per operation.

`SscStoreProofs` builds on it. `KeysOnceOnDisk` needs `DiskFollows`: while a run
is on, `metaMap` has the entries of the file, but for the random keys that
loading gave to keys found twice; then a key that the index does not have is not
in the file either, and a new one can be written. `LastAddsAreServed` follows
from `FifoKept`: the i-th last key that was added is at its distance from
`nextChunk`, with its data, which neither a corrupt neighbour nor a replaced key
moves. Only the oldest of a full ring is excepted, while an `Add` writes over
it. `HintSkipsNewData` needs `HintInv`: the chunks that were filled since the
saved hint lie between where it was saved and `nextChunk`, within one period. It
is proved for every slack of at least the period and every ring longer than the
slack (the code has 512 and 520, and hgmfs asks for 32768 chunks). Neither can
be dropped: TLC refutes it for a period of 2 with a slack of 1 and three or four
chunks, and with a slack of 2 and two chunks. `CacheIsALossyStore` is the
refinement: what the abstract store holds is the value of each key the index has
whose data is intact, and there is one lemma for what each operation is in
`LossyStore` (`GetLooksUp`, `AddBegins`, `AddFinishes`, `DeclinedDeclines`,
`CrashAbandons`, `QuietSteps` for what it does not see).

`HgmFileProofs` proves, for files, blocks, offsets, sizes and fast-forwards of
every size and any number of faults, every invariant that `file_one_reader`
checks: `TypeOK`, `OffsetIsStreamPos`, `ReadsReturnTheFile`, `CacheHoldsTheFile`,
`ReadsAreComplete`, `EmptyOnlyAtTheEnd`, `ErrorsHaveACause`. They assume
`OneReader`: the FUSE server has at most one request for the file in progress.
Without it reads go wrong, as `file_raced` shows.

`OffsetIsStreamPos` has `offset` behind the connection by the bytes that were
fetched and are not counted yet (`InTransit`). The inductive invariant is
`StreamInv`. `PlaceFits` says what is still to be read
from where the stream is: while `Read` fast-forwards or discards,
`offset + count` is the offset asked for; while it reads, `offset` is that offset
plus what it has, and what it has is that slice of the file. `BlockFits` says the
same of a block that was fetched and is not yet counted. `BodyFits` says that a
body ends with the file, except for the empty 200 answer past the end, which is
always met by a discard and so never taken for the end of the file. There is one
lemma per action; `FetchNeverPanics` shows that one request alone never finds its
body gone. The bytes are handled by the lemmas on slices (`SlicesJoin`,
`SliceIsCut`).

`ProxyProofs` proves, for files, blobs, offsets and buffers of every size and
any number of replicas, every safety property of the run `proxy_stream`.
`TypeInv` and `CauseInv` (a replica that was passed over had no usable image of
the blob at hand) hold for all images, full and clipped ones included.
`PositionInv` is the place in the file, from three sources: `LengthLeft` has
`streamLen` as what is left of the part, `SkipsFirst` has bytes skipped only
before the first is sent, and `ResponseFollows` joins them: the offset asked for
and what was sent add up to the position in the file, or to the position and
what is still to be skipped. A round of `cryptWorker` keeps that whatever it
decrypts, padding included. `LengthIsKept` and `ProxyStreamsTheRange`, the
refinement, follow; they assume `OnlyTagged`, that no replica has a PNG somebody
else made. Without it both are false: TLC refutes them on the instance of
`proxy_foreign`.

`CodecProofs` proves, for blocks, buffers, scanlines and blobs of every size,
every safety property of the run `codec`. `CodecInv` is enough for the half
before the image and for what is delivered: `streamLen` is what is left of the
blob, and `fed`, `cipher` are multiples of the block because `Handout` and
`Padded` are. `RoomInv` adds what is needed at the end: the pixels of the image
are at least the ciphertext, and while the download is not cut `Scanlines` says
where all of them are: given to the decrypter, in one of the two buffers, or in
a whole number of scanlines not yet inflated. `FileInv` counts the same for
`hgmcmd decrypt`. A request that finds the image at its end has then been fed all
whole blocks of it, which is `CompleteWithRoom`. Assumed: the buffer is a whole
number of blocks, and `zlibFeed` is at least a block.

`ArchiveProofs` proves, for any number of files, versions, runs and faults, any
inputs and options: `TypeOK`, `KeyOpensEveryImage`, `HangupStops`,
`CopiesAreKept`, `FaultsTearOneFileEach`, `SizeIsTrue`, `ListedNamesAreFound`.
The uploader's half is `UploadInv`: `JobFits` says that the row in the making
holds images of this file and of the key in `json`, and that `json` still is
what the metadata were when they were complete (`CopiesFit`), but for the new
row; so storing it adds a copy and changes nothing else. `LateFits` relates the
signal to the place in the loop. `FaultsTearOneFileEach` counts: a step adds a
file to `TornFiles` only if it leaves `write` without its text, which the
uploader does by a kill or by `WriteFails`, and each is a fault; SIGHUP is none.
The client's half, `ClientFits`, rests on `FilesStay`: a metadata file never
goes away, and the size of a complete one never changes, although the file
itself may be torn and written again in between. Assumed: no file is named like
the model value `NoJob`, blob sizes are not 0, the input consists of file names.

`ResponseProofs` proves `CompleteIsTheFile` and `BrokenHasACause` on top of it.
`StoredFits`: every copy of a file that was not edited and lost no part has all
parts of it, in order, whichever run made it; `SplitFits` says it of the copy in
the making. A response keeps the metadata it began with, so that later runs do
not matter to it, and it may take every part from another copy: by
`ResponseFits` it still is a first piece of the file, and has sent as many bytes
as these parts have (`Bytes`, which `NextPart` adds to). The announced length,
the tag of any image, is reached exactly with the last part; so what ends well
is the file, and what breaks met a damaged image or one without room.

Only model-checked is liveness (`MovedHandlesRecover`, `EveryReadReturns`,
`FailoverServes`, `RequestEnds`): it rests on fairness, thus on ENABLED, which is
out of the prover's reach. Nothing is proved about `SscShared`: what the run
asks of it is false. Every other property of a passing run, invariant, action
property or refinement, is a theorem.

## Findings

1. `ssc_shared`: `hash64` uses the shared hasher before the lock is taken. Two
   callers that overlap compute the hash of nothing, of both names or of the
   other's name, and `Get` answers with the block of another key, or with an
   empty one. hgmfs would pass it on as file content; `lruEnabled` is false as
   shipped.
2. `codec_whole`: the decrypter never gives out the last block it was given. If
   the ciphertext fills the image but for less than a block, the pixels end
   before the last block of the data is released, and the response breaks every
   time, whichever copy is asked. A part of 12280 bytes, for example, is 12288
   bytes of ciphertext, which is an image of 64 by 64 pixels exactly. In the
   same way `hgmcmd decrypt` drops the last block of a ciphertext that is a
   multiple of 512K; there is no statement about that, and `FileComesBack` says
   exactly when.
3. `file_stuck`: `Read` resets a connection only when it is asked for another
   offset or fails before it starts reading. A connection that was killed while
   idle sits exactly at the offset a sequential reader asks for next; the read
   fails with no bytes, nothing moves, and every retry fails the same way until
   the file is closed or read elsewhere.
4. `file_raced`: one `HgmFile` serves all opens of a file, and `Read` runs
   concurrently without a lock. One request dials while another is about to read
   or counts the bytes it has, and a program is given bytes of another place of
   the file, without an error and without any fault of the network.
5. `codec_header`: `InitReader` ignores what its reads of the PNG header return.
   When a download ends there it finds the last chunk in its buffer again and
   again: the request never ends, does not fail over to another replica, and
   keeps a processor busy.
6. `proxy_foreign`: `InitReader` accepts a PNG without the uploader's tags.

Also in the models, without a statement in the repository that it contradicts:

* A kill between the superblock and the extension of a new cache file makes
  every later start refuse the file (`OpenRefused`); a run that is killed before
  it saves a hint makes the next one start where it started. The comment in
  `openDbFile` that a reassigned key fails its checksum does not hold for
  entries of length 0, harmlessly.
* A kill between emptying a metadata file and writing it, or a full disk, leaves
  the file torn for good: `from_json` dies of it, so every later batch that
  names the file ends there (`DieOfMetadata`), the files after it included.
* A part whose encryption did not start is left out of its row, and the parts
  after it move up. `CompleteIsTheFile` excepts such files (`shortened`):
  without the exception TLC finds that a copy without any part is served as an
  empty file, and, on an instance with parts of equal size, a response of the
  right length that holds one part twice, because another copy continues at the
  shifted position.
* `--replicate` of a file that was edited adds a copy of another version, and
  responses mix the two (`edited`). On an instance with versions of 5 and 6
  bytes TLC finds such a response broken although no image is damaged, and with
  versions of equal size a complete one.
* A range that starts past the end but inside the last blob's nominal size is
  announced with a negative `Content-Length` (`OpenImage`), a header that
  `net/http` then drops. `LengthIsKept` is about offsets in the file.
* The size a node was given at `Lookup` is 0 if its metadata could not be read
  just then, and the file reads as empty until it is forgotten (`ReadNothing`).
* The web server answers every error of `stat` with 404, so that a file on a
  failing disk looks as if it were gone (`Get`); the mount tells the two apart.
* `--dry-run` looks at nothing but files without metadata: with `--replicate` it
  uploads.

## Not modelled, and the plan

In order:

1. `HgmFile` on top of `Proxy`: the end of the file when its size is a multiple
   of the blob size, and the connection that a second dial leaves behind.
2. `SscShared` with the hash taken under the lock, as the repaired code would
   have it, and the theorem that a hit is then the block of its key.
3. The loss of writes to the chunk cache that the machine had not yet made.
4. Reads of the PNG header that return less than was asked for, which `InitReader`
   does not notice either, and a `split` that fails.

Left out, and why:

* `If-Modified-Since` and the redirect of a directory without a slash: they
  compare with `Created`, which never changes once a file is stored
  (`CopiesAreKept` includes all but the rows), and change no state.
* Two uploaders at once: nothing in `mkpng.pl` expects it (its temporary files
  carry its pid, the metadata files do not).
* Images on the host that no metadata name, left by uploads that were repeated
  or never stored: nothing reads them.
* `dirlist.go` beyond which names it lists, `assets.go`, `hgmcmd.go`, build
  scripts: formatting and dispatch, no state.
* The image host, openssl, zlib and `net/http` beyond how the code uses them.
