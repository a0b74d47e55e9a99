------------------------------- MODULE Proxy -------------------------------
(***************************************************************************)
(* One request to the proxy, serveFullURI of src/src/hgmweb/proxy.go with  *)
(* the cryptWorker of src/src/libhgms/crypto/aestool/aestool.go: the file  *)
(* is a row of blobs, each stored as an image at every replica; the blobs  *)
(* are fetched in order, each from the first of its replicas, in random    *)
(* order, that answers with a PNG, and decrypted into the response.        *)
(*                                                                         *)
(* A byte of the file is named by its position.  What a request finds at   *)
(* a replica is fixed in advance: each is asked at most once per blob.     *)
(***************************************************************************)
EXTENDS Naturals, Integers, Sequences

CONSTANTS
  Replicas,
  ContentSize,
  BlobSize,      \* rqMeta.BlobSize, the size of every part but the last
  Froms,         \* offsets asked for
  Block,         \* bytes of a cipher block
  DecodeBytes,   \* bound: what one round of cryptWorker decrypts
  Kinds,         \* what a replica may have for a blob, see KindsAssumption
  NoReplica,     \* no replica chosen
  Padding        \* a byte after the end of a blob

ASSUME SizesAssumption ==
  /\ ContentSize \in Nat \ {0}
  /\ BlobSize \in Nat \ {0}
  /\ Froms \subseteq Nat
  /\ Block \in Nat \ {0}
  /\ DecodeBytes \in Nat \ {0}

\* "good"      the image mkpng.pl made of the blob
\* "full"      one that has no room for a block more than those of the blob
\* "unusable"  no answer from the server, or one that InitReader refuses
\* "clipped"   an image whose download ends in the chunks before the pixels
\* "truncated" an image whose download ends later, but early
\* "foreign"   a valid PNG that mkpng.pl did not make, without its tags
ASSUME KindsAssumption ==
  /\ Kinds \subseteq {"good", "full", "unusable", "clipped", "truncated", "foreign"}
  /\ Padding \notin Nat
  /\ NoReplica \notin Replicas

\* mkpng.pl splits the file into parts of BlobSize bytes.
NumBlobs == (ContentSize + BlobSize - 1) \div BlobSize
Blobs == 0 .. NumBlobs - 1
Least(a, b) == IF a < b THEN a ELSE b
PartSize(b) == Least(BlobSize, ContentSize - b * BlobSize)

VARIABLES
  image,      \* what each replica has for each blob
  ranged,     \* rqMeta.RangeRequest
  from,       \* rqMeta.RangeFrom
  pc,         \* where serveFullURI is
  bIdx,       \* the blob being served
  skipBytes,  \* bytes of it to throw away
  untried,    \* replicas left in copyList
  copy,       \* the replica being read
  decoded,    \* bytes of the blob decrypted so far
  streamLen,  \* AesTool.streamLen
  status,     \* HTTP status sent, 0 before
  length,     \* Content-Length sent
  sent,       \* body sent to the client
  gone        \* the client has hung up

response == <<status, length, sent>>
stream == <<copy, decoded, streamLen>>
vars == <<image, ranged, from, pc, bIdx, skipBytes, untried, stream, response, gone>>

-----------------------------------------------------------------------------
(* Helpers *)

\* The blob with the offset, and the offset in it.
FirstBlob(off) == off \div BlobSize
FirstSkipWhole(off) == off
FirstSkip(off) == off - FirstBlob(off) * BlobSize

\* A byte of the decrypted stream of blob b.
Byte(b, i) == IF i < PartSize(b) THEN b * BlobSize + i ELSE Padding

\* Whether InitReader accepts what replica c has for the current blob.
Accepted(c) == image[c][bIdx] \notin {"unusable", "clipped"}

\* pngReader.BlobSize and ContentSize: 0 when the image lacks the tags.
TagBlobSize(c) == IF image[c][bIdx] = "foreign" THEN 0 ELSE PartSize(bIdx)
TagContentSize(c) == IF image[c][bIdx] = "foreign" THEN 0 ELSE ContentSize

\* The bytes [wFrom, wTo) of a round that decrypted n bytes.
RoundToUnbounded(n) == n
RoundTo(n) == Least(n, streamLen)
RoundFrom(n) == Least(RoundTo(n), skipBytes)

\* DecryptUpdate keeps back the block it got last: of a full image that is the
\* end of the blob (see Codec).
Decrypted(n) == image[copy][bIdx] = "full" => RoundTo(n) < streamLen

\* A blob of a given size fills its image or does not, at every replica.
RoomIsASizeMatter ==
  \A c, d \in Replicas : \A b, e \in Blobs :
    PartSize(b) = PartSize(e) => {image[c][b], image[d][e]} # {"good", "full"}

-----------------------------------------------------------------------------
Init ==
  /\ image \in [Replicas -> [Blobs -> Kinds]] /\ RoomIsASizeMatter
  /\ from \in Froms
  /\ ranged \in (IF from = 0 THEN BOOLEAN ELSE {TRUE})
  /\ pc = "blob"
  /\ bIdx = FirstBlob(from)
  /\ skipBytes = FirstSkip(from)
  /\ untried = {}
  /\ copy = NoReplica
  /\ decoded = 0
  /\ streamLen = 0
  /\ status = 0
  /\ length = 0
  /\ sent = <<>>
  /\ gone = FALSE

\* The next blob gets a new random order of the replicas ...
NextBlob ==
  /\ pc = "blob" /\ bIdx < NumBlobs
  /\ pc' = "replica"
  /\ untried' = Replicas
  /\ UNCHANGED <<image, ranged, from, bIdx, skipBytes, stream, response, gone>>

\* ... and after the last one the handler returns; a response without headers
\* is an empty 200.
Finish ==
  /\ pc = "blob" /\ bIdx >= NumBlobs
  /\ pc' = "done"
  /\ status' = IF status = 0 THEN 200 ELSE status
  /\ UNCHANGED <<image, ranged, from, bIdx, skipBytes, untried, stream, length, sent, gone>>

\* A replica without a usable image is passed over.
PassOverStartingOver(c) ==
  /\ pc = "replica" /\ c \in untried
  /\ ~ Accepted(c)
  /\ pc' = "blob"
  /\ UNCHANGED <<image, ranged, from, bIdx, skipBytes, untried, stream, response, gone>>

PassOver(c) ==
  /\ pc = "replica" /\ c \in untried
  /\ ~ Accepted(c)
  /\ untried' = untried \ {c}
  /\ UNCHANGED <<image, ranged, from, pc, bIdx, skipBytes, stream, response, gone>>

\* InitReader ignores the errors of its reads: when the answer ends between two
\* chunks, it takes the chunk it has for the next one, again and again.
InitReaderLoops(c) ==
  /\ pc = "replica" /\ c \in untried
  /\ image[c][bIdx] = "clipped"
  /\ pc' = "looping"
  /\ UNCHANGED <<image, ranged, from, bIdx, skipBytes, untried, stream, response, gone>>

\* The first image of a request also settles the headers.
OpenImageResettingHeaders(c) ==
  /\ pc = "replica" /\ c \in untried
  /\ Accepted(c)
  /\ status' = IF ranged THEN 206 ELSE 200
  /\ length' = TagContentSize(c) - bIdx * BlobSize - skipBytes
  /\ copy' = c
  /\ decoded' = 0
  /\ streamLen' = TagBlobSize(c)
  /\ pc' = "stream"
  /\ UNCHANGED <<image, ranged, from, bIdx, skipBytes, untried, sent, gone>>

OpenImage(c) ==
  /\ pc = "replica" /\ c \in untried
  /\ Accepted(c)
  /\ IF status = 0
       THEN /\ status' = IF ranged THEN 206 ELSE 200
            /\ length' = TagContentSize(c) - from
       ELSE UNCHANGED <<status, length>>
  /\ copy' = c
  /\ decoded' = 0
  /\ streamLen' = TagBlobSize(c)
  /\ pc' = "stream"
  /\ UNCHANGED <<image, ranged, from, bIdx, skipBytes, untried, sent, gone>>

\* No replica is left: a 500 if nothing was sent, else the connection just ends.
GiveUpAfterOne ==
  /\ pc = "replica" /\ untried # Replicas
  /\ pc' = "aborted"
  /\ status' = IF status = 0 THEN 500 ELSE status
  /\ UNCHANGED <<image, ranged, from, bIdx, skipBytes, untried, stream, length, sent, gone>>

NoReplicaLeft ==
  /\ pc = "replica" /\ untried = {}
  /\ pc' = "aborted"
  /\ status' = IF status = 0 THEN 500 ELSE status
  /\ UNCHANGED <<image, ranged, from, bIdx, skipBytes, untried, stream, length, sent, gone>>

\* One round of cryptWorker: n bytes are decrypted, those past streamLen or
\* before the range are dropped, the rest is written.
Round(n) ==
  /\ pc = "stream" /\ streamLen # 0
  /\ Decrypted(n)
  /\ sent' = sent \o [i \in 1 .. RoundTo(n) - RoundFrom(n) |->
                        Byte(bIdx, decoded + RoundFrom(n) + i - 1)]
  /\ decoded' = decoded + n
  /\ skipBytes' = skipBytes - RoundFrom(n)
  /\ streamLen' = streamLen - RoundTo(n)
  /\ UNCHANGED <<image, ranged, from, pc, bIdx, untried, copy, status, length, gone>>

\* cryptWorker panics on a read error, and when a full image has no block left
\* that would set the last one free: the server drops the connection.  No other
\* replica is tried once bytes may have been sent.
DecodeFails ==
  /\ pc = "stream" /\ streamLen # 0
  /\ \/ image[copy][bIdx] = "truncated"
     \/ image[copy][bIdx] = "full" /\ streamLen <= Block
  /\ pc' = "aborted"
  /\ UNCHANGED <<image, ranged, from, bIdx, skipBytes, untried, stream, response, gone>>

\* A write to a client that has hung up fails, sooner or later, and ends the
\* request; a round that only skips writes nothing.
WriteFails ==
  /\ pc = "stream" /\ gone
  /\ \E n \in 1 .. DecodeBytes : Decrypted(n) /\ RoundFrom(n) < RoundTo(n)
  /\ pc' = "aborted"
  /\ UNCHANGED <<image, ranged, from, bIdx, skipBytes, untried, stream, response, gone>>

\* The blob is served: nothing is skipped in later ones.
BlobDone ==
  /\ pc = "stream" /\ streamLen = 0
  /\ pc' = "blob"
  /\ bIdx' = bIdx + 1
  /\ skipBytes' = 0
  /\ UNCHANGED <<image, ranged, from, untried, stream, response, gone>>

\* The client hangs up.
HangUp ==
  /\ pc \notin {"done", "aborted"} /\ ~ gone
  /\ gone' = TRUE
  /\ UNCHANGED <<image, ranged, from, pc, bIdx, skipBytes, untried, stream, response>>

Serve ==
  \/ NextBlob
  \/ Finish
  \/ \E c \in Replicas : PassOver(c) \/ InitReaderLoops(c) \/ OpenImage(c)
  \/ NoReplicaLeft
  \/ \E n \in 1 .. DecodeBytes : Round(n)
  \/ DecodeFails
  \/ WriteFails
  \/ BlobDone

Next == Serve \/ HangUp

Spec == Init /\ [][Next]_vars

\* The handler goes on as long as it can: backendClient times out on a silent
\* server, and a running download makes progress or fails.  A request that loops
\* takes no step of this model any more.
FairSpec == Spec /\ WF_vars(Serve)

-----------------------------------------------------------------------------
(* Properties *)

\* Types of the state.
TypeOK ==
  /\ image \in [Replicas -> [Blobs -> Kinds]]
  /\ ranged \in BOOLEAN
  /\ from \in Froms
  /\ pc \in {"blob", "replica", "looping", "stream", "done", "aborted"}
  /\ bIdx \in Nat
  /\ skipBytes \in Nat
  /\ untried \subseteq Replicas
  /\ copy \in Replicas \cup {NoReplica}
  /\ decoded \in Nat
  /\ streamLen \in Nat
  /\ status \in {0, 200, 206, 500}
  /\ length \in Int
  /\ sent \in Seq(Nat \cup {Padding})
  /\ gone \in BOOLEAN

Promise == INSTANCE RangeStream WITH
  state <- IF pc = "done" THEN "complete" ELSE IF pc = "aborted" THEN "broken" ELSE "open"

\* With images that mkpng.pl made, the response is the file from the offset on,
\* complete or broken off.
ImplementsRangeStream == Promise!Spec

\* The Content-Length that was sent is never exceeded, and is reached exactly
\* by a response that was not broken off: a client can tell the two apart.
LengthIsKept ==
  status \in {200, 206} /\ from < ContentSize =>
    /\ Len(sent) <= length
    /\ pc = "done" => Len(sent) = length
    /\ pc = "aborted" => Len(sent) < length

\* The blobs of the request.
Requested == {b \in Blobs : b >= FirstBlob(from)}

\* A request is broken off only for a cause: the client hung up, a download
\* ended early, the image of some blob is full, or no replica has a usable image
\* of some blob.
AbortHasACause ==
  pc = "aborted" =>
    \/ gone
    \/ \E b \in Requested : \E c \in Replicas : image[c][b] \in {"truncated", "full"}
    \/ \E b \in Requested : \A c \in Replicas : image[c][b] \in {"unusable", "clipped"}

\* Every blob is available somewhere, with room in its image, and no download
\* ends early.
Available ==
  \A b \in Requested :
    /\ \E c \in Replicas : image[c][b] = "good"
    /\ \A c \in Replicas : image[c][b] \in {"good", "unusable"}

\* Failover is complete: a request whose blobs are all available, each from
\* whichever replica, is served unless the client hangs up.
FailoverServes == Available ~> pc = "done" \/ gone

\* InitReader "will initialize IV, ContentSize and BlobSize", so every image it
\* accepts is read for the size of its blob.
AcceptedImagesAreTagged ==
  pc = "stream" /\ decoded = 0 => streamLen = PartSize(bIdx)
=============================================================================
