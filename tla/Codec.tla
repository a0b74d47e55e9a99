------------------------------- MODULE Codec -------------------------------
(***************************************************************************)
(* The way of a blob: encrypted with padding (aestool.go and crypt-aes.go),*)
(* stored as the pixels of a square PNG (convertBlob of mkpng.pl), inflated*)
(* and stripped of scanlines (pngdec.go), decrypted and cut to its length  *)
(* (aestool.go).  Only lengths matter: each stage rounds them differently, *)
(* and none of them marks the end of the data.                             *)
(***************************************************************************)
EXTENDS Integers

CONSTANTS
  Block,      \* bytes of a cipher block, 16
  Buf,        \* bytes of the buffer of cryptWorker, 512K
  Feed,       \* zlibFeed, 4096
  Bpp,        \* $BPP, bytes of a pixel, 3
  Sizes,      \* sizes of a blob
  Skips       \* bytes that a request skips in it

ASSUME CodecAssumption ==
  /\ Block \in Nat \ {0} /\ Feed \in Nat /\ Bpp \in Nat \ {0}
  /\ Feed >= Block
  /\ Buf \in Nat \ {0} /\ Buf % Block = 0
  /\ Sizes \subseteq Nat \ {0}
  /\ Skips \subseteq Nat

VARIABLES
  pc,           \* "encrypt", "magic" and "chunks" (InitReader), "image" (decrypting
                \* the PNG), "file" (what hgmcmd decrypt does), "done", "panic" or
                \* "refused"
  size, skip,   \* of the blob and the request
  unread,       \* bytes of the input of a paddingReader not yet read
  cipher,       \* bytes encrypted
  side,         \* width and height of the image
  deflated,     \* bytes of pixels and filters still to be inflated
  uncompressed, \* bytes inflated, less than a scanline
  decoded,      \* bytes without scanlines
  fed,          \* bytes given to the decrypter
  streamLen, skipBytes,
  delivered,    \* bytes written by DecryptStream
  cut           \* history: the download ended early

image == <<side, deflated, uncompressed, decoded>>
worker == <<fed, streamLen, skipBytes, delivered>>
vars == <<pc, size, skip, unread, cipher, image, worker, cut>>

-----------------------------------------------------------------------------
(* Helpers *)

Least(a, b) == IF a < b THEN a ELSE b

\* io.ReadAtLeast with paddingReader: the last read claims some bytes more.
BytesReadFully == Buf
BytesRead == Least(Buf, unread)
PaddedOnlyIfNeeded(rb) == Block * ((rb + Block - 1) \div Block)
Padded(rb) == IF rb < Buf THEN Block * (rb \div Block + 1) ELSE rb

\* The pixels of a scanline; in the stream each is preceded by a filter byte.
slSize == Bpp * side
SideForTruncated(n) == {s \in 1 .. n : Bpp * s * s <= n /\ Bpp * (s + 1) * (s + 1) > n}
SideFor(n) == {s \in 1 .. n : Bpp * s * s >= n /\ Bpp * (s - 1) * (s - 1) < n}

\* DecryptUpdate keeps back the last block it was given, in case it is padding.
Released(n) == IF n = 0 THEN 0 ELSE n - Block

\* Read hands out whole blocks.
HandoutOfAll == Least(decoded, Buf)
Handout == Least(Block * (decoded \div Block), Buf)

-----------------------------------------------------------------------------
Init ==
  /\ pc = "encrypt"
  /\ size \in Sizes /\ skip \in Skips
  /\ unread = size
  /\ cipher = 0
  /\ side = 0 /\ deflated = 0 /\ uncompressed = 0 /\ decoded = 0
  /\ fed = 0
  /\ streamLen = -1
  /\ skipBytes = 0
  /\ delivered = 0
  /\ cut = FALSE

\* A round of cryptWorker for EncryptStream.
Encrypt ==
  /\ pc = "encrypt" /\ unread > 0
  /\ cipher' = cipher + Padded(BytesRead)
  /\ unread' = unread - BytesRead
  /\ UNCHANGED <<pc, size, skip, image, worker, cut>>

\* convertBlob, and the response that is to decrypt the image.
MakeImage ==
  /\ pc = "encrypt" /\ unread = 0
  /\ pc' = "magic"
  /\ side' \in SideFor(cipher)
  /\ deflated' = side' * (Bpp * side' + 1)
  /\ streamLen' = size /\ skipBytes' = skip
  /\ UNCHANGED <<size, skip, unread, cipher, uncompressed, decoded, fed, delivered, cut>>

\* hgmcmd decrypt, which reads the encrypted file as if it were to be padded.
DecryptFile ==
  /\ pc = "encrypt" /\ unread = 0
  /\ pc' = "file"
  /\ unread' = cipher
  /\ UNCHANGED <<size, skip, cipher, image, worker, cut>>

-----------------------------------------------------------------------------
(* InitReader of pngdec.go *)

\* The magic, and then one chunk after the other up to the one of the pixels.
ReadMagic ==
  /\ pc = "magic"
  /\ pc' = "chunks"
  /\ UNCHANGED <<size, skip, unread, cipher, image, worker, cut>>

ReadChunks ==
  /\ pc = "chunks" /\ ~ cut
  /\ pc' = "image"
  /\ UNCHANGED <<size, skip, unread, cipher, image, worker, cut>>

\* The download ends in the header, and no read is checked.  Without the magic
\* InitReader refuses the image.  Later it finds in its buffer the chunk it has
\* read, or a mixture of that one and the next: one that is too long for a
\* header ends the loop and is refused, any other is read over and over again.
HeaderEnds ==
  /\ ~ cut
  /\ \/ pc = "magic" /\ pc' = "refused"
     \/ pc = "chunks" /\ pc' \in {"chunks", "refused"}
  /\ cut' = TRUE
  /\ UNCHANGED <<size, skip, unread, cipher, image, worker>>

-----------------------------------------------------------------------------
(* Read of pngdec.go, inside a round of cryptWorker *)

\* The zlib reader returns some bytes; all complete scanlines are unfiltered.
InflateWithoutLimit ==
  /\ pc = "image"
  /\ \E k \in 1 .. Least(Feed, deflated) :
       /\ deflated' = deflated - k
       /\ uncompressed' = (uncompressed + k) % (slSize + 1)
       /\ decoded' = decoded + slSize * ((uncompressed + k) \div (slSize + 1))
  /\ UNCHANGED <<pc, size, skip, unread, cipher, side, worker, cut>>

Inflate ==
  /\ pc = "image" /\ decoded < Feed
  /\ \E k \in 1 .. Least(Feed, deflated) :
       /\ deflated' = deflated - k
       /\ uncompressed' = (uncompressed + k) % (slSize + 1)
       /\ decoded' = decoded + slSize * ((uncompressed + k) \div (slSize + 1))
  /\ UNCHANGED <<pc, size, skip, unread, cipher, side, worker, cut>>

\* The download ends in the pixels.
Cut ==
  /\ pc = "image" /\ ~ cut
  /\ deflated' \in 0 .. deflated - 1
  /\ cut' = TRUE
  /\ UNCHANGED <<pc, size, skip, unread, cipher, side, uncompressed, decoded, worker>>

\* The rest of a round: br bytes are decrypted, and what is released is cut to
\* the stream's length, skipped, written.
DecryptUncut(br) ==
  LET out == Released(fed + br) - Released(fed)
      skipped == Least(out, skipBytes)
  IN /\ fed' = fed + br
     /\ skipBytes' = skipBytes - skipped
     /\ streamLen' = IF out > streamLen THEN 0 ELSE streamLen - out
     /\ delivered' = delivered + out - skipped

Decrypt(br) ==
  LET out == Released(fed + br) - Released(fed)
      wTo == IF streamLen > -1 /\ out > streamLen THEN streamLen ELSE out
      skipped == Least(wTo, skipBytes)
  IN /\ fed' = fed + br
     /\ skipBytes' = skipBytes - skipped
     /\ streamLen' = streamLen - wTo
     /\ delivered' = delivered + wTo - skipped

DecryptImage ==
  /\ pc = "image" /\ (decoded >= Feed \/ deflated = 0)
  /\ decoded >= Block
  /\ Decrypt(Handout)
  /\ decoded' = decoded - Handout
  /\ pc' = IF streamLen' = 0 THEN "done" ELSE pc
  /\ UNCHANGED <<size, skip, unread, cipher, side, deflated, uncompressed, cut>>

\* "Nothing to decode": cryptWorker panics.
NothingToDecodeIgnored ==
  /\ pc = "image" /\ deflated = 0
  /\ decoded < Block
  /\ UNCHANGED vars

NothingToDecodeIsEof ==
  /\ pc = "image" /\ deflated = 0
  /\ decoded < Block
  /\ pc' = "done"
  /\ UNCHANGED <<size, skip, unread, cipher, image, worker, cut>>

NothingToDecode ==
  /\ pc = "image" /\ deflated = 0
  /\ decoded < Block
  /\ pc' = "panic"
  /\ UNCHANGED <<size, skip, unread, cipher, image, worker, cut>>

-----------------------------------------------------------------------------
\* A round of cryptWorker for hgmcmd decrypt, which knows no length.
DecryptRound ==
  /\ pc = "file" /\ unread > 0
  /\ Decrypt(Padded(BytesRead))
  /\ unread' = unread - BytesRead
  /\ UNCHANGED <<pc, size, skip, cipher, image, cut>>

DecryptEnds ==
  /\ pc = "file" /\ unread = 0
  /\ pc' = "done"
  /\ UNCHANGED <<size, skip, unread, cipher, image, worker, cut>>

Next ==
  \/ Encrypt \/ MakeImage \/ ReadMagic \/ ReadChunks \/ HeaderEnds \/ Inflate \/ Cut
  \/ DecryptImage \/ NothingToDecode \/ DecryptFile \/ DecryptRound \/ DecryptEnds

Spec == Init /\ [][Next]_vars /\ WF_vars(Next)

-----------------------------------------------------------------------------
(* Properties *)

InImage == side # 0
InFile == side = 0 /\ (pc = "file" \/ pc = "done")

\* Types of the state: a request never writes more than the length of its blob.
TypeOK ==
  /\ pc \in {"encrypt", "magic", "chunks", "image", "file", "done", "panic", "refused"}
  /\ size \in Sizes /\ skip \in Skips
  /\ unread \in Nat /\ cipher \in Nat
  /\ side \in Nat /\ deflated \in Nat /\ uncompressed \in Nat /\ decoded \in Nat
  /\ fed \in Nat /\ skipBytes \in Nat /\ delivered \in Nat
  /\ streamLen \in Int /\ (InImage => streamLen \in Nat)
  /\ cut \in BOOLEAN

\* "expected to always return a multiple of cb.Blocksize": the cipher is fed
\* whole blocks, by either reader, at the end of the data as well.
ReadsAreAligned == cipher % Block = 0 /\ fed % Block = 0

\* A request is given the bytes of the blob that were decrypted, after those it
\* skips, and neither padding nor anything of the image beyond it.
NothingInvented ==
  InImage => /\ skip - skipBytes + delivered = Least(size, Released(fed))
             /\ delivered > 0 => skipBytes = 0

\* DecryptStream returns only when it has written all that was asked for.
EndsOnlyWhenWhole ==
  InImage /\ pc = "done" => delivered = size - Least(size, skip)

\* A complete image is only lost when it has no room for a block more than those
\* of the data, and then all but the last block of the data are delivered.
CompleteWithRoom ==
  InImage /\ pc = "panic" /\ ~ cut =>
    /\ Bpp * side * side < Block * ((size + Block - 1) \div Block) + Block
    /\ Released(fed) >= size - Block

\* hgmcmd decrypt gives back what was encrypted, but for the last block of a file
\* that fills its last buffer: it is kept back, whether data or only padding.
FileComesBack ==
  InFile /\ pc = "done" =>
    /\ cipher % Buf # 0 => delivered = cipher
    /\ cipher % Buf = 0 => delivered = cipher - Block

\* The decoder holds no more than it was told to keep, twice, and a scanline.
BufferBounded == decoded < 2 * Feed + slSize /\ uncompressed <= slSize

\* InitReader has come to the end of the download between two chunks.
Spins == pc = "chunks" /\ cut

\* Every request ends, unless its download ends in the header of the image.
RequestEnds == <>(pc \in {"done", "panic", "refused"} \/ Spins)

\* InitReader is to "Read the initial PNG magic and seek to the IDAT marker": once
\* it has the magic it comes to the pixels, or it refuses.  (It does not.)
HeaderIsRead == pc = "chunks" ~> pc \in {"image", "refused"}

\* "We expect to get padded data, so no need to call Finish": what was encrypted
\* comes back unless the download is cut.  (It does not.)
BlobsComeBack == pc = "panic" => cut

=============================================================================
