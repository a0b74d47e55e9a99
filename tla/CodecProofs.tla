---------------------------- MODULE CodecProofs ----------------------------
(***************************************************************************)
(* Theorems about Codec, for blocks, buffers, blobs and images of every    *)
(* size.  All of it is counting in whole blocks, and the lemmas at the     *)
(* head say what is needed of multiples.                                   *)
(***************************************************************************)
EXTENDS Codec, TLAPS

-----------------------------------------------------------------------------
(* Multiples *)

LEMMA Division ==
  ASSUME NEW x \in Nat, NEW b \in Nat \ {0}
  PROVE  /\ x = (b * (x \div b)) + (x % b)
         /\ x % b \in 0 .. b - 1
         /\ x \div b \in Nat
OBVIOUS

LEMMA ProductIsMultiple ==
  ASSUME NEW q \in Int, NEW b \in Nat \ {0}
  PROVE  (b * q) % b = 0
OBVIOUS

LEMMA PartOfSum ==
  ASSUME NEW p \in Nat, NEW d \in Nat, NEW q \in Nat, NEW u \in Nat, NEW k \in Nat,
         NEW s \in Nat, NEW f \in Nat,
         p + d + q = u + k, u <= s, k <= f
  PROVE  p <= s + f
OBVIOUS

LEMMA ProductIsNat ==
  ASSUME NEW x \in Nat, NEW y \in Nat
  PROVE  x * y \in Nat
OBVIOUS

LEMMA Distributes ==
  ASSUME NEW a \in Int, NEW q \in Int, NEW r \in Int
  PROVE  a * (q + r) = a * q + a * r /\ a * (q - r) = a * q - a * r
OBVIOUS

LEMMA SumIsMultiple ==
  ASSUME NEW b \in Nat \ {0}, NEW x \in Nat, NEW y \in Nat, x % b = 0, y % b = 0
  PROVE  (x + y) % b = 0 /\ (x - y) % b = 0
<1> DEFINE p == x \div b
           q == y \div b
<1>1. x = b * p /\ y = b * q /\ p \in Nat /\ q \in Nat
  BY Division
<1> HIDE DEF p, q
<1>2. x + y = b * (p + q) /\ x - y = b * (p - q)
  BY <1>1, Distributes
<1> QED
  BY <1>1, <1>2, ProductIsMultiple

\* A positive multiple is no less than one.
LEMMA LeastMultiple ==
  ASSUME NEW b \in Nat \ {0}, NEW x \in Nat \ {0}, x % b = 0
  PROVE  x >= b
<1> DEFINE p == x \div b
<1>1. x = b * p /\ p \in Nat
  BY Division
<1> HIDE DEF p
<1>2. p # 0
  BY <1>1
<1>3. PICK q \in Nat : p = q + 1
  BY <1>1, <1>2
<1>4. x = b * q + b
  BY <1>1, <1>3, Distributes
<1>5. b * q >= 0
  OBVIOUS
<1> QED
  BY <1>4, <1>5

\* Factors have the sign of their product.
LEMMA PositiveFactor ==
  ASSUME NEW b \in Nat \ {0}, NEW q \in Int, b * q >= 0
  PROVE  q >= 0
<1>1. SUFFICES ASSUME q < 0 PROVE FALSE
  OBVIOUS
<1>2. PICK p \in Nat : q = -1 - p
  <2>1. -1 - q \in Nat /\ q = -1 - (-1 - q)
    BY <1>1
  <2> QED
    BY <2>1
<1>3. b * q = b * (-1) - b * p
  BY <1>2, Distributes
<1>4. b * p \in Nat /\ b * (-1) = 0 - b
  BY ProductIsNat
<1> QED
  BY <1>3, <1>4

\* Between two multiples there is room for one.
LEMMA MultiplesAreApart ==
  ASSUME NEW b \in Nat \ {0}, NEW x \in Nat, NEW y \in Nat,
         x % b = 0, y % b = 0, x < y
  PROVE  x + b <= y
<1> DEFINE d == y - x
<1>1. d % b = 0
  BY SumIsMultiple
<1>2. d \in Nat \ {0}
  OBVIOUS
<1> HIDE DEF d
<1>3. d >= b
  BY <1>1, <1>2, LeastMultiple
<1> QED
  BY <1>3 DEF d

-----------------------------------------------------------------------------
(* Reading: whole blocks, at least one *)

LEMMA BufHoldsABlock == Buf >= Block
  BY CodecAssumption, LeastMultiple

\* What paddingReader makes of a read, and that no byte of it gets lost.
LEMMA PaddedIsWholeBlocks ==
  ASSUME NEW rb \in 1 .. Buf
  PROVE  /\ Padded(rb) \in Nat /\ Padded(rb) % Block = 0
         /\ Padded(rb) >= Block /\ Padded(rb) >= rb
<1>1. CASE rb = Buf
  BY <1>1, BufHoldsABlock, CodecAssumption DEF Padded
<1>2. CASE rb < Buf
  <2> DEFINE q == rb \div Block
  <2>1. rb \in Nat /\ Block \in Nat \ {0} /\ Buf \in Nat
    BY CodecAssumption
  <2>2. rb = (Block * q) + (rb % Block) /\ rb % Block < Block /\ q \in Nat
    BY <2>1, Division
  <2>3. Padded(rb) = Block * (q + 1)
    BY <1>2 DEF Padded
  <2> HIDE DEF q
  <2>4. Block * (q + 1) = Block * q + Block /\ Block * q \in Nat
    BY <2>1, <2>2, Distributes
  <2>5. (Block * (q + 1)) % Block = 0
    BY <2>1, <2>2, ProductIsMultiple
  <2> QED
    BY <2>1, <2>2, <2>3, <2>4, <2>5
<1> QED
  BY <1>1, <1>2, CodecAssumption

\* What the PNG decoder hands out, and that it had it.
LEMMA HandoutIsWholeBlocks ==
  ASSUME decoded \in Nat, decoded >= Block
  PROVE  /\ Handout \in Nat /\ Handout % Block = 0
         /\ Handout >= Block /\ Handout <= decoded
<1> DEFINE q == decoded \div Block
<1>1. Block \in Nat \ {0} /\ Buf \in Nat /\ Buf % Block = 0
  BY CodecAssumption
<1>2. decoded = (Block * q) + (decoded % Block) /\ decoded % Block \in 0 .. Block - 1 /\ q \in Nat
  BY <1>1, Division
<1>3. Handout = Least(Block * q, Buf)
  BY DEF Handout
<1> HIDE DEF q
<1>4. Block * q \in Nat /\ (Block * q) % Block = 0
  BY <1>1, <1>2, ProductIsMultiple
<1>5. Block * q # 0
  BY <1>1, <1>2, <1>4
<1>6. Block * q >= Block
  BY <1>1, <1>4, <1>5, LeastMultiple
<1> QED
  BY <1>1, <1>2, <1>3, <1>4, <1>6, BufHoldsABlock DEF Least

\* DecryptUpdate releases whole blocks, and none it released before.
LEMMA ReleasesGrow ==
  ASSUME fed \in Nat, fed % Block = 0,
         NEW br \in Nat, br % Block = 0, br >= Block
  PROVE  /\ fed + br \in Nat /\ (fed + br) % Block = 0
         /\ Released(fed) \in Nat /\ Released(fed + br) \in Nat
         /\ Released(fed) <= Released(fed + br)
         /\ Released(fed + br) = fed + br - Block
<1>1. Block \in Nat \ {0}
  BY CodecAssumption
<1>2. (fed + br) % Block = 0
  BY <1>1, SumIsMultiple
<1>3. fed = 0 \/ fed >= Block
  BY <1>1, LeastMultiple
<1> QED
  BY <1>1, <1>2, <1>3 DEF Released

-----------------------------------------------------------------------------
(* The inductive invariant *)

\* Nothing is decrypted before everything is encrypted.
StartFits ==
  /\ side = 0 => pc \in {"encrypt", "file", "done"}
  /\ pc = "encrypt" =>
       side = 0 /\ fed = 0 /\ streamLen = -1 /\ skipBytes = 0 /\ delivered = 0

\* The stream's remaining length is what was not released yet, and the request
\* goes on as long as there is some.
ImageFits ==
  side # 0 =>
    /\ pc \in {"magic", "chunks", "image", "done", "panic", "refused"}
    /\ streamLen = size - Least(size, Released(fed))
    /\ pc = "done" <=> streamLen = 0

CodecInv == TypeOK /\ ReadsAreAligned /\ StartFits /\ ImageFits /\ NothingInvented

LEMMA InitCodecInv == Init => CodecInv
<1> SUFFICES ASSUME Init PROVE CodecInv
  OBVIOUS
<1>1. 0 % Block = 0
  BY CodecAssumption
<1>2. ReadsAreAligned
  BY <1>1 DEF Init, ReadsAreAligned
<1>3. TypeOK
  <2>1. size \in Nat
    BY CodecAssumption DEF Init
  <2>2. cut \in BOOLEAN
    BY Zenon DEF Init
  <2>3. streamLen \in Int
    BY SMT DEF Init
  <2>4. /\ pc \in {"encrypt", "magic", "chunks", "image", "file", "done", "panic", "refused"}
        /\ size \in Sizes /\ skip \in Skips
    BY DEF Init
  <2>5. /\ unread \in Nat /\ cipher \in Nat
        /\ side \in Nat /\ deflated \in Nat /\ uncompressed \in Nat /\ decoded \in Nat
        /\ fed \in Nat /\ skipBytes \in Nat /\ delivered \in Nat
    BY <2>1 DEF Init
  <2> QED
    BY <2>2, <2>3, <2>4, <2>5 DEF TypeOK, InImage, Init
<1> QED
  BY <1>2, <1>3 DEF Init, CodecInv, StartFits, ImageFits, NothingInvented, InImage

LEMMA EncryptCodecInv == CodecInv /\ Encrypt => CodecInv'
<1> SUFFICES ASSUME CodecInv, Encrypt PROVE CodecInv'
  OBVIOUS
<1> USE DEF CodecInv
<1>1. BytesRead \in 1 .. Buf /\ BytesRead <= unread
  BY BufHoldsABlock, CodecAssumption DEF BytesRead, Least, TypeOK, Encrypt
<1>2. Padded(BytesRead) \in Nat /\ Padded(BytesRead) % Block = 0
  BY <1>1, PaddedIsWholeBlocks
<1>3. cipher' \in Nat /\ cipher' % Block = 0
  <2>1. cipher' = cipher + Padded(BytesRead) /\ cipher \in Nat /\ cipher % Block = 0
    BY DEF Encrypt, TypeOK, ReadsAreAligned
  <2> QED
    BY <1>2, <2>1, SumIsMultiple, CodecAssumption
<1>4. unread' \in Nat
  BY <1>1 DEF Encrypt, TypeOK
<1> QED
  BY <1>3, <1>4 DEF Encrypt, TypeOK, ReadsAreAligned, StartFits, ImageFits, NothingInvented,
     InImage, image, worker

LEMMA MakeImageCodecInv == CodecInv /\ MakeImage => CodecInv'
<1> SUFFICES ASSUME CodecInv, MakeImage PROVE CodecInv'
  OBVIOUS
<1> USE DEF CodecInv
<1>1. side' \in Nat \ {0} /\ side' \in 1 .. cipher
  BY DEF MakeImage, SideFor, TypeOK
<1>2. deflated' \in Nat
  <2>1. Bpp * side' \in Nat
    BY <1>1, ProductIsNat, CodecAssumption
  <2>2. side' * (Bpp * side' + 1) \in Nat
    BY <1>1, <2>1, ProductIsNat
  <2> QED
    BY <2>2 DEF MakeImage
<1>3. fed' = 0 /\ Released(fed') = 0 /\ Least(size', Released(fed')) = 0
  BY CodecAssumption DEF MakeImage, StartFits, TypeOK, Released, Least
<1>4. size \in Nat /\ skip \in Nat
  BY CodecAssumption DEF TypeOK
<1>5. TypeOK'
  BY <1>1, <1>2, <1>4 DEF MakeImage, TypeOK
<1>6. size' \in Nat \ {0} /\ skip' \in Nat
  BY CodecAssumption DEF MakeImage, TypeOK
<1> QED
  BY <1>1, <1>3, <1>5, <1>6 DEF MakeImage, TypeOK, ReadsAreAligned, StartFits, ImageFits,
     NothingInvented, InImage

LEMMA InflateCodecInv == CodecInv /\ Inflate => CodecInv'
<1> SUFFICES ASSUME CodecInv, Inflate PROVE CodecInv'
  OBVIOUS
<1> USE DEF CodecInv
<1>1. PICK k \in 1 .. Least(Feed, deflated) :
        /\ deflated' = deflated - k
        /\ uncompressed' = (uncompressed + k) % (slSize + 1)
        /\ decoded' = decoded + slSize * ((uncompressed + k) \div (slSize + 1))
  BY DEF Inflate
<1>2. k \in Nat /\ k <= deflated
  BY <1>1, CodecAssumption DEF Least, TypeOK
<1>3. slSize \in Nat
  BY CodecAssumption DEF slSize, TypeOK
<1> DEFINE sl == slSize
           d == (uncompressed + k) \div (sl + 1)
<1>4. d \in Nat /\ (uncompressed + k) % (sl + 1) \in Nat
  <2>1. uncompressed + k \in Nat /\ sl + 1 \in Nat \ {0}
    BY <1>2, <1>3 DEF TypeOK
  <2> QED
    BY <2>1, Division
<1>5. slSize * d \in Nat
  <2> HIDE DEF d
  <2> QED
    BY <1>3, <1>4
<1>6. deflated' \in Nat /\ uncompressed' \in Nat /\ decoded' \in Nat
  BY <1>1, <1>2, <1>4, <1>5 DEF TypeOK
<1> QED
  BY <1>6 DEF Inflate, TypeOK, ReadsAreAligned, StartFits, ImageFits, NothingInvented,
     InImage, worker

LEMMA HeaderCodecInv == CodecInv /\ (ReadMagic \/ ReadChunks \/ HeaderEnds) => CodecInv'
BY DEF CodecInv, ReadMagic, ReadChunks, HeaderEnds, TypeOK, ReadsAreAligned, StartFits,
   ImageFits, NothingInvented, InImage, image, worker

LEMMA CutCodecInv == CodecInv /\ Cut => CodecInv'
BY DEF CodecInv, Cut, TypeOK, ReadsAreAligned, StartFits, ImageFits, NothingInvented,
   InImage, worker

\* A round of decryption for a request: what is released belongs to it until the
\* blob ends.
LEMMA DecryptImageCodecInv == CodecInv /\ DecryptImage => CodecInv'
<1> SUFFICES ASSUME CodecInv, DecryptImage PROVE CodecInv'
  OBVIOUS
<1> USE DEF CodecInv
<1> DEFINE br == Handout
           out == Released(fed + br) - Released(fed)
           wTo == IF streamLen > -1 /\ out > streamLen THEN streamLen ELSE out
           skipped == Least(wTo, skipBytes)
<1>1. br \in Nat /\ br % Block = 0 /\ br >= Block /\ br <= decoded
  BY HandoutIsWholeBlocks DEF DecryptImage, TypeOK
<1>2. fed \in Nat /\ fed % Block = 0
  BY DEF TypeOK, ReadsAreAligned
<1>3. /\ fed + br \in Nat /\ (fed + br) % Block = 0
      /\ Released(fed) \in Nat /\ Released(fed + br) \in Nat
      /\ Released(fed) <= Released(fed + br)
  BY <1>1, <1>2, ReleasesGrow
<1>4. /\ fed' = fed + br
      /\ skipBytes' = skipBytes - skipped
      /\ streamLen' = streamLen - wTo
      /\ delivered' = delivered + wTo - skipped
  BY DEF DecryptImage, Decrypt
<1>5. /\ pc' = IF streamLen' = 0 THEN "done" ELSE pc
      /\ decoded' = decoded - br
      /\ pc = "image"
      /\ UNCHANGED <<size, skip, unread, cipher, side, deflated, uncompressed, cut>>
  BY DEF DecryptImage
<1>6. side # 0
  BY <1>5 DEF StartFits
<1>7. size \in Nat \ {0} /\ skip \in Nat /\ skipBytes \in Nat /\ delivered \in Nat
  BY CodecAssumption DEF TypeOK
<1>8. /\ streamLen = size - Least(size, Released(fed)) /\ streamLen # 0
      /\ skip - skipBytes + delivered = Least(size, Released(fed))
      /\ delivered > 0 => skipBytes = 0
  BY <1>5, <1>6 DEF ImageFits, NothingInvented, InImage
<1> HIDE DEF br
<1>9. out \in Nat
  BY <1>3
<1>10. wTo = Least(streamLen, out)
  BY <1>3, <1>7, <1>8, <1>9 DEF Least
<1>11. wTo \in Nat
  BY <1>3, <1>7, <1>8, <1>9, <1>10 DEF Least
<1>12. Least(size, Released(fed + br)) = Least(size, Released(fed)) + wTo
  BY <1>3, <1>7, <1>8, <1>10 DEF Least
<1> HIDE DEF out, wTo
<1>13. skipped \in Nat /\ skipped <= wTo /\ skipped <= skipBytes
       /\ (skipped < wTo => skipBytes - skipped = 0)
  BY <1>7, <1>11 DEF Least
<1> HIDE DEF skipped
<1> DEFINE before == Least(size, Released(fed))
           after == Least(size, Released(fed + br))
<1>14. before \in Nat /\ after \in Nat
  BY <1>3, <1>7 DEF Least
<1>15. Least(size, Released(fed')) = after
  BY <1>4
<1> HIDE DEF before, after
<1>16. before + wTo = after
  BY <1>12 DEF before, after
<1>17. /\ skip - skipBytes + delivered = before
       /\ streamLen = size - before
       /\ delivered > 0 => skipBytes = 0
  BY <1>8 DEF before
<1>18. /\ skip - skipBytes' + delivered' = after
       /\ streamLen' = size - after
       /\ skipBytes' \in Nat /\ delivered' \in Nat /\ streamLen' \in Nat
  <2>1. after <= size
    BY <1>3, <1>7 DEF after, Least
  <2> QED
    BY <1>4, <1>7, <1>11, <1>13, <1>14, <1>16, <1>17, <2>1
<1>19. delivered' > 0 => skipBytes' = 0
  BY <1>4, <1>7, <1>11, <1>13, <1>17
<1>20. decoded' \in Nat
  BY <1>1, <1>5 DEF TypeOK
<1>21. TypeOK'
  BY <1>3, <1>4, <1>5, <1>18, <1>20 DEF TypeOK
<1>22. ReadsAreAligned'
  BY <1>3, <1>4, <1>5 DEF ReadsAreAligned
<1>23. StartFits' /\ ImageFits' /\ NothingInvented'
  BY <1>5, <1>6, <1>15, <1>18, <1>19 DEF StartFits, ImageFits, NothingInvented, InImage
<1> QED
  BY <1>21, <1>22, <1>23

LEMMA NothingToDecodeCodecInv == CodecInv /\ NothingToDecode => CodecInv'
BY DEF CodecInv, NothingToDecode, TypeOK, ReadsAreAligned, StartFits, ImageFits,
   NothingInvented, InImage, image, worker

LEMMA DecryptFileCodecInv == CodecInv /\ DecryptFile => CodecInv'
BY DEF CodecInv, DecryptFile, TypeOK, ReadsAreAligned, StartFits, ImageFits,
   NothingInvented, InImage, image, worker

LEMMA DecryptEndsCodecInv == CodecInv /\ DecryptEnds => CodecInv'
BY DEF CodecInv, DecryptEnds, TypeOK, ReadsAreAligned, StartFits, ImageFits,
   NothingInvented, InImage, image, worker

\* A round of hgmcmd decrypt.
LEMMA DecryptRoundCodecInv == CodecInv /\ DecryptRound => CodecInv'
<1> SUFFICES ASSUME CodecInv, DecryptRound PROVE CodecInv'
  OBVIOUS
<1> USE DEF CodecInv
<1> DEFINE br == Padded(BytesRead)
           out == Released(fed + br) - Released(fed)
           wTo == IF streamLen > -1 /\ out > streamLen THEN streamLen ELSE out
           skipped == Least(wTo, skipBytes)
<1>1. BytesRead \in 1 .. Buf /\ BytesRead <= unread
  BY BufHoldsABlock, CodecAssumption DEF BytesRead, Least, TypeOK, DecryptRound
<1>2. br \in Nat /\ br % Block = 0 /\ br >= Block
  BY <1>1, PaddedIsWholeBlocks
<1>3. fed \in Nat /\ fed % Block = 0
  BY DEF TypeOK, ReadsAreAligned
<1>4. /\ fed + br \in Nat /\ (fed + br) % Block = 0
      /\ Released(fed) \in Nat /\ Released(fed + br) \in Nat
      /\ Released(fed) <= Released(fed + br)
  BY <1>2, <1>3, ReleasesGrow
<1>5. /\ fed' = fed + br
      /\ skipBytes' = skipBytes - skipped
      /\ streamLen' = streamLen - wTo
      /\ delivered' = delivered + wTo - skipped
  BY DEF DecryptRound, Decrypt
<1>6. pc = "file" /\ UNCHANGED <<pc, size, skip, cipher, image, cut>>
  BY DEF DecryptRound
<1> HIDE DEF br
<1>7. out \in Nat /\ streamLen \in Int /\ skipBytes \in Nat /\ delivered \in Nat
  BY <1>4 DEF TypeOK
<1>8. wTo \in Nat
  BY <1>7
<1> HIDE DEF out, wTo
<1>9. skipped \in Nat /\ skipped <= wTo /\ skipped <= skipBytes
  BY <1>7, <1>8 DEF Least
<1> HIDE DEF skipped
<1>10. skipBytes' \in Nat /\ delivered' \in Nat /\ streamLen' \in Int
  BY <1>5, <1>7, <1>8, <1>9
<1>11. unread' \in Nat
  BY <1>1 DEF DecryptRound, TypeOK
<1>12. side = 0 /\ side' = 0
  BY <1>6 DEF ImageFits, image
<1>13. TypeOK'
  BY <1>4, <1>5, <1>6, <1>10, <1>11, <1>12 DEF TypeOK, InImage, image
<1>14. ReadsAreAligned'
  BY <1>4, <1>5, <1>6 DEF ReadsAreAligned
<1> QED
  BY <1>6, <1>12, <1>13, <1>14 DEF StartFits, ImageFits, NothingInvented, InImage

LEMMA NextCodecInv == CodecInv /\ [Next]_vars => CodecInv'
<1> SUFFICES ASSUME CodecInv, [Next]_vars PROVE CodecInv'
  OBVIOUS
<1>1. CASE UNCHANGED vars
  BY <1>1 DEF CodecInv, TypeOK, ReadsAreAligned, StartFits, ImageFits, NothingInvented,
     InImage, vars, image, worker
<1> QED
  BY <1>1, EncryptCodecInv, MakeImageCodecInv, HeaderCodecInv, InflateCodecInv, CutCodecInv,
     DecryptImageCodecInv, NothingToDecodeCodecInv, DecryptFileCodecInv,
     DecryptRoundCodecInv, DecryptEndsCodecInv DEF Next

LEMMA CodecInvariant == Spec => []CodecInv
<1> QED
  BY InitCodecInv, NextCodecInv, PTL DEF Spec

-----------------------------------------------------------------------------
(* Scanlines *)

\* While the download is not cut, what is still to be inflated are r scanlines,
\* and the pixels add up to the image, which holds all that was encrypted.
Scanlines(r) ==
  /\ deflated + uncompressed = (slSize + 1) * r
  /\ fed + decoded + slSize * r = slSize * side

RoomFits ==
  /\ pc = "encrypt" => unread <= size /\ cipher + unread >= size
  /\ side = 0 => uncompressed = 0 /\ decoded = 0
  /\ side # 0 => size <= cipher /\ cipher <= slSize * side
  /\ side # 0 /\ ~ cut => \E r \in Nat : Scanlines(r)

RoomInv == CodecInv /\ RoomFits /\ BufferBounded

LEMMA ScanlineIsNat == TypeOK => slSize \in Nat /\ slSize * side \in Nat
BY ProductIsNat, CodecAssumption DEF TypeOK, slSize

LEMMA InitRoomInv == Init => RoomInv
<1> SUFFICES ASSUME Init PROVE RoomInv
  OBVIOUS
<1>1. CodecInv
  BY InitCodecInv
<1>2. size \in Nat
  BY CodecAssumption DEF Init
<1>3. RoomFits
  BY <1>2 DEF Init, RoomFits
<1>4. slSize \in Nat /\ Feed \in Nat \ {0}
  BY <1>1, ScanlineIsNat, CodecAssumption DEF CodecInv
<1>5. BufferBounded
  BY <1>4 DEF Init, BufferBounded
<1> QED
  BY <1>1, <1>3, <1>5 DEF RoomInv

\* Steps that leave the image alone.
LEMMA EncryptRoomInv == RoomInv /\ Encrypt => RoomInv'
<1> SUFFICES ASSUME RoomInv, Encrypt PROVE RoomInv'
  OBVIOUS
<1>1. CodecInv'
  BY EncryptCodecInv DEF RoomInv
<1>2. BytesRead \in 1 .. Buf /\ BytesRead <= unread
  BY BufHoldsABlock, CodecAssumption DEF BytesRead, Least, TypeOK, Encrypt, RoomInv, CodecInv
<1>3. Padded(BytesRead) \in Nat /\ Padded(BytesRead) >= BytesRead
  BY <1>2, PaddedIsWholeBlocks
<1>4. unread \in Nat /\ cipher \in Nat /\ size \in Nat /\ pc = "encrypt" /\ side = 0
  BY CodecAssumption DEF RoomInv, CodecInv, StartFits, TypeOK, Encrypt
<1>5. unread <= size /\ cipher + unread >= size /\ uncompressed = 0 /\ decoded = 0
  BY <1>4 DEF RoomInv, RoomFits
<1>6. /\ cipher' = cipher + Padded(BytesRead) /\ unread' = unread - BytesRead
      /\ UNCHANGED <<pc, size, image>>
  BY DEF Encrypt
<1>7. RoomFits'
  BY <1>2, <1>3, <1>4, <1>5, <1>6 DEF RoomFits, image
<1>8. BufferBounded'
  BY <1>6 DEF RoomInv, BufferBounded, image, slSize
<1> QED
  BY <1>1, <1>7, <1>8 DEF RoomInv

LEMMA MakeImageRoomInv == RoomInv /\ MakeImage => RoomInv'
<1> SUFFICES ASSUME RoomInv, MakeImage PROVE RoomInv'
  OBVIOUS
<1>1. CodecInv'
  BY MakeImageCodecInv DEF RoomInv
<1>2. /\ unread = 0 /\ pc = "encrypt" /\ side = 0 /\ fed = 0
      /\ cipher \in Nat /\ size \in Nat /\ Feed \in Nat \ {0}
  BY CodecAssumption DEF RoomInv, CodecInv, StartFits, TypeOK, MakeImage
<1>3. size <= cipher /\ uncompressed = 0 /\ decoded = 0
  BY <1>2 DEF RoomInv, RoomFits
<1>4. /\ side' \in SideFor(cipher)
      /\ deflated' = side' * (Bpp * side' + 1)
      /\ UNCHANGED <<size, cipher, uncompressed, decoded, fed, cut>>
      /\ pc' = "magic"
  BY DEF MakeImage
<1>5. side' \in Nat \ {0} /\ Bpp * side' * side' >= cipher
  BY <1>2, <1>4 DEF SideFor
<1>6. PICK w \in Nat \ {0} : w = side'
  BY <1>5
<1> DEFINE sl == Bpp * w
<1>7. slSize' = sl /\ sl \in Nat /\ sl * w \in Nat /\ (sl + 1) * w \in Nat
  <2>1. slSize' = sl /\ sl \in Nat
    BY <1>6, ProductIsNat, CodecAssumption DEF slSize
  <2> HIDE DEF sl
  <2>2. sl * w \in Nat
    BY <1>6, <2>1, ProductIsNat
  <2>3. sl + 1 \in Nat
    BY <2>1
  <2>4. (sl + 1) * w \in Nat
    BY <1>6, <2>3, ProductIsNat
  <2> QED
    BY <2>1, <2>2, <2>4
<1>8. w * (sl + 1) = (sl + 1) * w /\ sl * w >= cipher
  BY <1>5, <1>6, <1>7
<1> HIDE DEF sl
<1>9. Scanlines(w)'
  <2>1. deflated' + uncompressed' = (slSize' + 1) * w
    <3>1. deflated' = w * (sl + 1)
      BY <1>4, <1>6 DEF sl
    <3> QED
      BY <1>3, <1>4, <1>7, <1>8, <3>1
  <2>2. fed' + decoded' + slSize' * w = slSize' * side'
    BY <1>2, <1>3, <1>4, <1>6, <1>7
  <2> QED
    BY <2>1, <2>2 DEF Scanlines
<1>10. RoomFits'
  BY <1>3, <1>4, <1>6, <1>7, <1>8, <1>9 DEF RoomFits
<1>11. BufferBounded'
  BY <1>2, <1>3, <1>4, <1>7 DEF BufferBounded
<1> QED
  BY <1>1, <1>10, <1>11 DEF RoomInv

\* Inflating turns whole scanlines into pixels, and keeps the rest of one.
LEMMA InflateRoomInv == RoomInv /\ Inflate => RoomInv'
<1> SUFFICES ASSUME RoomInv, Inflate PROVE RoomInv'
  OBVIOUS
<1>1. CodecInv'
  BY InflateCodecInv DEF RoomInv
<1> DEFINE sl == slSize
<1>2. PICK k \in 1 .. Least(Feed, deflated) :
        /\ deflated' = deflated - k
        /\ uncompressed' = (uncompressed + k) % (sl + 1)
        /\ decoded' = decoded + sl * ((uncompressed + k) \div (sl + 1))
  BY DEF Inflate
<1>3. /\ decoded < Feed /\ Feed \in Nat
      /\ pc = "image"
      /\ UNCHANGED <<pc, size, skip, unread, cipher, side, fed, cut>>
  BY CodecAssumption DEF Inflate, worker
<1>4. /\ deflated \in Nat /\ uncompressed \in Nat /\ decoded \in Nat /\ side \in Nat /\ fed \in Nat
      /\ sl \in Nat /\ sl * side \in Nat
      /\ uncompressed <= sl
  BY ScanlineIsNat DEF RoomInv, CodecInv, TypeOK, BufferBounded
<1>5. k \in Nat /\ k <= deflated /\ k <= Feed
  BY <1>2, <1>3, <1>4 DEF Least
<1>6. slSize' = sl
  BY <1>3 DEF slSize
<1> HIDE DEF sl
<1> DEFINE d == (uncompressed + k) \div (sl + 1)
<1>7. /\ uncompressed + k = ((sl + 1) * d) + uncompressed'
      /\ uncompressed' \in 0 .. sl /\ d \in Nat
  <2>1. uncompressed + k \in Nat /\ sl + 1 \in Nat \ {0}
    BY <1>4, <1>5
  <2> DEFINE x == uncompressed + k
             b == sl + 1
  <2>2. x = (b * (x \div b)) + (x % b) /\ x % b \in 0 .. b - 1 /\ x \div b \in Nat
    <3> HIDE DEF x, b
    <3> QED
      BY <2>1, Division DEF x, b
  <2> QED
    BY <1>2, <1>4, <2>2
<1>8. decoded' = decoded + sl * d
  BY <1>2
<1> HIDE DEF d
<1>9. (sl + 1) * d = sl * d + d /\ sl * d \in Nat
  BY <1>4, <1>7, ProductIsNat, Distributes
<1>10. BufferBounded'
  <2>1. sl * d + d + uncompressed' = uncompressed + k
    BY <1>7, <1>9
  <2>2. decoded' < 2 * Feed + sl
    <3>1. PICK pixels \in Nat : pixels = sl * d
      BY <1>9
    <3>2. PICK rest \in Nat : rest = uncompressed'
      BY <1>4, <1>7
    <3>3. /\ decoded \in Nat /\ decoded < Feed /\ Feed \in Nat
          /\ k \in Nat /\ k <= Feed
          /\ uncompressed \in Nat /\ sl \in Nat /\ uncompressed <= sl
      BY <1>3, <1>4, <1>5
    <3>4. pixels + d + rest = uncompressed + k /\ d \in Nat
      BY <1>7, <2>1, <3>1, <3>2
    <3>5. decoded' = decoded + pixels
      BY <1>8, <3>1
    <3>6. pixels <= sl + Feed
      BY <3>3, <3>4, PartOfSum
    <3> QED
      BY <3>3, <3>5, <3>6
  <2> QED
    BY <1>6, <1>7, <2>2 DEF BufferBounded
<1>11. ASSUME ~ cut', side # 0 PROVE \E r \in Nat : Scanlines(r)'
  <2>1. PICK r \in Nat : Scanlines(r)
    BY <1>3, <1>11 DEF RoomInv, RoomFits
  <2>2. /\ deflated + uncompressed = (sl + 1) * r
        /\ fed + decoded + sl * r = sl * side
    BY <2>1 DEF Scanlines, sl
  <2>3. /\ (sl + 1) * (r - d) = (sl + 1) * r - (sl + 1) * d
        /\ sl * (r - d) = sl * r - sl * d
    BY <1>4, <1>7, Distributes
  <2>4. sl * r \in Nat /\ (sl + 1) * r \in Nat
    BY <1>4, ProductIsNat
  <2>5. deflated' + uncompressed' = (sl + 1) * (r - d)
    BY <1>2, <1>4, <1>5, <1>7, <1>9, <2>2, <2>3, <2>4
  <2>6. fed' + decoded' + sl * (r - d) = sl * side
    BY <1>3, <1>4, <1>8, <1>9, <2>2, <2>3, <2>4
  <2>7. r - d \in Nat
    <3>1. (sl + 1) * (r - d) >= 0
      BY <1>2, <1>4, <1>5, <1>7, <2>5
    <3>2. r - d \in Int /\ sl + 1 \in Nat \ {0}
      BY <1>4, <1>7
    <3>3. r - d >= 0
      <4> DEFINE q == r - d
                 b == sl + 1
      <4> HIDE DEF q, b
      <4>1. q >= 0
        BY <3>1, <3>2, PositiveFactor DEF q, b
      <4> QED
        BY <4>1 DEF q
    <3> QED
      BY <3>2, <3>3
  <2>8. PICK q \in Nat : q = r - d
    BY <2>7
  <2>9. Scanlines(q)'
    BY <1>3, <1>6, <2>5, <2>6, <2>8 DEF Scanlines
  <2> QED
    BY <2>8, <2>9
<1>12. RoomFits'
  <2>1. side # 0
    BY <1>3 DEF RoomInv, CodecInv, StartFits
  <2>2. size <= cipher /\ cipher <= slSize * side
    BY <2>1 DEF RoomInv, RoomFits
  <2>3. slSize' * side' = slSize * side
    BY <1>3, <1>6 DEF sl
  <2> QED
    BY <1>3, <1>11, <2>1, <2>2, <2>3 DEF RoomFits
<1> QED
  BY <1>1, <1>10, <1>12 DEF RoomInv

LEMMA CutRoomInv == RoomInv /\ Cut => RoomInv'
<1> SUFFICES ASSUME RoomInv, Cut PROVE RoomInv'
  OBVIOUS
<1>1. CodecInv'
  BY CutCodecInv DEF RoomInv
<1>2. /\ pc = "image" /\ cut' = TRUE
      /\ UNCHANGED <<pc, size, unread, cipher, side, uncompressed, decoded>>
  BY DEF Cut
<1>3. side # 0
  BY <1>2 DEF RoomInv, CodecInv, StartFits
<1> QED
  BY <1>1, <1>2, <1>3 DEF RoomInv, RoomFits, BufferBounded, slSize

\* Decrypting moves bytes from the pixels to the cipher.
LEMMA DecryptImageRoomInv == RoomInv /\ DecryptImage => RoomInv'
<1> SUFFICES ASSUME RoomInv, DecryptImage PROVE RoomInv'
  OBVIOUS
<1>1. CodecInv'
  BY DecryptImageCodecInv DEF RoomInv
<1> DEFINE br == Handout
<1>2. br \in Nat /\ br <= decoded
  BY HandoutIsWholeBlocks DEF DecryptImage, RoomInv, CodecInv, TypeOK
<1>3. /\ fed' = fed + br /\ decoded' = decoded - br
      /\ UNCHANGED <<size, cipher, side, deflated, uncompressed, cut>>
      /\ pc = "image" /\ pc' # "encrypt"
  BY DEF DecryptImage, Decrypt
<1> HIDE DEF br
<1>4. fed \in Nat /\ decoded \in Nat /\ side # 0 /\ slSize \in Nat
  BY <1>3, ScanlineIsNat DEF RoomInv, CodecInv, TypeOK, StartFits
<1>5. slSize' = slSize
  BY <1>3 DEF slSize
<1>6. ASSUME NEW r \in Nat, Scanlines(r) PROVE Scanlines(r)'
  <2>1. fed' + decoded' = fed + decoded
    BY <1>2, <1>3, <1>4
  <2> QED
    BY <1>3, <1>5, <1>6, <2>1 DEF Scanlines
<1>7. RoomFits'
  <2>1. ~ cut' => \E r \in Nat : Scanlines(r)'
    BY <1>3, <1>4, <1>6 DEF RoomInv, RoomFits
  <2> QED
    BY <1>3, <1>4, <1>5, <2>1 DEF RoomInv, RoomFits
<1>8. BufferBounded'
  <2>1. decoded' <= decoded /\ 2 * Feed + slSize \in Nat
    BY <1>2, <1>3, <1>4, CodecAssumption
  <2> QED
    BY <1>2, <1>3, <1>4, <1>5, <2>1 DEF RoomInv, BufferBounded
<1> QED
  BY <1>1, <1>7, <1>8 DEF RoomInv

\* The other steps leave all of it as it is.
LEMMA OtherRoomInv ==
  ASSUME RoomInv,
         \/ ReadMagic \/ ReadChunks \/ HeaderEnds
         \/ NothingToDecode \/ DecryptFile \/ DecryptRound \/ DecryptEnds \/ UNCHANGED vars
  PROVE  RoomInv'
<1>1. CodecInv'
  BY HeaderCodecInv, NothingToDecodeCodecInv, DecryptFileCodecInv, DecryptRoundCodecInv,
     DecryptEndsCodecInv, NextCodecInv DEF RoomInv
<1>2. CASE UNCHANGED vars
  BY <1>1, <1>2 DEF RoomInv, RoomFits, Scanlines, BufferBounded, slSize, vars, image, worker
<1>3. CASE NothingToDecode
  BY <1>1, <1>3 DEF NothingToDecode, RoomInv, RoomFits, Scanlines, BufferBounded, slSize,
     image, worker
<1>4. CASE DecryptFile \/ DecryptRound \/ DecryptEnds
  <2>1. pc \in {"encrypt", "file"} /\ pc' \in {"file", "done"} /\ UNCHANGED <<size, cipher, image>>
    BY <1>4 DEF DecryptFile, DecryptRound, DecryptEnds
  <2>2. side = 0
    BY <2>1 DEF RoomInv, CodecInv, StartFits, ImageFits
  <2> QED
    BY <1>1, <2>1, <2>2 DEF RoomInv, RoomFits, BufferBounded, slSize, image
<1>5. CASE ReadMagic \/ ReadChunks \/ HeaderEnds
  <2>1. pc' # "encrypt" /\ (~ cut' => ~ cut) /\ UNCHANGED <<size, unread, cipher, image, worker>>
    BY <1>5 DEF ReadMagic, ReadChunks, HeaderEnds
  <2> QED
    BY <1>1, <2>1 DEF RoomInv, RoomFits, Scanlines, BufferBounded, slSize, image, worker
<1> QED
  BY <1>2, <1>3, <1>4, <1>5

LEMMA RoomInvariant == Spec => []RoomInv
<1>1. RoomInv /\ [Next]_vars => RoomInv'
  BY EncryptRoomInv, MakeImageRoomInv, InflateRoomInv, CutRoomInv, DecryptImageRoomInv,
     OtherRoomInv DEF Next
<1> QED
  BY <1>1, InitRoomInv, PTL DEF Spec

\* The step to the panic, from an image that was not cut: all its pixels but less
\* than a block were fed to the cipher, and yet some of the blob is missing.
LEMMA LostImageFilled ==
  ASSUME RoomInv, NothingToDecode, ~ cut
  PROVE  /\ slSize * side < Block * ((size + Block - 1) \div Block) + Block
         /\ Released(fed) >= size - Block
<1> DEFINE whole == Block * ((size + Block - 1) \div Block)
<1>1. Block \in Nat \ {0}
  BY CodecAssumption
<1>2. /\ pc = "image" /\ side # 0 /\ deflated = 0 /\ decoded < Block
      /\ decoded \in Nat /\ fed \in Nat /\ fed % Block = 0 /\ uncompressed \in Nat
      /\ cipher \in Nat /\ cipher % Block = 0 /\ size \in Nat \ {0}
      /\ slSize \in Nat /\ slSize * side \in Nat
      /\ uncompressed <= slSize
      /\ size <= cipher /\ cipher <= slSize * side
  <2>1. pc = "image" /\ deflated = 0 /\ decoded < Block
    BY DEF NothingToDecode
  <2>2. side # 0
    BY <2>1 DEF RoomInv, CodecInv, StartFits
  <2> QED
    BY <2>1, <2>2, ScanlineIsNat, CodecAssumption
    DEF RoomInv, RoomFits, CodecInv, TypeOK, ReadsAreAligned, BufferBounded
<1>3. fed + decoded = slSize * side
  <2>1. PICK r \in Nat : Scanlines(r)
    BY <1>2 DEF RoomInv, RoomFits
  <2>2. r = 0
    <3>1. SUFFICES ASSUME r # 0 PROVE FALSE
      OBVIOUS
    <3>2. PICK q \in Nat : r = q + 1
      BY <3>1
    <3>3. slSize + 1 \in Nat /\ (slSize + 1) * r = (slSize + 1) * q + (slSize + 1) * 1
      BY <1>2, <3>2, Distributes
    <3>4. (slSize + 1) * q \in Nat
      BY <3>3, ProductIsNat
    <3>5. uncompressed = (slSize + 1) * r
      BY <1>2, <2>1 DEF Scanlines
    <3> QED
      BY <1>2, <3>3, <3>4, <3>5
  <2>3. slSize * r = 0
    BY <1>2, <2>2
  <2> QED
    BY <1>2, <2>1, <2>3 DEF Scanlines
<1>4. Released(fed) < size
  <2>1. streamLen # 0 /\ streamLen = size - Least(size, Released(fed))
    BY <1>2 DEF RoomInv, CodecInv, ImageFits
  <2>2. Released(fed) \in Int
    BY <1>1, <1>2 DEF Released
  <2> QED
    BY <1>2, <2>1, <2>2 DEF Least
<1>5. fed >= cipher
  <2>1. SUFFICES ASSUME fed < cipher PROVE FALSE
    BY <1>2
  <2>2. fed + Block <= cipher
    BY <1>1, <1>2, <2>1, MultiplesAreApart
  <2> QED
    BY <1>1, <1>2, <1>3, <2>2
<1>6. Released(fed) = fed - Block /\ fed >= Block
  BY <1>1, <1>2, <1>5, LeastMultiple DEF Released
<1>7. whole \in Nat /\ whole % Block = 0 /\ size <= whole
  <2> DEFINE n == size + Block - 1
             q == n \div Block
  <2>1. n \in Nat
    BY <1>1, <1>2
  <2>2. n = (Block * q) + (n % Block) /\ n % Block \in 0 .. Block - 1 /\ q \in Nat
    <3> HIDE DEF n
    <3> QED
      BY <1>1, <2>1, Division
  <2> HIDE DEF q
  <2>3. Block * q \in Nat /\ (Block * q) % Block = 0
    BY <1>1, <2>2, ProductIsNat, ProductIsMultiple
  <2>4. size <= Block * q
    BY <1>1, <1>2, <2>2, <2>3
  <2> QED
    BY <2>3, <2>4 DEF q
<1> HIDE DEF whole
<1>8. fed <= whole
  <2>1. (fed - Block) % Block = 0 /\ fed - Block \in Nat
    <3>1. Block % Block = 0
      BY <1>1
    <3>2. (fed - Block) % Block = 0
      BY <1>1, <1>2, <3>1, SumIsMultiple
    <3> QED
      BY <1>1, <1>2, <1>6, <3>2
  <2>2. fed - Block < whole
    BY <1>2, <1>4, <1>6, <1>7, <2>1
  <2>3. (fed - Block) + Block <= whole
    <3> DEFINE x == fed - Block
    <3> HIDE DEF x
    <3>1. x + Block <= whole
      BY <1>1, <1>7, <2>1, <2>2, MultiplesAreApart DEF x
    <3> QED
      BY <3>1 DEF x
  <2> QED
    BY <1>1, <1>2, <2>3
<1>9. slSize * side < whole + Block
  BY <1>1, <1>2, <1>3, <1>7, <1>8
<1>10. Released(fed) >= size - Block
  BY <1>1, <1>2, <1>5, <1>6
<1> QED
  BY <1>9, <1>10 DEF whole

-----------------------------------------------------------------------------
(* hgmcmd decrypt *)

\* It reads whole buffers until the last one, which is padded unless it is full.
FileFits ==
  InFile =>
    /\ cipher # 0 /\ skipBytes = 0 /\ streamLen < 0
    /\ delivered = Released(fed)
    /\ unread % Block = 0
    /\ unread # 0 => fed = cipher - unread /\ fed % Buf = 0
    /\ unread = 0 => fed = IF cipher % Buf = 0 THEN cipher ELSE cipher + Block
    /\ pc = "done" => unread = 0

FileInv == RoomInv /\ FileFits

LEMMA DecryptFileFileInv == FileInv /\ DecryptFile => FileInv'
<1> SUFFICES ASSUME FileInv, DecryptFile PROVE FileInv'
  OBVIOUS
<1>1. RoomInv'
  BY OtherRoomInv DEF FileInv
<1>2. /\ pc = "encrypt" /\ unread = 0 /\ unread' = cipher
      /\ UNCHANGED <<cipher, image, worker>>
  BY DEF DecryptFile
<1>3. /\ fed = 0 /\ streamLen = -1 /\ skipBytes = 0 /\ delivered = 0
      /\ cipher \in Nat /\ cipher % Block = 0 /\ size \in Nat \ {0}
  BY <1>2, CodecAssumption
  DEF FileInv, RoomInv, CodecInv, StartFits, ReadsAreAligned, TypeOK
<1>4. cipher # 0
  BY <1>2, <1>3 DEF FileInv, RoomInv, RoomFits
<1>5. 0 % Buf = 0
  BY CodecAssumption
<1>6. pc' # "done"
  BY DEF DecryptFile
<1>7. FileFits'
  BY <1>2, <1>3, <1>4, <1>5, <1>6 DEF FileFits, Released, worker
<1> QED
  BY <1>1, <1>7 DEF FileInv

\* What a round releases is written, all of it.
LEMMA DecryptRoundFileInv == FileInv /\ DecryptRound => FileInv'
<1> SUFFICES ASSUME FileInv, DecryptRound PROVE FileInv'
  OBVIOUS
<1>1. RoomInv'
  BY OtherRoomInv DEF FileInv
<1> DEFINE br == Padded(BytesRead)
           out == Released(fed + br) - Released(fed)
<1>2. /\ pc = "file" /\ side = 0 /\ unread # 0
      /\ unread' = unread - BytesRead
      /\ UNCHANGED <<pc, size, cipher, side>>
  BY DEF DecryptRound, image, FileInv, RoomInv, CodecInv, ImageFits
<1>3. /\ cipher # 0 /\ skipBytes = 0 /\ streamLen < 0
      /\ delivered = Released(fed)
      /\ unread % Block = 0
      /\ fed = cipher - unread /\ fed % Buf = 0
  BY <1>2 DEF FileInv, FileFits, InFile
<1>4. /\ fed \in Nat /\ fed % Block = 0 /\ unread \in Nat /\ cipher \in Nat /\ streamLen \in Int
      /\ Block \in Nat \ {0} /\ Buf \in Nat \ {0} /\ Buf % Block = 0
  BY CodecAssumption DEF FileInv, RoomInv, CodecInv, TypeOK, ReadsAreAligned
<1>5. BytesRead \in 1 .. Buf /\ BytesRead <= unread
  BY <1>2, <1>4 DEF BytesRead, Least
<1>6. br \in Nat /\ br % Block = 0 /\ br >= Block
  BY <1>5, PaddedIsWholeBlocks
<1>7. out \in Nat /\ fed + br \in Nat
  BY <1>4, <1>6, ReleasesGrow
<1>8. /\ fed' = fed + br
      /\ skipBytes' = 0 /\ streamLen' < 0
      /\ delivered' = Released(fed')
  <2>1. /\ fed' = fed + br
        /\ skipBytes' = skipBytes - Least(out, skipBytes)
        /\ streamLen' = streamLen - out
        /\ delivered' = delivered + out - Least(out, skipBytes)
    <3>1. ~ (streamLen > -1)
      BY <1>3, <1>4
    <3> QED
      BY <3>1 DEF DecryptRound, Decrypt
  <2>2. Released(fed) \in Nat /\ Released(fed + br) \in Nat
    BY <1>4, <1>6, ReleasesGrow
  <2>3. Least(out, skipBytes) = 0
    BY <1>3, <1>7 DEF Least
  <2> QED
    BY <1>3, <1>4, <1>7, <2>1, <2>2, <2>3
<1>9. CASE unread >= Buf
  <2>1. BytesRead = Buf /\ br = Buf
    BY <1>4, <1>9 DEF BytesRead, Least, Padded
  <2>2. unread' = unread - Buf /\ unread' \in Nat /\ fed' = cipher - unread'
    BY <1>2, <1>3, <1>4, <1>8, <1>9, <2>1
  <2>3. fed' % Buf = 0 /\ unread' % Block = 0
    <3>1. Buf % Buf = 0
      BY <1>4
    <3>2. (fed + Buf) % Buf = 0
      BY <1>3, <1>4, <3>1, SumIsMultiple
    <3>3. (unread - Buf) % Block = 0
      BY <1>3, <1>4, SumIsMultiple
    <3> QED
      BY <1>8, <2>1, <2>2, <3>2, <3>3
  <2>4. unread' = 0 => fed' = cipher /\ cipher % Buf = 0
    BY <1>4, <2>2, <2>3
  <2>5. FileFits'
    BY <1>2, <1>3, <1>8, <2>2, <2>3, <2>4 DEF FileFits, InFile, Released
  <2> QED
    BY <1>1, <2>5 DEF FileInv
<1>10. CASE unread < Buf
  <2>1. BytesRead = unread
    BY <1>4, <1>10 DEF BytesRead, Least
  <2>2. unread' = 0
    BY <1>2, <1>4, <2>1
  <2>3. br = unread + Block
    <3>1. br = Block * (unread \div Block + 1)
      BY <1>10, <2>1 DEF Padded
    <3>2. unread = Block * (unread \div Block) /\ unread \div Block \in Nat
      BY <1>3, <1>4, Division
    <3>3. Block * (unread \div Block + 1) = Block * (unread \div Block) + Block * 1
      BY <1>4, <3>2, Distributes
    <3> QED
      BY <1>4, <3>1, <3>2, <3>3
  <2>4. fed' = cipher + Block
    BY <1>3, <1>4, <1>8, <2>3
  <2>5. cipher % Buf # 0
    <3>1. SUFFICES ASSUME cipher % Buf = 0 PROVE FALSE
      OBVIOUS
    <3>2. fed < cipher
      BY <1>2, <1>3, <1>4
    <3>3. fed + Buf <= cipher
      BY <1>3, <1>4, <3>1, <3>2, MultiplesAreApart
    <3> QED
      BY <1>3, <1>4, <1>10, <3>3
  <2>6. 0 % Block = 0
    BY <1>4
  <2>7. FileFits'
    BY <1>2, <1>3, <1>8, <2>2, <2>4, <2>5, <2>6 DEF FileFits, InFile, Released
  <2> QED
    BY <1>1, <2>7 DEF FileInv
<1> QED
  BY <1>4, <1>9, <1>10

\* The other steps are not those of hgmcmd decrypt, or end it.
LEMMA OtherFileInv ==
  ASSUME FileInv, [Next]_vars, ~ DecryptFile, ~ DecryptRound
  PROVE  FileInv'
<1>1. RoomInv'
  BY EncryptRoomInv, MakeImageRoomInv, InflateRoomInv, CutRoomInv, DecryptImageRoomInv,
     OtherRoomInv DEF FileInv, Next
<1>2. CASE UNCHANGED vars \/ DecryptEnds
  <2>1. UNCHANGED <<size, unread, cipher, image, worker>>
    BY <1>2 DEF vars, DecryptEnds
  <2>2. InFile' => InFile
    BY <1>2 DEF InFile, DecryptEnds, vars, image, FileInv, RoomInv, CodecInv, ImageFits
  <2>3. pc' = "done" => pc = "done" \/ unread = 0
    BY <1>2 DEF DecryptEnds, vars
  <2> QED
    BY <1>1, <2>1, <2>2, <2>3 DEF FileInv, FileFits, InFile, Released, image, worker
<1>3. CASE Encrypt
  BY <1>1, <1>3 DEF Encrypt, FileInv, FileFits, InFile
<1>4. CASE \/ MakeImage \/ ReadMagic \/ ReadChunks \/ HeaderEnds
           \/ Inflate \/ Cut \/ DecryptImage \/ NothingToDecode
  <2>1. side' # 0
    <3>1. CASE MakeImage
      BY <3>1 DEF MakeImage, SideFor
    <3>2. CASE ReadMagic \/ ReadChunks \/ HeaderEnds
      BY <3>2 DEF ReadMagic, ReadChunks, HeaderEnds, image,
         FileInv, RoomInv, CodecInv, StartFits
    <3>3. CASE Inflate \/ Cut \/ DecryptImage \/ NothingToDecode
      BY <3>3 DEF Inflate, Cut, DecryptImage, NothingToDecode, image,
         FileInv, RoomInv, CodecInv, StartFits
    <3> QED
      BY <1>4, <3>1, <3>2, <3>3
  <2> QED
    BY <1>1, <2>1 DEF FileInv, FileFits, InFile
<1> QED
  BY <1>2, <1>3, <1>4 DEF Next

LEMMA FileInvariant == Spec => []FileInv
<1>1. Init => FileInv
  BY InitRoomInv DEF Init, FileInv, FileFits, InFile
<1>2. FileInv /\ [Next]_vars => FileInv'
  BY DecryptFileFileInv, DecryptRoundFileInv, OtherFileInv
<1> QED
  BY <1>1, <1>2, PTL DEF Spec

-----------------------------------------------------------------------------
(* Theorems *)

\* The state is well typed: no count of bytes becomes negative, the length that is
\* left of the stream of a request included.
THEOREM CodecTypes == Spec => []TypeOK
<1>1. CodecInv => TypeOK
  BY DEF CodecInv
<1> QED
  BY <1>1, CodecInvariant, PTL

\* Both readers feed the cipher whole blocks, at the end of the data as well.
THEOREM CipherGetsWholeBlocks == Spec => []ReadsAreAligned
<1>1. CodecInv => ReadsAreAligned
  BY DEF CodecInv
<1> QED
  BY <1>1, CodecInvariant, PTL

\* A request is given bytes of the blob from the offset it asked for, and never
\* padding or pixels beyond the data.
THEOREM RequestsGetTheBlob == Spec => []NothingInvented
<1>1. CodecInv => NothingInvented
  BY DEF CodecInv
<1> QED
  BY <1>1, CodecInvariant, PTL

\* A request that ends without a panic was given everything it asked for.
THEOREM EndedRequestsAreWhole == Spec => []EndsOnlyWhenWhole
<1>1. CodecInv => EndsOnlyWhenWhole
  <2> SUFFICES ASSUME CodecInv, side # 0, pc = "done"
               PROVE  delivered = size - Least(size, skip)
    BY DEF EndsOnlyWhenWhole, InImage
  <2>1. size \in Nat \ {0} /\ skip \in Nat /\ skipBytes \in Nat /\ delivered \in Nat /\ fed \in Nat
    BY CodecAssumption DEF CodecInv, TypeOK
  <2>2. streamLen = 0 /\ streamLen = size - Least(size, Released(fed))
    BY DEF CodecInv, ImageFits
  <2>3. /\ skip - skipBytes + delivered = Least(size, Released(fed))
        /\ delivered > 0 => skipBytes = 0
    BY DEF CodecInv, NothingInvented, InImage
  <2>4. Least(size, Released(fed)) \in Int
    BY <2>1, CodecAssumption DEF Least, Released
  <2>5. skip - skipBytes + delivered = size
    BY <2>1, <2>2, <2>3, <2>4
  <2> QED
    BY <2>1, <2>3, <2>5 DEF Least
<1> QED
  BY <1>1, CodecInvariant, PTL

\* The decoder never holds more than twice what it was told to keep, and a
\* scanline.
THEOREM DecoderIsBounded == Spec => []BufferBounded
<1>1. RoomInv => BufferBounded
  BY DEF RoomInv
<1> QED
  BY <1>1, RoomInvariant, PTL

\* A complete image is lost only if it lacks room for a block more than the
\* data's, and only its last block is.
THEOREM LossNeedsAFullImage == Spec => []CompleteWithRoom
<1> DEFINE Inv == RoomInv /\ CompleteWithRoom
<1>1. Init => Inv
  BY InitRoomInv DEF Init, CompleteWithRoom
<1>2. Inv /\ [Next]_vars => CompleteWithRoom'
  <2> SUFFICES ASSUME Inv, [Next]_vars, InImage', pc' = "panic", ~ cut'
               PROVE  /\ Bpp * side' * side' < Block * ((size' + Block - 1) \div Block) + Block
                      /\ Released(fed)' >= size' - Block
    BY DEF CompleteWithRoom
  <2>1. CASE UNCHANGED vars
    BY <2>1 DEF CompleteWithRoom, InImage, Released, vars, image, worker
  <2>2. CASE NothingToDecode
    <3>1. UNCHANGED <<size, image, worker, cut>>
      BY <2>2 DEF NothingToDecode
    <3> QED
      BY <2>2, <3>1, LostImageFilled DEF slSize, Released, image, worker
  <2>3. CASE DecryptImage
    BY <2>3 DEF DecryptImage
  <2>4. pc' = "panic" => UNCHANGED vars \/ NothingToDecode \/ DecryptImage
    BY DEF Next, Encrypt, MakeImage, ReadMagic, ReadChunks, HeaderEnds, Inflate, Cut,
       DecryptFile, DecryptRound, DecryptEnds
  <2> QED
    BY <2>1, <2>2, <2>3, <2>4
<1>3. RoomInv /\ [Next]_vars => RoomInv'
  BY EncryptRoomInv, MakeImageRoomInv, InflateRoomInv, CutRoomInv, DecryptImageRoomInv,
     OtherRoomInv DEF Next
<1> QED
  BY <1>1, <1>2, <1>3, PTL DEF Spec

\* hgmcmd decrypt gives back all of a file, unless it fills its last buffer: then
\* a block is missing.
THEOREM DecryptedFilesComeBack == Spec => []FileComesBack
<1>1. FileInv => FileComesBack
  <2> SUFFICES ASSUME FileInv, InFile, pc = "done"
               PROVE  /\ cipher % Buf # 0 => delivered = cipher
                      /\ cipher % Buf = 0 => delivered = cipher - Block
    BY DEF FileComesBack
  <2>1. /\ cipher # 0 /\ delivered = Released(fed)
        /\ fed = IF cipher % Buf = 0 THEN cipher ELSE cipher + Block
    BY DEF FileInv, FileFits
  <2>2. cipher \in Nat /\ Block \in Nat \ {0}
    BY CodecAssumption DEF FileInv, RoomInv, CodecInv, TypeOK
  <2> QED
    BY <2>1, <2>2 DEF Released
<1> QED
  BY <1>1, FileInvariant, PTL
=============================================================================
