---------------------------- MODULE ProxyProofs ----------------------------
(***************************************************************************)
(* Proofs about one request to the proxy, for files, blobs, offsets and    *)
(* rounds of every size and for every set of replicas: the types, why a    *)
(* request ends early, and, for images that mkpng.pl made, the length that *)
(* was announced and the refinement of RangeStream.                        *)
(***************************************************************************)
EXTENDS Proxy, TLAPS

\* The position in the file at which blob b starts; kept folded in the proofs
\* of the steps, which need BlobsFit and PartsFit of it only.
StartOf(b) == b * BlobSize

-----------------------------------------------------------------------------
(* Arithmetic of the parts *)

LEMMA Division ==
  ASSUME NEW x \in Nat, NEW b \in Nat \ {0}
  PROVE  /\ x = (b * (x \div b)) + (x % b)
         /\ x % b \in 0 .. b - 1
         /\ x \div b \in Nat
OBVIOUS

LEMMA ProductGrows ==
  ASSUME NEW a \in Nat, NEW m \in Nat, NEW n \in Nat, m <= n
  PROVE  a * m <= a * n
<1>1. n - m \in Nat /\ n = m + (n - m)
  OBVIOUS
<1>2. a * n = a * m + a * (n - m)
  OBVIOUS
<1>3. a * (n - m) \in Nat /\ a * m \in Nat
  BY <1>1
<1> QED
  BY <1>2, <1>3

\* Blobs are those that start before the end of the file.
LEMMA BlobsFit ==
  /\ NumBlobs \in Nat
  /\ \A b \in Nat : StartOf(b) \in Nat /\ StartOf(b + 1) = StartOf(b) + BlobSize
  /\ \A b \in Nat : b < NumBlobs <=> StartOf(b) < ContentSize
<1> DEFINE n == ContentSize + BlobSize - 1
           r == n % BlobSize
<1>1. n \in Nat
  BY SizesAssumption
<1>2. n = BlobSize * NumBlobs + r /\ r \in 0 .. BlobSize - 1 /\ NumBlobs \in Nat
  <2> HIDE DEF n
  <2>1. NumBlobs = n \div BlobSize
    BY DEF NumBlobs, n
  <2> QED
    BY <1>1, <2>1, Division, SizesAssumption DEF r
<1> HIDE DEF r
<1>3. /\ BlobSize * NumBlobs \in Int
      /\ ContentSize <= BlobSize * NumBlobs
      /\ BlobSize * NumBlobs < ContentSize + BlobSize
  BY <1>2, SizesAssumption
<1>4. ASSUME NEW b \in Nat
      PROVE  /\ StartOf(b) \in Nat
             /\ StartOf(b) = BlobSize * b
             /\ StartOf(b + 1) = StartOf(b) + BlobSize
  BY SizesAssumption DEF StartOf
<1>5. ASSUME NEW b \in Nat, b < NumBlobs
      PROVE  StartOf(b) < ContentSize
  <2>1. BlobSize * (b + 1) <= BlobSize * NumBlobs
    BY <1>2, <1>5, ProductGrows, SizesAssumption
  <2>2. StartOf(b) + BlobSize <= BlobSize * NumBlobs
    BY <1>4, <2>1
  <2> QED
    BY <1>3, <1>4, <2>2, SizesAssumption
<1>6. ASSUME NEW b \in Nat, b >= NumBlobs
      PROVE  StartOf(b) >= ContentSize
  <2>1. BlobSize * NumBlobs <= BlobSize * b
    BY <1>2, <1>6, ProductGrows, SizesAssumption
  <2> QED
    BY <1>3, <1>4, <2>1, SizesAssumption
<1>7. ASSUME NEW b \in Nat
      PROVE  b < NumBlobs <=> StartOf(b) < ContentSize
  <2>1. b < NumBlobs \/ b >= NumBlobs
    BY <1>2
  <2>2. StartOf(b) \in Nat /\ ContentSize \in Nat
    BY <1>4, SizesAssumption
  <2> QED
    BY <1>2, <2>1, <2>2, <1>5, <1>6
<1> QED
  BY <1>2, <1>4, <1>7

\* Every part but the last has the size of a blob, the last ends the file.
LEMMA PartsFit ==
  ASSUME NEW b \in Nat, b < NumBlobs
  PROVE  /\ PartSize(b) \in Nat \ {0}
         /\ StartOf(b) + PartSize(b) <= ContentSize
         /\ b + 1 < NumBlobs => StartOf(b) + PartSize(b) = StartOf(b + 1)
         /\ b + 1 >= NumBlobs => StartOf(b) + PartSize(b) = ContentSize
         /\ PartSize(b) <= BlobSize
<1>1. StartOf(b) \in Nat /\ StartOf(b) < ContentSize
  BY BlobsFit
<1>2. /\ StartOf(b + 1) = StartOf(b) + BlobSize
      /\ b + 1 < NumBlobs <=> StartOf(b + 1) < ContentSize
  BY BlobsFit
<1>3. PartSize(b) = IF BlobSize < ContentSize - StartOf(b)
                      THEN BlobSize ELSE ContentSize - StartOf(b)
  BY DEF PartSize, Least, StartOf
<1>4. NumBlobs \in Nat
  BY BlobsFit
<1> QED
  BY <1>1, <1>2, <1>3, <1>4, SizesAssumption

\* The offset lies in the first blob, or behind the end of the file.
LEMMA FirstBlobFits ==
  ASSUME NEW off \in Nat
  PROVE  /\ FirstBlob(off) \in Nat
         /\ FirstSkip(off) \in Nat
         /\ off = StartOf(FirstBlob(off)) + FirstSkip(off)
         /\ off < StartOf(FirstBlob(off) + 1)
<1> DEFINE q == off \div BlobSize
           r == off % BlobSize
<1>1. off = BlobSize * q + r /\ r \in 0 .. BlobSize - 1 /\ q \in Nat
  BY Division, SizesAssumption
<1>2. FirstBlob(off) = q
  BY DEF FirstBlob
<1> HIDE DEF q, r
<1>3. StartOf(q) = BlobSize * q /\ StartOf(q) \in Nat
  BY <1>1, SizesAssumption DEF StartOf
<1>4. FirstSkip(off) = off - StartOf(q)
  BY <1>2 DEF FirstSkip, StartOf
<1>5. StartOf(q + 1) = StartOf(q) + BlobSize
  BY <1>1, BlobsFit
<1> QED
  BY <1>1, <1>2, <1>3, <1>4, <1>5, SizesAssumption

-----------------------------------------------------------------------------
(* The invariants *)

\* Types, a replica that is being read, and a blob that exists while one is
\* looked for or read.
TypeInv ==
  /\ TypeOK
  /\ pc \in {"replica", "looping", "stream"} => bIdx < NumBlobs
  /\ pc = "stream" => copy \in Replicas

\* A replica that was passed over had no usable image of the blob at hand.
CauseInv ==
  /\ bIdx >= FirstBlob(from)
  /\ pc = "replica" =>
       \A c \in Replicas \ untried : image[c][bIdx] \in {"unusable", "clipped"}
  /\ AbortHasACause

\* cryptWorker: what is left of the blob follows from what was decrypted.
LengthLeft ==
  pc = "stream" =>
    /\ streamLen <= PartSize(bIdx)
    /\ decoded < PartSize(bIdx) => streamLen = PartSize(bIdx) - decoded
    /\ decoded >= PartSize(bIdx) => streamLen = 0

\* The position in the file that the decrypted stream has reached.
Position ==
  IF pc = "stream" THEN StartOf(bIdx) + PartSize(bIdx) - streamLen ELSE StartOf(bIdx)

\* The response has reached the position, but for the bytes still to be skipped.
ResponseFollows ==
  /\ pc \in {"replica", "looping", "stream"} => from + Len(sent) = Position + skipBytes
  /\ pc = "blob" =>
       IF bIdx < NumBlobs THEN from + Len(sent) = Position + skipBytes
                          ELSE from + Len(sent) >= ContentSize
  /\ pc = "done" => from + Len(sent) >= ContentSize
  /\ pc = "aborted" /\ status \in {200, 206} /\ from < ContentSize =>
       from + Len(sent) < ContentSize

\* Bytes are skipped before any is sent, and in the first blob only.
SkipsFirst ==
  /\ skipBytes > 0 /\ pc \in {"blob", "replica", "looping", "stream"} =>
       sent = <<>> /\ from < StartOf(bIdx) + BlobSize
  /\ sent = <<>> \/ from + Len(sent) <= ContentSize

\* The headers are those of the request.
HeadersFit ==
  /\ status = 0 => sent = <<>> /\ pc \in {"blob", "replica", "looping"}
  /\ status \in {200, 206} => length = ContentSize - from \/ from >= ContentSize

PositionInv == LengthLeft /\ ResponseFollows /\ SkipsFirst /\ HeadersFit

\* All images were made by mkpng.pl.
OnlyTagged == "foreign" \notin Kinds

-----------------------------------------------------------------------------
(* One round of cryptWorker *)

\* What a round drops and writes: nothing beyond streamLen, and nothing as long
\* as bytes are to be skipped.
LEMMA RoundFits ==
  ASSUME TypeOK, NEW n \in 1 .. DecodeBytes
  PROVE  /\ RoundTo(n) \in 0 .. n
         /\ RoundTo(n) <= streamLen
         /\ RoundFrom(n) \in 0 .. RoundTo(n)
         /\ RoundFrom(n) <= skipBytes
         /\ RoundFrom(n) = RoundTo(n) \/ RoundFrom(n) = skipBytes
         /\ RoundTo(n) = n \/ RoundTo(n) = streamLen
BY SizesAssumption DEF TypeOK, RoundTo, RoundFrom, Least

\* The bytes that a round writes.
Written(n) == [i \in 1 .. RoundTo(n) - RoundFrom(n) |->
                 Byte(bIdx, decoded + RoundFrom(n) + i - 1)]

LEMMA RoundWrites ==
  ASSUME TypeOK, NEW n \in 1 .. DecodeBytes
  PROVE  /\ Written(n) \in Seq(Nat \cup {Padding})
         /\ Len(Written(n)) = RoundTo(n) - RoundFrom(n)
<1>1. ASSUME NEW b \in Nat, NEW i \in Nat
      PROVE  Byte(b, i) \in Nat \cup {Padding}
  BY SizesAssumption DEF Byte
<1>2. ASSUME NEW i \in 1 .. RoundTo(n) - RoundFrom(n)
      PROVE  Byte(bIdx, decoded + RoundFrom(n) + i - 1) \in Nat \cup {Padding}
  <2>1. decoded + RoundFrom(n) + i - 1 \in Nat /\ bIdx \in Nat
    BY <1>2, RoundFits DEF TypeOK
  <2> QED
    BY <1>1, <2>1
<1>3. RoundTo(n) - RoundFrom(n) \in Nat
  BY RoundFits
<1> QED
  BY <1>2, <1>3 DEF Written

-----------------------------------------------------------------------------
(* Types *)

LEMMA InitTypes == Init => TypeInv
<1> SUFFICES ASSUME Init PROVE TypeInv
  OBVIOUS
<1>1. from \in Nat /\ from \in Froms
  BY SizesAssumption DEF Init
<1>2. bIdx \in Nat /\ skipBytes \in Nat
  BY <1>1, FirstBlobFits DEF Init
<1>3. ranged \in BOOLEAN
  BY DEF Init
<1>4. <<>> \in Seq(Nat \cup {Padding})
  OBVIOUS
<1>5. image \in [Replicas -> [Blobs -> Kinds]] /\ sent = <<>> /\ gone \in BOOLEAN
  BY DEF Init
<1>6. /\ pc = "blob" /\ untried \subseteq Replicas /\ copy \in Replicas \cup {NoReplica}
      /\ decoded \in Nat /\ streamLen \in Nat /\ status = 0 /\ length \in Int
  BY DEF Init
<1> QED
  BY <1>1, <1>2, <1>3, <1>4, <1>5, <1>6 DEF TypeInv, TypeOK

LEMMA StepTypes == TypeInv /\ [Next]_vars => TypeInv'
<1> SUFFICES ASSUME TypeInv, [Next]_vars
             PROVE  TypeInv'
  OBVIOUS
<1> USE DEF TypeInv
<1>1. CASE NextBlob
  BY <1>1 DEF NextBlob, TypeOK, stream, response
<1>2. CASE Finish
  BY <1>2 DEF Finish, TypeOK, stream
<1>3. ASSUME NEW c \in Replicas, PassOver(c)
      PROVE  TypeInv'
  BY <1>3 DEF PassOver, TypeOK, stream, response
<1>4. ASSUME NEW c \in Replicas, OpenImage(c)
      PROVE  TypeInv'
  <2>1. PartSize(bIdx) \in Nat
    BY <1>4, PartsFit DEF OpenImage, TypeOK
  <2>2. TagBlobSize(c) \in Nat /\ TagContentSize(c) \in Int
    BY <2>1, SizesAssumption DEF TagBlobSize, TagContentSize
  <2>3. from \in Nat
    BY SizesAssumption DEF TypeOK
  <2>4. status' \in {0, 200, 206, 500} /\ length' \in Int
    BY <1>4, <2>2, <2>3 DEF OpenImage, TypeOK
  <2> QED
    BY <1>4, <2>2, <2>4 DEF OpenImage, TypeOK
<1>5. CASE NoReplicaLeft
  BY <1>5 DEF NoReplicaLeft, TypeOK, stream
<1>6. ASSUME NEW n \in 1 .. DecodeBytes, Round(n)
      PROVE  TypeInv'
  <2>0. sent' = sent \o Written(n) /\ sent \in Seq(Nat \cup {Padding})
    BY <1>6 DEF Round, TypeOK, Written
  <2>1. sent' \in Seq(Nat \cup {Padding})
    BY <2>0, RoundWrites
  <2>2. decoded' \in Nat /\ skipBytes' \in Nat /\ streamLen' \in Nat
    BY <1>6, RoundFits DEF Round, TypeOK
  <2> QED
    BY <1>6, <2>1, <2>2 DEF Round, TypeOK
<1>7. CASE DecodeFails
  BY <1>7 DEF DecodeFails, TypeOK, stream, response
<1>8. CASE WriteFails
  BY <1>8 DEF WriteFails, TypeOK, stream, response
<1>9. CASE BlobDone
  BY <1>9 DEF BlobDone, TypeOK, stream, response
<1>10. CASE HangUp
  BY <1>10 DEF HangUp, TypeOK, stream, response
<1>11. CASE UNCHANGED vars
  BY <1>11 DEF vars, TypeOK, stream, response
<1>12. ASSUME NEW c \in Replicas, InitReaderLoops(c)
       PROVE  TypeInv'
  BY <1>12 DEF InitReaderLoops, TypeOK, stream, response
<1> QED
  BY <1>1, <1>2, <1>3, <1>4, <1>5, <1>6, <1>7, <1>8, <1>9, <1>10, <1>11, <1>12
     DEF Next, Serve

THEOREM TypeInvariant == Spec => []TypeInv
BY InitTypes, StepTypes, PTL DEF Spec

-----------------------------------------------------------------------------
(* Causes *)

LEMMA InitCauses == Init => CauseInv
<1> SUFFICES ASSUME Init PROVE CauseInv
  OBVIOUS
<1>1. from \in Nat
  BY SizesAssumption DEF Init
<1>2. FirstBlob(from) \in Nat
  BY <1>1, FirstBlobFits
<1> QED
  BY <1>2 DEF Init, CauseInv, AbortHasACause

LEMMA StepCauses == TypeInv /\ CauseInv /\ [Next]_vars => CauseInv'
<1> SUFFICES ASSUME TypeInv, CauseInv, [Next]_vars
             PROVE  CauseInv'
  OBVIOUS
<1>0. from \in Nat /\ FirstBlob(from) \in Nat /\ bIdx \in Nat /\ NumBlobs \in Nat
  BY SizesAssumption, FirstBlobFits, BlobsFit DEF TypeInv, TypeOK
<1>1. CASE NextBlob
  BY <1>1 DEF NextBlob, CauseInv, AbortHasACause
<1>2. CASE Finish
  BY <1>2 DEF Finish, CauseInv, AbortHasACause
<1>3. ASSUME NEW c \in Replicas, PassOver(c)
      PROVE  CauseInv'
  <2>1. image[c][bIdx] \in {"unusable", "clipped"}
    BY <1>3 DEF PassOver, Accepted
  <2> QED
    BY <1>3, <2>1 DEF PassOver, CauseInv, AbortHasACause
<1>4. ASSUME NEW c \in Replicas, OpenImage(c)
      PROVE  CauseInv'
  BY <1>4 DEF OpenImage, CauseInv, AbortHasACause
<1>5. CASE NoReplicaLeft
  <2>1. bIdx \in Requested
    BY <1>0, <1>5 DEF NoReplicaLeft, Requested, Blobs, CauseInv, TypeInv
  <2>2. \A c \in Replicas : image[c][bIdx] \in {"unusable", "clipped"}
    BY <1>5 DEF NoReplicaLeft, CauseInv
  <2>3. AbortHasACause'
    BY <1>5, <2>1, <2>2 DEF NoReplicaLeft, AbortHasACause, Requested
  <2> QED
    BY <1>5, <2>3 DEF NoReplicaLeft, CauseInv
<1>6. ASSUME NEW n \in 1 .. DecodeBytes, Round(n)
      PROVE  CauseInv'
  BY <1>6 DEF Round, CauseInv, AbortHasACause
<1>7. CASE DecodeFails
  <2>1. bIdx \in Requested
    BY <1>0, <1>7 DEF DecodeFails, Requested, Blobs, CauseInv, TypeInv
  <2>2. copy \in Replicas /\ image[copy][bIdx] \in {"truncated", "full"}
    BY <1>7 DEF DecodeFails, TypeInv
  <2>3. AbortHasACause'
    BY <1>7, <2>1, <2>2 DEF DecodeFails, AbortHasACause, Requested
  <2> QED
    BY <1>7, <2>3 DEF DecodeFails, CauseInv
<1>8. CASE WriteFails
  BY <1>8 DEF WriteFails, CauseInv, AbortHasACause, response
<1>9. CASE BlobDone
  BY <1>0, <1>9 DEF BlobDone, CauseInv, AbortHasACause
<1>10. CASE HangUp
  BY <1>10 DEF HangUp, CauseInv, AbortHasACause
<1>11. CASE UNCHANGED vars
  BY <1>11 DEF vars, CauseInv, AbortHasACause, Requested, response
<1>12. ASSUME NEW c \in Replicas, InitReaderLoops(c)
       PROVE  CauseInv'
  BY <1>12 DEF InitReaderLoops, CauseInv, AbortHasACause
<1> QED
  BY <1>1, <1>2, <1>3, <1>4, <1>5, <1>6, <1>7, <1>8, <1>9, <1>10, <1>11, <1>12
     DEF Next, Serve

-----------------------------------------------------------------------------
(* Positions, for images that mkpng.pl made *)

LEMMA TagsFit ==
  ASSUME OnlyTagged, TypeInv, pc = "replica", NEW c \in Replicas
  PROVE  TagBlobSize(c) = PartSize(bIdx) /\ TagContentSize(c) = ContentSize
<1>1. bIdx \in Blobs
  BY BlobsFit DEF TypeInv, TypeOK, Blobs
<1>2. image[c][bIdx] \in Kinds
  BY <1>1 DEF TypeInv, TypeOK
<1> QED
  BY <1>2 DEF OnlyTagged, TagBlobSize, TagContentSize

\* The counts of a round: it stays inside the part, skips before it writes, and
\* moves the position by what it writes and skips.
LEMMA RoundCounts ==
  ASSUME TypeInv, PositionInv, NEW n \in 1 .. DecodeBytes, pc = "stream", streamLen # 0
  PROVE  LET k == RoundTo(n) - RoundFrom(n) IN
         /\ k \in Nat
         /\ k > 0 => skipBytes = RoundFrom(n) /\ from + Len(sent) + k <= ContentSize
         /\ \A i \in 1 .. k :
              /\ decoded + RoundFrom(n) + i - 1 < PartSize(bIdx)
              /\ StartOf(bIdx) + (decoded + RoundFrom(n) + i - 1) = from + Len(sent) + i - 1
         /\ from + (Len(sent) + k)
              = StartOf(bIdx) + PartSize(bIdx) - (streamLen - RoundTo(n))
                  + (skipBytes - RoundFrom(n))
<1>1. /\ from \in Nat /\ Len(sent) \in Nat /\ StartOf(bIdx) \in Nat
      /\ PartSize(bIdx) \in Nat /\ streamLen \in Nat /\ skipBytes \in Nat
      /\ decoded \in Nat /\ ContentSize \in Nat
      /\ RoundTo(n) \in Nat /\ RoundFrom(n) \in Nat
  <2>1. bIdx \in Nat /\ bIdx < NumBlobs
    BY DEF TypeInv, TypeOK
  <2>2. StartOf(bIdx) \in Nat /\ PartSize(bIdx) \in Nat
    BY <2>1, BlobsFit, PartsFit
  <2>3. RoundTo(n) \in Nat /\ RoundFrom(n) \in Nat
    BY RoundFits DEF TypeInv
  <2> QED
    BY <2>2, <2>3, SizesAssumption DEF TypeInv, TypeOK
<1>2. PICK o \in Nat, l \in Nat, start \in Nat, size \in Nat, left \in Nat, skip \in Nat,
           dec \in Nat, end \in Nat, to \in Nat, fr \in Nat :
        /\ o = from /\ l = Len(sent) /\ start = StartOf(bIdx) /\ size = PartSize(bIdx)
        /\ left = streamLen /\ skip = skipBytes /\ dec = decoded /\ end = ContentSize
        /\ to = RoundTo(n) /\ fr = RoundFrom(n)
  BY <1>1
<1>3. /\ to <= left /\ fr <= to /\ fr <= skip
      /\ fr = to \/ fr = skip
  BY <1>2, RoundFits DEF TypeInv
<1>4. start + size <= end
  BY <1>2, PartsFit DEF TypeInv, TypeOK
<1>5. /\ left # 0
      /\ dec < size => left = size - dec
      /\ dec >= size => left = 0
  BY <1>2 DEF PositionInv, LengthLeft
<1>6. o + l = start + size - left + skip
  BY <1>2 DEF PositionInv, ResponseFollows, Position
<1>7. left = size - dec
  BY <1>5
<1>8. to - fr \in Nat
  BY <1>3
<1>9. to - fr > 0 => skip = fr /\ o + l + (to - fr) <= end
  BY <1>3, <1>4, <1>6
<1>10. ASSUME NEW i \in 1 .. to - fr
       PROVE  dec + fr + i - 1 < size /\ start + (dec + fr + i - 1) = o + l + i - 1
  <2>1. skip = fr
    BY <1>3, <1>10
  <2> QED
    BY <1>3, <1>6, <1>7, <1>10, <2>1
<1>11. o + (l + (to - fr)) = start + size - (left - to) + (skip - fr)
  BY <1>6
<1> QED
  BY <1>2, <1>8, <1>9, <1>10, <1>11

\* What a round writes are the next bytes of the file.
LEMMA RoundContinues ==
  ASSUME TypeInv, PositionInv, NEW n \in 1 .. DecodeBytes, pc = "stream", streamLen # 0
  PROVE  Written(n) = [i \in 1 .. RoundTo(n) - RoundFrom(n) |-> from + Len(sent) + i - 1]
<1> SUFFICES ASSUME NEW i \in 1 .. RoundTo(n) - RoundFrom(n)
             PROVE  Byte(bIdx, decoded + RoundFrom(n) + i - 1) = from + Len(sent) + i - 1
  BY DEF Written
<1>1. /\ decoded + RoundFrom(n) + i - 1 < PartSize(bIdx)
      /\ StartOf(bIdx) + (decoded + RoundFrom(n) + i - 1) = from + Len(sent) + i - 1
  BY RoundCounts
<1> QED
  BY <1>1 DEF Byte, StartOf

LEMMA InitPosition == Init => PositionInv
<1> SUFFICES ASSUME Init PROVE PositionInv
  OBVIOUS
<1>1. from \in Nat
  BY SizesAssumption DEF Init
<1>2. /\ bIdx \in Nat /\ skipBytes \in Nat
      /\ from = StartOf(bIdx) + skipBytes
      /\ from < StartOf(bIdx + 1)
  BY <1>1, FirstBlobFits DEF Init
<1>3. /\ StartOf(bIdx) \in Nat
      /\ StartOf(bIdx + 1) = StartOf(bIdx) + BlobSize
      /\ bIdx < NumBlobs <=> StartOf(bIdx) < ContentSize
  BY <1>2, BlobsFit
<1>4. sent = <<>> /\ Len(sent) = 0 /\ pc = "blob" /\ status = 0
  BY DEF Init
<1>5. LengthLeft /\ SkipsFirst /\ HeadersFit
  BY <1>1, <1>2, <1>3, <1>4 DEF LengthLeft, SkipsFirst, HeadersFit
<1>6. ResponseFollows
  BY <1>1, <1>2, <1>3, <1>4, SizesAssumption DEF ResponseFollows, Position
<1> QED
  BY <1>5, <1>6 DEF PositionInv

LEMMA Appended ==
  ASSUME NEW S, NEW s \in Seq(S), NEW t \in Seq(S)
  PROVE  /\ Len(s \o t) = Len(s) + Len(t)
         /\ Len(t) = 0 => s \o t = s
OBVIOUS

LEMMA LeftShrinks ==
  ASSUME NEW left \in Nat, NEW size \in Nat, NEW dec \in Nat, NEW n \in Nat, NEW to \in Nat,
         left <= size,
         dec < size => left = size - dec,
         dec >= size => left = 0,
         to <= left, to <= n, to = n \/ to = left
  PROVE  /\ left - to <= size
         /\ dec + n < size => left - to = size - (dec + n)
         /\ dec + n >= size => left - to = 0
OBVIOUS

LEMMA StepPosition ==
  ASSUME OnlyTagged, TypeInv, PositionInv, [Next]_vars
  PROVE  PositionInv'
<1> USE DEF PositionInv
<1>1. /\ from \in Nat /\ Len(sent) \in Nat /\ decoded \in Nat /\ streamLen \in Nat
      /\ skipBytes \in Nat /\ bIdx \in Nat /\ ContentSize \in Nat /\ BlobSize \in Nat
      /\ NumBlobs \in Nat
  BY SizesAssumption, BlobsFit DEF TypeInv, TypeOK
<1>2. /\ StartOf(bIdx) \in Nat
      /\ StartOf(bIdx + 1) = StartOf(bIdx) + BlobSize
      /\ bIdx < NumBlobs <=> StartOf(bIdx) < ContentSize
  BY <1>1, BlobsFit
<1>3. pc \in {"replica", "looping", "stream"} =>
        /\ PartSize(bIdx) \in Nat \ {0}
        /\ StartOf(bIdx) + PartSize(bIdx) <= ContentSize
        /\ PartSize(bIdx) <= BlobSize
        /\ bIdx + 1 < NumBlobs => StartOf(bIdx) + PartSize(bIdx) = StartOf(bIdx + 1)
        /\ bIdx + 1 >= NumBlobs => StartOf(bIdx) + PartSize(bIdx) = ContentSize
  BY <1>1, PartsFit DEF TypeInv
<1>4. CASE NextBlob
  BY <1>4 DEF NextBlob, stream, response, LengthLeft, ResponseFollows, Position,
              SkipsFirst, HeadersFit
<1>5. CASE Finish
  BY <1>1, <1>5 DEF Finish, stream, LengthLeft, ResponseFollows, Position,
              SkipsFirst, HeadersFit
<1>6. ASSUME NEW c \in Replicas, PassOver(c)
      PROVE  PositionInv'
  BY <1>6 DEF PassOver, stream, response, LengthLeft, ResponseFollows, Position,
              SkipsFirst, HeadersFit
<1>7. ASSUME NEW c \in Replicas, OpenImage(c)
      PROVE  PositionInv'
  <2>1. TagBlobSize(c) = PartSize(bIdx) /\ TagContentSize(c) = ContentSize
    BY <1>7, TagsFit DEF OpenImage
  <2>2. /\ pc = "replica" /\ pc' = "stream" /\ decoded' = 0
        /\ streamLen' = PartSize(bIdx)
        /\ UNCHANGED <<from, bIdx, skipBytes, sent>>
    BY <1>7, <2>1 DEF OpenImage
  <2>3. HeadersFit'
    BY <1>7, <2>1, <2>2 DEF OpenImage, HeadersFit
  <2>4. LengthLeft'
    BY <1>3, <2>2 DEF LengthLeft
  <2>5. ResponseFollows'
    BY <1>1, <1>2, <1>3, <2>2 DEF ResponseFollows, Position
  <2>6. SkipsFirst'
    BY <2>2 DEF SkipsFirst
  <2> QED
    BY <2>3, <2>4, <2>5, <2>6
<1>8. CASE NoReplicaLeft
  <2>1. /\ pc = "replica" /\ pc' = "aborted"
        /\ UNCHANGED <<from, bIdx, skipBytes, stream, length, sent>>
        /\ status' = IF status = 0 THEN 500 ELSE status
    BY <1>8 DEF NoReplicaLeft
  <2>2. from < ContentSize => from + Len(sent) < ContentSize
    BY <1>1, <1>2, <1>3, <2>1 DEF ResponseFollows, Position, SkipsFirst, TypeInv
  <2>3. ResponseFollows'
    BY <2>1, <2>2 DEF ResponseFollows
  <2> QED
    BY <2>1, <2>3 DEF LengthLeft, SkipsFirst, HeadersFit
<1>9. ASSUME NEW n \in 1 .. DecodeBytes, Round(n)
      PROVE  PositionInv'
  <2> DEFINE k == RoundTo(n) - RoundFrom(n)
  <2>1. /\ pc = "stream" /\ streamLen # 0 /\ sent' = sent \o Written(n)
        /\ decoded' = decoded + n
        /\ skipBytes' = skipBytes - RoundFrom(n)
        /\ streamLen' = streamLen - RoundTo(n)
        /\ UNCHANGED <<from, pc, bIdx, status, length>>
    BY <1>9 DEF Round, Written
  <2>2. /\ k \in Nat /\ RoundTo(n) \in Nat /\ RoundFrom(n) \in Nat /\ n \in Nat
        /\ RoundTo(n) <= streamLen
        /\ RoundFrom(n) <= skipBytes
        /\ RoundTo(n) <= n
        /\ RoundTo(n) = n \/ RoundTo(n) = streamLen
    BY RoundFits DEF TypeInv
  <2>3. k > 0 => skipBytes = RoundFrom(n) /\ from + Len(sent) + k <= ContentSize
    BY <2>1, RoundCounts
  <2>4. Len(sent') = Len(sent) + k /\ (k = 0 => sent' = sent)
    <3>1. sent \in Seq(Nat \cup {Padding}) /\ Written(n) \in Seq(Nat \cup {Padding})
      BY RoundWrites DEF TypeInv, TypeOK
    <3>2. Len(Written(n)) = k
      BY RoundWrites DEF TypeInv
    <3>3. /\ Len(sent \o Written(n)) = Len(sent) + Len(Written(n))
          /\ Len(Written(n)) = 0 => sent \o Written(n) = sent
      BY <3>1, Appended
    <3> HIDE DEF k
    <3> QED
      BY <2>1, <3>2, <3>3
  <2>5. k = RoundTo(n) - RoundFrom(n)
    OBVIOUS
  <2> HIDE DEF k
  <2>6. /\ PartSize(bIdx)' = PartSize(bIdx) /\ PartSize(bIdx) \in Nat
        /\ StartOf(bIdx)' = StartOf(bIdx)
        /\ pc' = "stream" /\ bIdx' = bIdx /\ from' = from
    BY <1>3, <2>1
  <2>7. /\ streamLen <= PartSize(bIdx)
        /\ decoded < PartSize(bIdx) => streamLen = PartSize(bIdx) - decoded
        /\ decoded >= PartSize(bIdx) => streamLen = 0
    BY <2>1 DEF LengthLeft
  <2>8. LengthLeft'
    <3>1. /\ decoded \in Nat /\ streamLen \in Nat /\ PartSize(bIdx) \in Nat
          /\ n \in Nat /\ RoundTo(n) \in Nat
          /\ RoundTo(n) <= streamLen /\ RoundTo(n) <= n
          /\ RoundTo(n) = n \/ RoundTo(n) = streamLen
      BY <1>1, <2>2, <2>6
    <3>2. /\ streamLen - RoundTo(n) <= PartSize(bIdx)
          /\ decoded + n < PartSize(bIdx) =>
               streamLen - RoundTo(n) = PartSize(bIdx) - (decoded + n)
          /\ decoded + n >= PartSize(bIdx) => streamLen - RoundTo(n) = 0
      BY <2>7, <3>1, LeftShrinks
    <3> QED
      BY <2>1, <2>6, <3>2 DEF LengthLeft
  <2>9. ResponseFollows'
    <3>1. from + (Len(sent) + (RoundTo(n) - RoundFrom(n)))
            = StartOf(bIdx) + PartSize(bIdx) - (streamLen - RoundTo(n))
                + (skipBytes - RoundFrom(n))
      BY <2>1, RoundCounts
    <3>2. from + Len(sent') = StartOf(bIdx) + PartSize(bIdx) - streamLen' + skipBytes'
      BY <2>1, <2>4, <2>5, <3>1
    <3> QED
      BY <2>6, <3>2 DEF ResponseFollows, Position
  <2>10. SkipsFirst'
    <3>1. skipBytes' > 0 => skipBytes > 0 /\ k = 0
      BY <1>1, <2>1, <2>2, <2>3
    <3>2. skipBytes > 0 => sent = <<>> /\ from < StartOf(bIdx) + BlobSize
      BY <2>1 DEF SkipsFirst
    <3>3. sent' = <<>> \/ from + Len(sent') <= ContentSize
      BY <1>1, <2>2, <2>3, <2>4 DEF SkipsFirst
    <3> QED
      BY <2>4, <2>6, <3>1, <3>2, <3>3 DEF SkipsFirst
  <2>11. HeadersFit'
    BY <2>1 DEF HeadersFit
  <2> QED
    BY <2>8, <2>9, <2>10, <2>11
<1>10. ASSUME DecodeFails \/ WriteFails
       PROVE  PositionInv'
  <2>1. /\ pc = "stream" /\ pc' = "aborted"
        /\ UNCHANGED <<from, bIdx, skipBytes, stream, response>>
    BY <1>10 DEF DecodeFails, WriteFails
  <2>2. streamLen > 0
    <3>1. CASE DecodeFails
      BY <1>1, <3>1 DEF DecodeFails
    <3>2. ASSUME NEW n \in 1 .. DecodeBytes, RoundFrom(n) < RoundTo(n)
          PROVE  streamLen > 0
      BY <1>1, <3>2, RoundFits DEF TypeInv
    <3> QED
      BY <1>10, <3>1, <3>2 DEF WriteFails
  <2>3. from < ContentSize => from + Len(sent) < ContentSize
    BY <1>1, <1>2, <1>3, <2>1, <2>2 DEF ResponseFollows, Position, SkipsFirst
  <2>4. ResponseFollows'
    BY <2>1, <2>3 DEF ResponseFollows, response
  <2> QED
    BY <2>1, <2>4 DEF LengthLeft, SkipsFirst, HeadersFit, response
<1>11. CASE BlobDone
  <2>1. /\ pc = "stream" /\ streamLen = 0 /\ pc' = "blob" /\ bIdx' = bIdx + 1
        /\ skipBytes' = 0
        /\ UNCHANGED <<from, response>>
    BY <1>11 DEF BlobDone
  <2>2. from + Len(sent) = StartOf(bIdx) + PartSize(bIdx) + skipBytes
    BY <1>1, <1>2, <1>3, <2>1 DEF ResponseFollows, Position
  <2>3. skipBytes > 0 => from < StartOf(bIdx) + BlobSize /\ Len(sent) = 0
    BY <2>1 DEF SkipsFirst
  <2>4. bIdx + 1 < NumBlobs => from + Len(sent) = StartOf(bIdx + 1)
    BY <1>1, <1>2, <1>3, <2>1, <2>2, <2>3
  <2>5. bIdx + 1 >= NumBlobs => from + Len(sent) >= ContentSize
    BY <1>1, <1>2, <1>3, <2>1, <2>2
  <2>6. StartOf(bIdx + 1) \in Nat
    BY <1>1, <1>2
  <2>7. ResponseFollows'
    BY <1>1, <2>1, <2>4, <2>5, <2>6 DEF ResponseFollows, Position, response
  <2> QED
    BY <2>1, <2>7 DEF LengthLeft, SkipsFirst, HeadersFit, response
<1>12. CASE HangUp
  BY <1>12 DEF HangUp, stream, response, LengthLeft, ResponseFollows, Position,
               SkipsFirst, HeadersFit
<1>13. CASE UNCHANGED vars
  BY <1>13 DEF vars, stream, response, LengthLeft, ResponseFollows, Position,
               SkipsFirst, HeadersFit
<1>14. ASSUME NEW c \in Replicas, InitReaderLoops(c)
       PROVE  PositionInv'
  BY <1>14 DEF InitReaderLoops, stream, response, LengthLeft, ResponseFollows, Position,
               SkipsFirst, HeadersFit
<1> QED
  BY <1>4, <1>5, <1>6, <1>7, <1>8, <1>9, <1>10, <1>11, <1>12, <1>13, <1>14 DEF Next, Serve

THEOREM PositionInvariant ==
  ASSUME OnlyTagged
  PROVE  Spec => [](TypeInv /\ PositionInv)
<1>1. Init => TypeInv /\ PositionInv
  BY InitTypes, InitPosition
<1>2. TypeInv /\ PositionInv /\ [Next]_vars => TypeInv' /\ PositionInv'
  BY StepTypes, StepPosition
<1> QED BY <1>1, <1>2, PTL DEF Spec

-----------------------------------------------------------------------------
(* Results *)

\* The state of a request is well typed: offsets, what is to be skipped and what
\* is left of a blob never go below zero, whatever the replicas answer.
THEOREM ProxyTypes == Spec => []TypeOK
BY TypeInvariant, PTL DEF TypeInv

\* A request ends early only because the client hung up, a download ended early,
\* an image was full, or every replica failed for one of its blobs: a replica that
\* does not answer, or not with an image, never suffices.
THEOREM AbortsHaveCauses == Spec => []AbortHasACause
<1>1. Init => TypeInv /\ CauseInv
  BY InitTypes, InitCauses
<1>2. TypeInv /\ CauseInv /\ [Next]_vars => TypeInv' /\ CauseInv'
  BY StepTypes, StepCauses
<1>3. CauseInv => AbortHasACause
  BY DEF CauseInv
<1> QED BY <1>1, <1>2, <1>3, PTL DEF Spec

\* For images that mkpng.pl made: the body never exceeds the Content-Length that
\* was announced, reaches it in a response that ended well, and stays below it
\* in one that was broken off.
THEOREM LengthsAreKept ==
  ASSUME OnlyTagged
  PROVE  Spec => []LengthIsKept
<1>1. TypeInv /\ PositionInv => LengthIsKept
  <2> SUFFICES ASSUME TypeInv, PositionInv, status \in {200, 206}, from < ContentSize
               PROVE  /\ Len(sent) <= length
                      /\ pc = "done" => Len(sent) = length
                      /\ pc = "aborted" => Len(sent) < length
    BY DEF LengthIsKept
  <2>1. from \in Nat /\ Len(sent) \in Nat /\ ContentSize \in Nat
    BY SizesAssumption DEF TypeInv, TypeOK
  <2>2. length = ContentSize - from
    BY <2>1 DEF PositionInv, HeadersFit
  <2>3. from + Len(sent) <= ContentSize
    BY <2>1 DEF PositionInv, SkipsFirst
  <2>4. pc = "done" => from + Len(sent) >= ContentSize
    BY DEF PositionInv, ResponseFollows
  <2>5. pc = "aborted" => from + Len(sent) < ContentSize
    BY DEF PositionInv, ResponseFollows
  <2> QED
    BY <2>1, <2>2, <2>3, <2>4, <2>5
<1> QED BY <1>1, PositionInvariant, PTL

-----------------------------------------------------------------------------
(* The refinement of RangeStream *)

\* A round with something to write delivers the next bytes of the file.
LEMMA RoundDelivers ==
  ASSUME TypeInv, PositionInv, NEW n \in 1 .. DecodeBytes, Round(n)
  PROVE  Promise!Deliver \/ UNCHANGED Promise!vars
<1> DEFINE k == RoundTo(n) - RoundFrom(n)
<1>1. /\ pc = "stream" /\ streamLen # 0 /\ sent' = sent \o Written(n)
      /\ UNCHANGED <<from, pc>>
  BY DEF Round, Written
<1>2. /\ k \in Nat
      /\ Written(n) = [i \in 1 .. k |-> from + Len(sent) + i - 1]
      /\ k > 0 => from + Len(sent) + k <= ContentSize
  BY <1>1, RoundContinues, RoundCounts
<1>3. sent \in Seq(Nat \cup {Padding}) /\ from \in Nat /\ Len(sent) \in Nat
  BY SizesAssumption DEF TypeInv, TypeOK
<1>4. Written(n) \in Seq(Nat \cup {Padding}) /\ Len(Written(n)) = k
  BY RoundWrites DEF TypeInv
<1> HIDE DEF k
<1>5. CASE k = 0
  <2>1. sent' = sent
    BY <1>1, <1>3, <1>4, <1>5, Appended
  <2> QED
    BY <1>1, <2>1 DEF Promise!vars
<1>6. CASE k > 0
  <2>1. k \in 1 .. ContentSize /\ from + Len(sent) + k <= ContentSize
    BY <1>2, <1>3, <1>6, SizesAssumption
  <2>2. sent' = sent \o [i \in 1 .. k |-> from + Len(sent) + i - 1]
    BY <1>1, <1>2
  <2> QED
    BY <1>1, <2>1, <2>2 DEF Promise!Deliver
<1> QED
  BY <1>2, <1>5, <1>6

LEMMA StepRefines ==
  ASSUME TypeInv, PositionInv, [Next]_vars
  PROVE  [Promise!Next]_(Promise!vars)
<1> USE DEF Promise!Next
<1>1. CASE Finish
  <2>1. from + Len(sent) >= ContentSize
    <3>1. bIdx \in Nat /\ NumBlobs \in Nat
      BY BlobsFit DEF TypeInv, TypeOK
    <3> QED
      BY <1>1, <3>1 DEF Finish, PositionInv, ResponseFollows
  <2> QED
    BY <1>1, <2>1 DEF Finish, Promise!Complete
<1>2. CASE NoReplicaLeft \/ DecodeFails \/ WriteFails
  BY <1>2 DEF NoReplicaLeft, DecodeFails, WriteFails, response, Promise!Break
<1>3. ASSUME NEW n \in 1 .. DecodeBytes, Round(n)
      PROVE  [Promise!Next]_(Promise!vars)
  BY <1>3, RoundDelivers
<1>4. ASSUME NEW c \in Replicas, PassOver(c) \/ InitReaderLoops(c) \/ OpenImage(c)
      PROVE  UNCHANGED Promise!vars
  BY <1>4 DEF PassOver, InitReaderLoops, OpenImage, response, Promise!vars
<1>5. CASE NextBlob \/ BlobDone \/ HangUp \/ UNCHANGED vars
  BY <1>5 DEF NextBlob, BlobDone, HangUp, vars, response, Promise!vars
<1> QED
  BY <1>1, <1>2, <1>3, <1>4, <1>5 DEF Next, Serve

\* For images that mkpng.pl made, the client gets the bytes of the file from the
\* offset on, without gaps, repetitions or padding, over blobs, failovers and
\* skipped bytes, and the response ends as complete only at the end of the file.
THEOREM ProxyStreamsTheRange ==
  ASSUME OnlyTagged
  PROVE  Spec => ImplementsRangeStream
<1>1. Init => Promise!Init
  BY DEF Init, Promise!Init
<1>2. TypeInv /\ PositionInv /\ [Next]_vars => [Promise!Next]_(Promise!vars)
  BY StepRefines
<1> QED
  BY <1>1, <1>2, PositionInvariant, PTL DEF Spec, ImplementsRangeStream, Promise!Spec

=============================================================================
