--------------------------- MODULE ResponseProofs ---------------------------
(***************************************************************************)
(* Theorems about what a response of Archive is made of, again for all     *)
(* inputs, options, sizes and numbers of files, runs, copies and faults.   *)
(* StoredFits and SplitFits say that every copy of a file that was left    *)
(* alone has all parts of the file in order, whichever run made it;        *)
(* ResponseFits, what that means for a response while copies are added.    *)
(***************************************************************************)
EXTENDS ArchiveProofs

-----------------------------------------------------------------------------
(* The invariants *)

\* The files of which every copy is one of the whole file.
Untouched == Files \ (edited \cup shortened)

\* The image holds part n of the file that metadata m describe.
PartIs(image, n, f, m) ==
  /\ image.file = f /\ image.part = n
  /\ image.contentSize = m.size
  /\ image.blobSize = PartSize(m.size, m.blob, n)

PartsAre(images, f, m) == \A n \in DOMAIN images : PartIs(images[n], n, f, m)
IsCopy(row, f, m) == Len(row) = NumParts(m.size, m.blob) /\ PartsAre(row, f, m)
RowsAreCopies(f, m) == \A i \in DOMAIN m.rows : IsCopy(m.rows[i], f, m)

\* What is stored of an untouched file: copies of it, of its present size.
StoredFits ==
  \A f \in Untouched : Readable(meta[f]) =>
    /\ meta[f].rows # <<>> /\ RowsAreCopies(f, meta[f])
    /\ meta[f].size = Sizes[source[f]]

\* What the uploader has made of the file in progress so far.
SplitFits ==
  Working /\ file \in Untouched =>
    /\ job.version = source[file] /\ json.size = Sizes[source[file]]
    /\ RowsAreCopies(file, json)
    /\ Len(job.row) = job.part - 1 /\ PartsAre(job.row, file, json)
    /\ pc = "upload" => PartIs(job.image, job.part, file, json)
    /\ pc = "write" => json.rows # <<>>

\* The bytes of the first n parts.
Bytes(size, blob, n) == IF n = NumParts(size, blob) THEN size ELSE n * blob

\* Metadata with an image that is damaged or has no room for one block more.
HasBadImage(m) == \E i \in DOMAIN m.rows : \E j \in DOMAIN m.rows[i] : ~ Decrypts(m.rows[i][j])

\* What a response about an untouched file is made of, whichever copies it mixes.
ResponseFits ==
  /\ reply \in {"serving", "complete", "broken"} => js \in Metadata /\ request \in Files
  /\ request \in Untouched /\ js # Absent =>
       /\ js.rows # <<>> /\ RowsAreCopies(request, js)
       /\ PartsAre(served, request, js) /\ \A n \in DOMAIN served : served[n].whole
       /\ Len(served) <= NumParts(js.size, js.blob)
       /\ sent = Bytes(js.size, js.blob, Len(served))
       /\ reply = "complete" => Len(served) = NumParts(js.size, js.blob)
       /\ reply = "broken" => HasBadImage(js)

-----------------------------------------------------------------------------
(* The parts of a file *)

LEMMA TimesGrows ==
  ASSUME NEW a \in Nat, NEW m \in Nat, NEW n \in Nat, m <= n
  PROVE  m * a <= n * a /\ m * a \in Nat /\ n * a \in Nat
<1>1. n - m \in Nat /\ n = m + (n - m)
  OBVIOUS
<1>2. n * a = m * a + (n - m) * a
  OBVIOUS
<1>3. (n - m) * a \in Nat /\ m * a \in Nat /\ n * a \in Nat
  BY <1>1
<1> QED
  BY <1>2, <1>3

\* All parts but the last are shorter than the file together.
LEMMA FullPartsAreLess ==
  ASSUME NEW size \in Nat, NEW blob \in Nat \ {0}, NEW n \in Nat \ {0},
         n < NumParts(size, blob)
  PROVE  n * blob \in Nat /\ n * blob < size
<1> DEFINE x == size + blob - 1
           q == x \div blob
           r == x % blob
<1>1. size > blob /\ NumParts(size, blob) = q /\ x \in Nat
  BY DEF NumParts
<1>2. x = blob * q + r /\ r \in 0 .. blob - 1 /\ q \in Nat
  <2> HIDE DEF x
  <2> QED
    BY <1>1, Division
<1>3. x = size + blob - 1
  BY DEF x
<1> HIDE DEF x, q, r
<1>4. n <= q - 1 /\ q - 1 \in Nat
  BY <1>1, <1>2
<1>5. n * blob <= (q - 1) * blob /\ n * blob \in Nat /\ (q - 1) * blob \in Nat
  BY <1>4, TimesGrows
<1>6. blob * q = (q - 1) * blob + blob
  BY <1>2
<1> QED
  BY <1>2, <1>3, <1>5, <1>6

\* One part more.
LEMMA NextPart ==
  ASSUME NEW size \in Nat, NEW blob \in Nat \ {0}, NEW n \in Nat, n < NumParts(size, blob)
  PROVE  /\ Bytes(size, blob, n) + PartSize(size, blob, n + 1) = Bytes(size, blob, n + 1)
         /\ Bytes(size, blob, n + 1) <= size
         /\ n # 0 => Bytes(size, blob, n) # size
<1>1. PICK N \in Nat \ {0} : N = NumParts(size, blob)
  BY PartsAreSome
<1>2. n * blob \in Nat /\ (n # 0 => n * blob < size)
  BY FullPartsAreLess
<1>3. Bytes(size, blob, n) = n * blob
  BY <1>1 DEF Bytes
<1>4. CASE n + 1 < N
  <2>1. (n + 1) * blob < size
    BY <1>1, <1>4, FullPartsAreLess
  <2>2. (n + 1) * blob = n * blob + blob
    OBVIOUS
  <2>3. Bytes(size, blob, n + 1) = (n + 1) * blob /\ PartSize(size, blob, n + 1) = blob
    BY <1>1, <1>4 DEF Bytes, PartSize
  <2> QED
    BY <1>2, <1>3, <2>1, <2>2, <2>3
<1>5. CASE n + 1 = N
  <2>1. Bytes(size, blob, n + 1) = size
    BY <1>1, <1>5 DEF Bytes
  <2>2. PartSize(size, blob, n + 1) = size - n * blob
    BY <1>1, <1>5 DEF PartSize
  <2> QED
    BY <1>2, <1>3, <2>1, <2>2
<1> QED
  BY <1>1, <1>4, <1>5

LEMMA NoPartYet ==
  ASSUME NEW size \in Nat, NEW blob \in Nat \ {0}
  PROVE  Bytes(size, blob, 0) = 0
BY PartsAreSome DEF Bytes

LEMMA OnlyPart ==
  ASSUME NEW size \in Nat, NEW blob \in Nat \ {0}, NumParts(size, blob) = 1
  PROVE  PartSize(size, blob, 1) = size
BY DEF PartSize

LEMMA AppendIsSome ==
  ASSUME NEW s \in Seq(Seq(Image)), NEW x
  PROVE  Append(s, x) # <<>>
<1>1. Len(Append(s, x)) = Len(s) + 1 /\ Len(s) \in Nat
  OBVIOUS
<1>2. Append(s, x) = <<>> => Len(Append(s, x)) = 0
  OBVIOUS
<1> QED
  BY <1>1, <1>2

LEMMA MoreParts ==
  ASSUME NEW images \in Seq(Image), NEW image \in Image, NEW f, NEW m,
         PartsAre(images, f, m), PartIs(image, Len(images) + 1, f, m)
  PROVE  PartsAre(Append(images, image), f, m)
<1> SUFFICES ASSUME NEW n \in DOMAIN Append(images, image)
             PROVE  PartIs(Append(images, image)[n], n, f, m)
  BY DEF PartsAre
<1>1. n \in 1 .. Len(images) + 1 /\ DOMAIN images = 1 .. Len(images) /\ Len(images) \in Nat
  OBVIOUS
<1>2. CASE n = Len(images) + 1
  <2>1. Append(images, image)[n] = image
    BY <1>2
  <2> QED
    BY <1>2, <2>1
<1>3. CASE n \in 1 .. Len(images)
  <2>1. Append(images, image)[n] = images[n]
    BY <1>3
  <2> QED
    BY <1>1, <1>3, <2>1 DEF PartsAre
<1> QED
  BY <1>1, <1>2, <1>3

-----------------------------------------------------------------------------
(* The uploader *)

SplitInv == StoredFits /\ SplitFits

LEMMA InitSplitInv == UploaderInit => SplitInv
<1> SUFFICES ASSUME UploaderInit PROVE SplitInv
  OBVIOUS
<1>1. \A f \in Files : ~ Readable(meta[f])
  BY DEF UploaderInit, Readable
<1> QED
  BY <1>1 DEF UploaderInit, SplitInv, StoredFits, SplitFits, Untouched, Working

\* Steps after which no file is in progress and that leave what is stored.
LEMMA IdleSplitInv ==
  ASSUME SplitInv, UNCHANGED <<meta, source, edited, shortened>>, pc' \in {"off", "next"}
  PROVE  SplitInv'
<1>1. StoredFits'
  BY DEF SplitInv, StoredFits, Untouched, Readable, RowsAreCopies, IsCopy, PartsAre, PartIs
<1>2. SplitFits'
  BY DEF SplitFits, Working
<1> QED
  BY <1>1, <1>2 DEF SplitInv

\* The new file has what its source has, and nothing was made of it yet.
LEMMA BeginFileSplitInv == UploadInv /\ SplitInv /\ BeginFile => SplitInv'
<1> SUFFICES ASSUME UploadInv, SplitInv, BeginFile PROVE SplitInv'
  OBVIOUS
<1>1. /\ todo # <<>> /\ pc' = "encrypt" /\ meta[file] # Torn
      /\ UNCHANGED <<source, meta, todo, edited, shortened>>
  BY DEF BeginFile, history
<1>2. PICK blob \in BlobSizes :
        /\ json' = IF Readable(meta[file]) THEN Inherited(meta[file], blob) ELSE Prototype(blob)
        /\ job' = [version |-> source[file], parts |-> NumParts(Sizes[source[file]], json'.blob),
                   part |-> 1, row |-> <<>>, image |-> NoJob]
  BY DEF BeginFile
<1>3. file \in Files /\ file' = file
  BY <1>1, FileInProgress DEF UploadInv, file
<1>4. job'.version = source[file] /\ job'.part = 1 /\ job'.row = <<>>
  BY <1>2
<1>5. Len(job'.row) = job'.part - 1 /\ \A m : PartsAre(job'.row, file, m)
  BY <1>4 DEF PartsAre
<1>6. ASSUME file \in Untouched
      PROVE  json'.size = Sizes[source[file]] /\ RowsAreCopies(file, json')
  <2>1. CASE Readable(meta[file])
    <3>1. json' = meta[file]
      BY <1>2, <2>1 DEF Inherited
    <3> QED
      BY <1>6, <2>1, <3>1 DEF SplitInv, StoredFits
  <2>2. CASE ~ Readable(meta[file])
    <3>1. json' = [key |-> keys, size |-> Sizes[source[file]], blob |-> blob, rows |-> <<>>]
      BY <1>2, <2>2 DEF Prototype
    <3>2. json'.rows = <<>> /\ json'.size = Sizes[source[file]]
      BY <3>1
    <3> QED
      BY <3>2 DEF RowsAreCopies
  <2> QED
    BY <2>1, <2>2
<1>7. SplitFits'
  BY <1>1, <1>3, <1>4, <1>5, <1>6
     DEF SplitFits, Untouched, RowsAreCopies, IsCopy, PartsAre, PartIs
<1>8. StoredFits'
  BY <1>1 DEF SplitInv, StoredFits, Untouched, Readable, RowsAreCopies, IsCopy, PartsAre, PartIs
<1> QED
  BY <1>7, <1>8 DEF SplitInv

\* The part that is encrypted is the part that is due, of the size it should have.
LEMMA EncryptSplitInv ==
  ASSUME UploadInv, SplitInv, Encrypt \/ EncryptPartly
  PROVE  SplitInv'
<1>1. PICK whole \in BOOLEAN :
        /\ pc = "encrypt" /\ pc' = "upload"
        /\ job' = [job EXCEPT !.image = ImageOfPart(whole)]
        /\ UNCHANGED <<source, meta, todo, json, edited, shortened>>
  BY DEF Encrypt, EncryptPartly, history
<1> DEFINE image == ImageOfPart(whole)
<1>2. /\ job \in Job /\ todo # <<>> /\ json \in Metadata /\ image \in Image
      /\ job.parts = NumParts(Sizes[job.version], json.blob)
      /\ job.part \in 1 .. job.parts + 1 /\ job.part # job.parts + 1 /\ job.parts \in Nat
  BY <1>1, ImageIsOfTheFile DEF UploadInv, JobFits, Working, Job
<1>3. file' = file
  BY <1>1 DEF file
<1>4. ASSUME file \in Untouched
      PROVE  PartIs(image, job.part, file, json)
  <2>1. job.version = source[file] /\ json.size = Sizes[job.version]
    BY <1>1, <1>4 DEF SplitInv, SplitFits, Working
  <2>2. json.size \in Nat /\ json.blob \in Nat \ {0}
    BY <1>2 DEF Metadata
  <2>3. /\ image.file = file /\ image.part = job.part /\ image.contentSize = json.size
        /\ image.blobSize = IF job.parts = 1 THEN json.size
                            ELSE PartSize(json.size, json.blob, job.part)
    BY <2>1 DEF ImageOfPart
  <2>4. image.blobSize = PartSize(json.size, json.blob, job.part)
    <3>1. CASE job.parts = 1
      <4>1. job.part = 1 /\ NumParts(json.size, json.blob) = 1
        BY <1>2, <2>1, <3>1
      <4> QED
        BY <2>2, <2>3, <3>1, <4>1, OnlyPart
    <3>2. CASE job.parts # 1
      BY <2>3, <3>2
    <3> QED
      BY <3>1, <3>2
  <2> QED
    BY <2>3, <2>4 DEF PartIs
<1> HIDE DEF image
<1>5. /\ job'.version = job.version /\ job'.part = job.part /\ job'.row = job.row
      /\ job'.image = image
  BY <1>1, <1>2, JobWithImage DEF image
<1>6. SplitFits'
  <2> SUFFICES ASSUME file \in Untouched
               PROVE  /\ job'.version = source'[file] /\ json'.size = Sizes[source'[file]]
                      /\ RowsAreCopies(file, json')
                      /\ Len(job'.row) = job'.part - 1 /\ PartsAre(job'.row, file, json')
                      /\ PartIs(job'.image, job'.part, file, json')
    BY <1>1, <1>3 DEF SplitFits, Untouched, RowsAreCopies, IsCopy, PartsAre, PartIs
  <2>1. /\ job.version = source[file] /\ json.size = Sizes[source[file]]
        /\ RowsAreCopies(file, json)
        /\ Len(job.row) = job.part - 1 /\ PartsAre(job.row, file, json)
    BY <1>1 DEF SplitInv, SplitFits, Working
  <2> QED
    BY <1>1, <1>4, <1>5, <2>1
<1>7. StoredFits'
  BY <1>1 DEF SplitInv, StoredFits, Untouched, Readable, RowsAreCopies, IsCopy, PartsAre, PartIs
<1> QED
  BY <1>6, <1>7 DEF SplitInv

\* A part that is left out makes the copy a short one.
LEMMA EncryptFailsSplitInv == SplitInv /\ EncryptFails => SplitInv'
<1> SUFFICES ASSUME SplitInv, EncryptFails PROVE SplitInv'
  OBVIOUS
<1>1. /\ shortened' = shortened \cup {file} /\ UNCHANGED <<source, meta, todo, edited>>
  BY DEF EncryptFails
<1>2. file' = file
  BY <1>1 DEF file
<1>3. SplitFits'
  BY <1>1, <1>2 DEF SplitFits, Untouched
<1>4. StoredFits'
  BY <1>1 DEF SplitInv, StoredFits, Untouched, Readable, RowsAreCopies, IsCopy, PartsAre, PartIs
<1> QED
  BY <1>3, <1>4 DEF SplitInv

\* The image is appended to the row, which is where its part belongs.
LEMMA UploadSplitInv == UploadInv /\ SplitInv /\ Upload => SplitInv'
<1> SUFFICES ASSUME UploadInv, SplitInv, Upload PROVE SplitInv'
  OBVIOUS
<1>1. /\ pc = "upload" /\ AfterPart(Append(job.row, job.image))
      /\ UNCHANGED <<source, meta, todo, json, edited, shortened>>
  BY DEF Upload, history
<1>2. /\ job \in Job /\ job.image \in Image /\ job.row \in Seq(Image) /\ job.part \in Nat
  BY <1>1 DEF UploadInv, JobFits, Working, Job
<1> DEFINE row == Append(job.row, job.image)
<1>3. row \in Seq(Image) /\ Len(row) = Len(job.row) + 1
  BY <1>2
<1>4. pc' \in {"store", "encrypt"} /\ file' = file
  BY <1>1 DEF AfterPart, file
<1>5. /\ job'.version = job.version /\ job'.part = job.part + 1 /\ job'.row = row
  <2>1. job' = [job EXCEPT !.part = @ + 1, !.row = row, !.image = NoJob]
    BY <1>1 DEF AfterPart
  <2> HIDE DEF row
  <2> QED
    BY <1>2, <1>3, <2>1, NextJob
<1>6. SplitFits'
  <2> SUFFICES ASSUME file \in Untouched
               PROVE  /\ job'.version = source'[file] /\ json'.size = Sizes[source'[file]]
                      /\ RowsAreCopies(file, json')
                      /\ Len(job'.row) = job'.part - 1 /\ PartsAre(job'.row, file, json')
    BY <1>1, <1>4 DEF SplitFits, Untouched, RowsAreCopies, IsCopy, PartsAre, PartIs
  <2>1. /\ job.version = source[file] /\ json.size = Sizes[source[file]]
        /\ RowsAreCopies(file, json)
        /\ Len(job.row) = job.part - 1 /\ PartsAre(job.row, file, json)
        /\ PartIs(job.image, job.part, file, json)
    BY <1>1 DEF SplitInv, SplitFits, Working
  <2>2. job.part = Len(job.row) + 1 /\ Len(row) = job'.part - 1
    BY <1>2, <1>3, <1>5, <2>1
  <2>3. PartsAre(row, file, json)
    BY <1>2, <2>1, <2>2, MoreParts
  <2> HIDE DEF row
  <2> QED
    BY <1>1, <1>5, <2>1, <2>2, <2>3
<1>7. StoredFits'
  BY <1>1 DEF SplitInv, StoredFits, Untouched, Readable, RowsAreCopies, IsCopy, PartsAre, PartIs
<1> QED
  BY <1>6, <1>7 DEF SplitInv

\* What will be written has one complete row more.
LEMMA OpenMetadataSplitInv == UploadInv /\ SplitInv /\ OpenMetadata => SplitInv'
<1> SUFFICES ASSUME UploadInv, SplitInv, OpenMetadata PROVE SplitInv'
  OBVIOUS
<1>1. /\ pc = "store" /\ pc' = "write" /\ json' = WithNewRow
      /\ meta' = [meta EXCEPT ![file] = Torn]
      /\ UNCHANGED <<source, todo, job, edited, shortened>>
  BY DEF OpenMetadata, history
<1>2. /\ json \in Metadata /\ job \in Job /\ todo # <<>>
      /\ job.parts = NumParts(Sizes[job.version], json.blob)
      /\ job.part = job.parts + 1 /\ job.parts \in Nat
  BY <1>1 DEF UploadInv, JobFits, Working, Job
<1>3. file \in Files /\ file' = file /\ job.row \in Seq(Image)
  BY <1>1, <1>2, FileInProgress DEF UploadInv, Job, file
<1>4. /\ json'.size = json.size /\ json'.blob = json.blob
      /\ json'.rows = Append(json.rows, job.row) /\ json.rows \in Seq(Seq(Image))
  BY <1>1, <1>2, <1>3, LongerMetadata DEF WithNewRow
<1>5. ASSUME file \in Untouched
      PROVE  RowsAreCopies(file, json')
  <2>1. /\ job.version = source[file] /\ json.size = Sizes[source[file]]
        /\ RowsAreCopies(file, json)
        /\ Len(job.row) = job.part - 1 /\ PartsAre(job.row, file, json)
    BY <1>1, <1>5 DEF SplitInv, SplitFits, Working
  <2>2. IsCopy(job.row, file, json)
    BY <1>2, <2>1 DEF IsCopy
  <2> SUFFICES ASSUME NEW i \in DOMAIN json'.rows PROVE IsCopy(json'.rows[i], file, json)
    BY <1>4 DEF RowsAreCopies, IsCopy, PartsAre, PartIs
  <2> DEFINE rows == json.rows
  <2>3. rows \in Seq(Seq(Image)) /\ json'.rows = Append(rows, job.row)
    BY <1>4
  <2>4. \A j \in DOMAIN rows : IsCopy(rows[j], file, json)
    BY <2>1 DEF RowsAreCopies
  <2> HIDE DEF rows
  <2>5. i \in 1 .. Len(rows) + 1 /\ DOMAIN rows = 1 .. Len(rows) /\ Len(rows) \in Nat
    BY <1>3, <2>3
  <2>6. CASE i = Len(rows) + 1
    <3>1. json'.rows[i] = job.row
      BY <1>3, <2>3, <2>6
    <3> QED
      BY <2>2, <3>1
  <2>7. CASE i \in 1 .. Len(rows)
    <3>1. json'.rows[i] = rows[i]
      BY <1>3, <2>3, <2>7
    <3> QED
      BY <2>4, <2>5, <2>7, <3>1
  <2> QED
    BY <2>5, <2>6, <2>7
<1>6. json'.rows # <<>>
  <2>1. Append(json.rows, job.row) # <<>>
    BY <1>4, AppendIsSome
  <2> QED
    BY <1>4, <2>1
<1>7. SplitFits'
  <2> SUFFICES ASSUME file \in Untouched
               PROVE  /\ job'.version = source'[file] /\ json'.size = Sizes[source'[file]]
                      /\ RowsAreCopies(file, json')
                      /\ Len(job'.row) = job'.part - 1 /\ PartsAre(job'.row, file, json')
                      /\ json'.rows # <<>>
    BY <1>1, <1>3 DEF SplitFits, Untouched, RowsAreCopies, IsCopy, PartsAre, PartIs
  <2>1. /\ job.version = source[file] /\ json.size = Sizes[source[file]]
        /\ Len(job.row) = job.part - 1 /\ PartsAre(job.row, file, json)
    BY <1>1 DEF SplitInv, SplitFits, Working
  <2>2. PartsAre(job.row, file, json')
    BY <1>4, <2>1 DEF PartsAre, PartIs
  <2> QED
    BY <1>1, <1>4, <1>5, <1>6, <2>1, <2>2
<1>8. StoredFits'
  <2>1. meta'[file] = Torn /\ \A f \in Files \ {file} : meta'[f] = meta[f]
    BY <1>1, <1>3 DEF UploadInv, StateFits
  <2> QED
    BY <1>1, <2>1 DEF SplitInv, StoredFits, Untouched, Readable, RowsAreCopies, IsCopy,
       PartsAre, PartIs
<1> QED
  BY <1>7, <1>8 DEF SplitInv

LEMMA WriteMetadataSplitInv == UploadInv /\ SplitInv /\ WriteMetadata => SplitInv'
<1> SUFFICES ASSUME UploadInv, SplitInv, WriteMetadata PROVE SplitInv'
  OBVIOUS
<1>1. /\ pc = "write" /\ pc' \in {"off", "next"} /\ file \in Files
      /\ meta' = [meta EXCEPT ![file] = json]
      /\ UNCHANGED <<source, edited, shortened>>
  BY WriteMetadataUploadInv DEF WriteMetadata, FileEnds, Gone
<1>2. SplitFits'
  BY <1>1 DEF SplitFits, Working
<1>3. meta'[file] = json /\ \A f \in Files \ {file} : meta'[f] = meta[f]
  BY <1>1 DEF UploadInv, StateFits
<1>4. file \in Untouched =>
        json.rows # <<>> /\ RowsAreCopies(file, json) /\ json.size = Sizes[source[file]]
  BY <1>1 DEF SplitInv, SplitFits, Working
<1>5. ASSUME NEW f \in Untouched, Readable(meta'[f])
      PROVE  /\ meta'[f].rows # <<>> /\ RowsAreCopies(f, meta'[f])
             /\ meta'[f].size = Sizes[source[f]]
  <2>1. CASE f = file
    BY <1>3, <1>4, <2>1
  <2>2. CASE f # file
    BY <1>3, <1>5, <2>2 DEF SplitInv, StoredFits, Untouched
  <2> QED
    BY <2>1, <2>2
<1>6. StoredFits'
  BY <1>1, <1>5 DEF StoredFits, Untouched, Readable, RowsAreCopies, IsCopy, PartsAre, PartIs
<1> QED
  BY <1>2, <1>6 DEF SplitInv

\* A source that changes after its file was begun marks the file as edited.
LEMMA WorldSplitInv ==
  ASSUME UploadInv, SplitInv, UploadFails \/ Hangup \/ (\E f \in Files : EditSource(f))
  PROVE  SplitInv'
<1>1. CASE UploadFails \/ Hangup
  <2>1. UNCHANGED <<source, meta, pc, todo, json, job, edited, shortened>>
    BY <1>1 DEF UploadFails, Hangup, process, history
  <2>2. StoredFits'
    BY <2>1 DEF SplitInv, StoredFits, Untouched, Readable, RowsAreCopies, IsCopy, PartsAre, PartIs
  <2>3. SplitFits'
    BY <2>1 DEF SplitInv, SplitFits, Working, file, Untouched, RowsAreCopies, IsCopy, PartsAre,
       PartIs
  <2> QED
    BY <2>2, <2>3 DEF SplitInv
<1>2. CASE \E f \in Files : EditSource(f)
  <2>1. PICK g \in Files : EditSource(g)
    BY <1>2
  <2>2. /\ UNCHANGED <<meta, pc, todo, json, job, shortened>>
        /\ edited \subseteq edited'
        /\ \A f \in Files \ {g} : source'[f] = source[f]
        /\ g \in edited' \/ (meta[g] = Absent /\ (json = Absent \/ file # g))
    BY <2>1 DEF EditSource, process, UploadInv, StateFits
  <2>3. ASSUME NEW f \in Untouched', Readable(meta[f])
        PROVE  f \in Untouched /\ source'[f] = source[f]
    BY <2>2, <2>3 DEF Untouched, Readable
  <2>4. StoredFits'
    BY <2>2, <2>3 DEF SplitInv, StoredFits, Readable, RowsAreCopies, IsCopy, PartsAre, PartIs
  <2>5. ASSUME Working, file \in Untouched'
        PROVE  file \in Untouched /\ source'[file] = source[file]
    <3>1. json # Absent
      BY <2>5, UploaderNilAssumption DEF UploadInv, JobFits
    <3> QED
      BY <2>2, <2>5, <3>1 DEF Untouched
  <2>6. SplitFits'
    BY <2>2, <2>5 DEF SplitInv, SplitFits, Working, file, RowsAreCopies, IsCopy, PartsAre, PartIs
  <2> QED
    BY <2>4, <2>6 DEF SplitInv
<1> QED
  BY <1>1, <1>2

LEMMA StepSplitInv == UploadInv /\ SplitInv /\ UploaderNext => SplitInv'
<1> SUFFICES ASSUME UploadInv, SplitInv, UploaderNext PROVE SplitInv'
  OBVIOUS
<1>1. CASE \/ Start \/ InputEnds \/ SkipFile \/ DieOfMetadata \/ VerifyFails \/ Kill
           \/ WriteFails
  <2>1. UNCHANGED <<meta, source, edited, shortened>> /\ pc' \in {"off", "next"}
    BY <1>1 DEF Start, InputEnds, SkipFile, DieOfMetadata, VerifyFails, Kill, WriteFails, FileEnds,
       Dies, Gone, history
  <2> QED
    BY <2>1, IdleSplitInv
<1> QED
  BY <1>1, BeginFileSplitInv, EncryptSplitInv, EncryptFailsSplitInv, UploadSplitInv,
     OpenMetadataSplitInv, WriteMetadataSplitInv, WorldSplitInv DEF UploaderNext, Upkeep

-----------------------------------------------------------------------------
(* The client *)

LEMMA MarksStay == UploaderNext => edited \subseteq edited' /\ shortened \subseteq shortened'
BY DEF UploaderNext, Upkeep, Start, InputEnds, SkipFile, DieOfMetadata, BeginFile, Encrypt,
   EncryptPartly, EncryptFails, UploadFails, VerifyFails, Upload, OpenMetadata, WriteMetadata,
   WriteFails, FileEnds, Hangup, Kill, EditSource, Dies, Gone, history

LEMMA InitResponseFits == ArchiveInit => ResponseFits
BY DEF ArchiveInit, ResponseFits

\* What a response began with is not touched by the uploader.
LEMMA UploaderResponseFits ==
  ASSUME ResponseFits, UploaderNext \/ UNCHANGED <<edited, shortened>>, UNCHANGED clientVars
  PROVE  ResponseFits'
<1>1. UNCHANGED <<request, js, served, sent, reply>>
  BY DEF clientVars
<1>2. request \in Untouched' => request \in Untouched
  BY MarksStay DEF Untouched
<1> QED
  BY <1>1, <1>2 DEF ResponseFits, RowsAreCopies, IsCopy, PartsAre, PartIs, HasBadImage

\* A call that is answered at once is no response of a file.
LEMMA AnswerResponseFits ==
  ASSUME NEW r, Answer(r) \/ Fail(r), r \notin {"serving", "complete", "broken"}
  PROVE  ResponseFits'
BY AnswerChanges DEF ResponseFits

\* A response begins with the metadata of the moment.
LEMMA ServesResponseFits ==
  ASSUME UploadInv, SplitInv, NEW f \in Files, request' = f, Readable(meta[f]), Serve(f)
  PROVE  ResponseFits'
<1>1. /\ request' = f /\ served' = <<>> /\ sent' = 0
      /\ js' = meta[f] /\ reply' = "serving"
      /\ UNCHANGED <<edited, shortened>>
  BY DEF Serve, uploaderVars, history
<1>2. meta[f] \in Metadata
  BY DEF UploadInv, StateFits, Readable
<1>3. ASSUME f \in Untouched
      PROVE  /\ js'.rows # <<>> /\ RowsAreCopies(f, js')
             /\ PartsAre(served', f, js') /\ \A n \in DOMAIN served' : served'[n].whole
             /\ Len(served') <= NumParts(js'.size, js'.blob)
             /\ sent' = Bytes(js'.size, js'.blob, Len(served'))
  <2>1. js'.size \in Nat /\ js'.blob \in Nat \ {0}
    BY <1>1, <1>2 DEF Metadata
  <2>2. NumParts(js'.size, js'.blob) \in Nat /\ Bytes(js'.size, js'.blob, 0) = 0
    BY <2>1, PartsAreSome, NoPartYet
  <2>3. Len(served') = 0 /\ DOMAIN served' = {}
    BY <1>1
  <2>4. js'.rows # <<>> /\ RowsAreCopies(f, js')
    BY <1>1, <1>3 DEF SplitInv, StoredFits
  <2> QED
    BY <1>1, <2>2, <2>3, <2>4 DEF PartsAre
<1>4. request' \in Untouched' => f \in Untouched
  BY <1>1 DEF Untouched
<1> QED
  BY <1>1, <1>2, <1>3, <1>4 DEF ResponseFits, RowsAreCopies, IsCopy, PartsAre, PartIs

LEMMA ReadMetadataResponseFits ==
  ASSUME UploadInv, SplitInv, NEW f \in Files, request' = f, ReadMetadata(f)
  PROVE  ResponseFits'
BY ServesResponseFits, AnswerResponseFits DEF ReadMetadata

LEMMA GetResponseFits ==
  ASSUME UploadInv, SplitInv, NEW f \in Files, Get(f)
  PROVE  ResponseFits'
BY ReadMetadataResponseFits, AnswerResponseFits DEF Get

LEMMA LookResponseFits ==
  ASSUME UploadInv, SplitInv, ClientFits,
         \/ ReadDirAll \/ ListPage \/ ReadNothing \/ Read
         \/ \E f \in Files : Lookup(f) \/ LookupFails(f) \/ GetFile(f)
  PROVE  ResponseFits'
<1>1. ASSUME NEW names, List(names) PROVE ResponseFits'
  BY <1>1, AnswerResponseFits DEF List
<1>2. ASSUME NEW r \in {"not found", "EPERM", "EIO"}, ListFails(r) PROVE ResponseFits'
  BY <1>2, AnswerResponseFits DEF ListFails
<1>3. CASE ReadDirAll \/ ListPage
  BY <1>1, <1>2, <1>3, OtherErrorsStay, ReadMetadataResponseFits DEF ReadDirAll, ListPage, Names
<1>4. CASE ReadNothing
  BY <1>4, AnswerResponseFits DEF ReadNothing
<1>5. CASE Read
  BY <1>5, GetResponseFits DEF Read, ClientFits
<1>6. ASSUME NEW f \in Files, Lookup(f) \/ LookupFails(f) \/ GetFile(f) PROVE ResponseFits'
  <2>1. CASE Lookup(f) \/ LookupFails(f)
    <3>1. PICK r \in {"ok", "ENOENT", "EPERM", "EIO"} : Answer(r) \/ Fail(r)
      BY <2>1, OtherErrorsStay DEF Lookup, LookupFails
    <3> QED
      BY <3>1, AnswerResponseFits
  <2>2. CASE GetFile(f)
    BY <2>2, GetResponseFits DEF GetFile
  <2> QED
    BY <1>6, <2>1, <2>2
<1> QED
  BY <1>3, <1>4, <1>5, <1>6

-----------------------------------------------------------------------------
(* A response about an untouched file *)

\* Its copies are rows of all its parts.
LEMMA EveryRowHasAll ==
  ASSUME js \in Metadata, RowsAreCopies(request, js), served \in Seq(Image),
         NEW i \in DOMAIN js.rows
  PROVE  /\ HasPart(i) <=> Len(served) < NumParts(js.size, js.blob)
         /\ HasPart(i) => /\ Part(i) \in Image
                          /\ PartIs(Part(i), Len(served) + 1, request, js)
<1> DEFINE row == js.rows[i]
<1>1. IsCopy(row, request, js)
  BY DEF RowsAreCopies
<1>2. row \in Seq(Image)
  <2>1. js.rows \in Seq(Seq(Image))
    BY DEF Metadata
  <2> QED
    BY <2>1
<1>3. /\ HasPart(i) <=> Len(served) < Len(row)
      /\ Part(i) = row[Len(served) + 1]
  BY DEF HasPart, Part
<1> HIDE DEF row
<1>4. ASSUME Len(served) < Len(row)
      PROVE  Len(served) + 1 \in DOMAIN row /\ row[Len(served) + 1] \in Image
  BY <1>2, <1>4
<1> QED
  BY <1>1, <1>3, <1>4 DEF IsCopy, PartsAre

\* Each image announces the size of the file.
LEMMA AnnouncedSize ==
  ASSUME NEW images \in Seq(Image), images # <<>>, NEW f, NEW m, PartsAre(images, f, m)
  PROVE  Announced(images) = m.size
<1>1. 1 \in DOMAIN images
  OBVIOUS
<1> QED
  BY <1>1 DEF Announced, PartsAre, PartIs

LEMMA ServeBlobResponseFits ==
  ASSUME ClientFits, ResponseFits, reply = "serving", NEW i \in DOMAIN js.rows, ServeBlob(i)
  PROVE  ResponseFits'
<1>1. /\ served' = Append(served, Part(i)) /\ sent' = sent + Part(i).blobSize
      /\ reply' = "serving" /\ Part(i).whole /\ HasPart(i)
      /\ UNCHANGED <<request, js, edited, shortened>>
  BY DEF ServeBlob, Fits, Decrypts, ResponseGoesOn, uploaderVars, history
<1>2. js \in Metadata /\ served \in Seq(Image)
  BY DEF ResponseFits, ClientFits
<1>3. js.size \in Nat /\ js.blob \in Nat \ {0} /\ js # Absent
  BY <1>2, UploaderNilAssumption DEF Metadata
<1> SUFFICES ASSUME request \in Untouched
             PROVE  /\ PartsAre(served', request, js)
                    /\ \A n \in DOMAIN served' : served'[n].whole
                    /\ Len(served') <= NumParts(js.size, js.blob)
                    /\ sent' = Bytes(js.size, js.blob, Len(served'))
  BY <1>1, <1>3 DEF ResponseFits, Untouched, RowsAreCopies, IsCopy, PartsAre, PartIs
<1>4. /\ RowsAreCopies(request, js)
      /\ PartsAre(served, request, js) /\ \A n \in DOMAIN served : served[n].whole
      /\ sent = Bytes(js.size, js.blob, Len(served))
  BY <1>3 DEF ResponseFits
<1> DEFINE image == Part(i)
<1>5. /\ image \in Image /\ PartIs(image, Len(served) + 1, request, js)
      /\ Len(served) < NumParts(js.size, js.blob)
  BY <1>1, <1>2, <1>4, EveryRowHasAll
<1>6. image.whole /\ image.blobSize = PartSize(js.size, js.blob, Len(served) + 1)
  BY <1>1, <1>5 DEF PartIs
<1>7. served' = Append(served, image) /\ sent' = sent + image.blobSize
  BY <1>1
<1> HIDE DEF image
<1>8. PartsAre(served', request, js)
  BY <1>2, <1>4, <1>5, <1>7, MoreParts
<1>9. \A n \in DOMAIN served' : served'[n].whole
  <2> SUFFICES ASSUME NEW n \in DOMAIN served' PROVE served'[n].whole
    OBVIOUS
  <2>1. n \in 1 .. Len(served) + 1 /\ DOMAIN served = 1 .. Len(served) /\ Len(served) \in Nat
    BY <1>2, <1>5, <1>7
  <2>2. CASE n = Len(served) + 1
    <3>1. served'[n] = image
      BY <1>2, <1>5, <1>7, <2>2
    <3> QED
      BY <1>6, <3>1
  <2>3. CASE n \in 1 .. Len(served)
    <3>1. served'[n] = served[n]
      BY <1>2, <1>5, <1>7, <2>3
    <3> QED
      BY <1>4, <2>1, <2>3, <3>1
  <2> QED
    BY <2>1, <2>2, <2>3
<1>10. PICK n \in Nat : n = Len(served)
  BY <1>2
<1>11. Len(served') = n + 1
  BY <1>2, <1>5, <1>7, <1>10
<1>12. PICK N \in Nat : N = NumParts(js.size, js.blob)
  BY <1>3, PartsAreSome
<1>13. n + 1 <= N
  BY <1>5, <1>10, <1>12
<1>14. sent' = Bytes(js.size, js.blob, n + 1)
  <2>1. sent = Bytes(js.size, js.blob, n) /\ image.blobSize = PartSize(js.size, js.blob, n + 1)
    BY <1>4, <1>6, <1>10
  <2>2. n < NumParts(js.size, js.blob)
    BY <1>5, <1>10
  <2>3. Bytes(js.size, js.blob, n) + PartSize(js.size, js.blob, n + 1)
          = Bytes(js.size, js.blob, n + 1)
    BY <1>3, <2>2, NextPart
  <2> QED
    BY <1>7, <2>1, <2>3, Zenon
<1> QED
  BY <1>8, <1>9, <1>11, <1>12, <1>13, <1>14

\* A response that ends has all parts, or met an image that breaks it.
LEMMA ServeEndsResponseFits ==
  ASSUME ClientFits, ResponseFits, reply = "serving", ServeEnds
  PROVE  ResponseFits'
<1>1. /\ UNCHANGED <<request, js, served, sent, edited, shortened>>
      /\ reply' = IF sent = Announced(served) /\ (served = <<>> => NumBlobs = 0)
                    THEN "complete" ELSE "broken"
  BY DEF ServeEnds, ResponseGoesOn, uploaderVars, history
<1>2. js \in Metadata /\ served \in Seq(Image)
  BY DEF ResponseFits, ClientFits
<1>3. js.size \in Nat /\ js.blob \in Nat \ {0} /\ js # Absent /\ js.rows \in Seq(Seq(Image))
  BY <1>2, UploaderNilAssumption DEF Metadata
<1> SUFFICES ASSUME request \in Untouched
             PROVE  /\ reply' = "complete" => Len(served) = NumParts(js.size, js.blob)
                    /\ reply' = "broken" => HasBadImage(js)
  BY <1>1, <1>2, <1>3
     DEF ResponseFits, Untouched, RowsAreCopies, IsCopy, PartsAre, PartIs, HasBadImage
<1>4. /\ js.rows # <<>> /\ RowsAreCopies(request, js) /\ PartsAre(served, request, js)
      /\ Len(served) <= NumParts(js.size, js.blob)
      /\ sent = Bytes(js.size, js.blob, Len(served))
  BY <1>3 DEF ResponseFits
<1>5. PICK n \in Nat : n = Len(served)
  BY <1>2
<1>6. PICK N \in Nat \ {0} : N = NumParts(js.size, js.blob)
  BY <1>3, PartsAreSome
<1>7. n <= N /\ sent = Bytes(js.size, js.blob, n) /\ (n # 0 <=> served # <<>>)
  BY <1>2, <1>4, <1>5, <1>6
<1>8. NumBlobs = N
  <2>1. 1 \in DOMAIN js.rows
    BY <1>3, <1>4
  <2> QED
    BY <1>4, <1>6, <2>1 DEF NumBlobs, RowsAreCopies, IsCopy
<1>9. n # 0 => Announced(served) = js.size
  BY <1>2, <1>4, <1>7, AnnouncedSize
<1>10. ASSUME reply' = "complete"
       PROVE  n = N
  <2>1. n # 0 /\ sent = js.size
    BY <1>1, <1>6, <1>7, <1>8, <1>9, <1>10
  <2>2. n < N => Bytes(js.size, js.blob, n) # js.size
    BY <1>3, <1>6, <2>1, NextPart
  <2> QED
    BY <1>7, <2>1, <2>2
<1>11. ASSUME ~ HasBadImage(js)
       PROVE  reply' = "complete"
  <2>1. n = N
    <3> SUFFICES ASSUME n < N PROVE FALSE
      BY <1>7
    <3>1. PICK i \in DOMAIN js.rows : HasPart(i) => ~ Fits(Part(i))
      BY <1>5, <1>8 DEF ServeEnds
    <3>2. HasPart(i)
      BY <1>2, <1>4, <1>5, <1>6, EveryRowHasAll
    <3> DEFINE image == Part(i)
    <3>3. image \in Image /\ PartIs(image, n + 1, request, js)
      BY <1>2, <1>4, <1>5, <3>2, EveryRowHasAll
    <3>4. Decrypts(image)
      <4>1. Len(served) + 1 \in DOMAIN js.rows[i]
        <5> DEFINE row == js.rows[i]
        <5>1. row \in Seq(Image) /\ Len(served) < Len(row)
          BY <1>3, <3>2 DEF HasPart
        <5> HIDE DEF row
        <5>2. Len(served) + 1 \in DOMAIN row
          BY <1>2, <5>1
        <5> QED
          BY <5>2 DEF row
      <4> QED
        BY <1>11, <4>1 DEF HasBadImage, Part
    <3>5. ~ (Decrypts(image) /\ sent + image.blobSize <= Announced(Append(served, image)))
      BY <3>1, <3>2 DEF Fits
    <3>6. image.blobSize = PartSize(js.size, js.blob, n + 1)
      BY <3>3 DEF PartIs
    <3> HIDE DEF image
    <3>7. Append(served, image) \in Seq(Image) /\ Append(served, image) # <<>>
      BY <1>2, <3>3
    <3>8. PartsAre(Append(served, image), request, js)
      BY <1>2, <1>4, <1>5, <3>3, MoreParts
    <3>9. Announced(Append(served, image)) = js.size
      BY <3>7, <3>8, AnnouncedSize
    <3>10. sent + image.blobSize = Bytes(js.size, js.blob, n + 1)
           /\ Bytes(js.size, js.blob, n + 1) <= js.size
      <4>1. n < NumParts(js.size, js.blob)
        BY <1>6
      <4>2. /\ Bytes(js.size, js.blob, n) + PartSize(js.size, js.blob, n + 1)
                 = Bytes(js.size, js.blob, n + 1)
            /\ Bytes(js.size, js.blob, n + 1) <= js.size
        BY <1>3, <4>1, NextPart
      <4> QED
        BY <1>7, <3>6, <4>2, Zenon
    <3> QED
      BY <3>4, <3>5, <3>9, <3>10
  <2>2. Bytes(js.size, js.blob, n) = js.size /\ n # 0
    BY <1>6, <2>1 DEF Bytes
  <2> QED
    BY <1>1, <1>7, <1>9, <2>2
<1> QED
  BY <1>5, <1>6, <1>10, <1>11

LEMMA ServeResponseFits ==
  ASSUME ClientFits, ResponseFits, reply = "serving",
         ServeEnds \/ HostsFail \/ \E i \in DOMAIN js.rows : ServeBlob(i)
  PROVE  ResponseFits'
<1>1. CASE HostsFail
  <2>1. reply' = "unreachable" /\ UNCHANGED <<request, js, served, sent, edited, shortened>>
    BY <1>1 DEF HostsFail, ResponseGoesOn, uploaderVars, history
  <2> QED
    BY <2>1 DEF ResponseFits, Untouched, RowsAreCopies, IsCopy, PartsAre, PartIs
<1> QED
  BY <1>1, ServeEndsResponseFits, ServeBlobResponseFits

ServedInv == SplitInv /\ ResponseFits

LEMMA ServedInvariant == Spec => [](ArchiveInv /\ ServedInv)
<1>1. ArchiveInit => ServedInv
  BY InitSplitInv, InitResponseFits DEF ArchiveInit, ServedInv
<1>2. ArchiveInv /\ ServedInv /\ [ArchiveNext]_vars => ServedInv'
  <2> SUFFICES ASSUME ArchiveInv, ServedInv, [ArchiveNext]_vars PROVE ServedInv'
    OBVIOUS
  <2>1. UploadInv /\ ClientFits /\ SplitInv /\ ResponseFits
    BY DEF ArchiveInv, ServedInv
  <2>2. SplitInv'
    <3>1. CASE UNCHANGED uploaderVars
      BY <2>1, <3>1 DEF uploaderVars, process, history, SplitInv, StoredFits, SplitFits, Working,
         file, Untouched, Readable, RowsAreCopies, IsCopy, PartsAre, PartIs
    <3> QED
      BY <2>1, <3>1, ClientStepsOnlyLook, StepSplitInv
  <2>3. ResponseFits'
    <3>1. CASE UNCHANGED clientVars
      BY <2>1, <3>1, ClientStepsOnlyLook, UploaderResponseFits DEF uploaderVars, history
    <3>2. CASE ~ UNCHANGED clientVars
      BY <2>1, <3>2, LookResponseFits, ServeResponseFits DEF ArchiveNext, vars
    <3> QED
      BY <3>1, <3>2
  <2> QED
    BY <2>2, <2>3 DEF ServedInv
<1> QED
  BY <1>1, <1>2, ArchiveInvariant, PTL DEF Spec

-----------------------------------------------------------------------------
(* Theorems *)

\* A response of the announced length is the file: all its parts once, whole and
\* in order, even if they come from copies of different runs, for every file that
\* was not edited between runs and no copy of which lacks a part.
THEOREM CompleteResponsesAreTheFile == Spec => []CompleteIsTheFile
<1>1. ArchiveInv /\ ServedInv => CompleteIsTheFile
  <2> SUFFICES ASSUME ArchiveInv, ServedInv, reply = "complete",
                      request \notin edited \cup shortened
               PROVE  /\ Len(served) = NumParts(js.size, js.blob)
                      /\ \A n \in DOMAIN served :
                           served[n].part = n /\ served[n].whole /\ served[n].file = request
    BY DEF CompleteIsTheFile
  <2>1. js # Absent
    BY UploaderNilAssumption DEF ServedInv, ResponseFits
  <2>2. request \in Untouched
    BY DEF ServedInv, ResponseFits, Untouched
  <2> QED
    BY <2>1, <2>2 DEF ServedInv, ResponseFits, PartsAre, PartIs
<1> QED
  BY <1>1, ServedInvariant, PTL

\* A response about such a file that finds a host for each part is only broken off
\* because one of its images is damaged or has no room for one block more: neither
\* a run that adds a copy meanwhile nor a change of copies from one part to the
\* next does harm.
THEOREM BrokenResponsesHaveCauses == Spec => []BrokenHasACause
<1>1. ArchiveInv /\ ServedInv => BrokenHasACause
  <2> SUFFICES ASSUME ArchiveInv, ServedInv, reply = "broken",
                      request \notin edited \cup shortened
               PROVE  HasBadImage(js)
    BY DEF BrokenHasACause, HasBadImage
  <2>1. js # Absent
    BY UploaderNilAssumption DEF ServedInv, ResponseFits
  <2>2. request \in Untouched
    BY DEF ServedInv, ResponseFits, Untouched
  <2> QED
    BY <2>1, <2>2 DEF ServedInv, ResponseFits
<1> QED
  BY <1>1, ServedInvariant, PTL

=============================================================================
