--------------------------- MODULE ArchiveProofs ---------------------------
(***************************************************************************)
(* Theorems about Uploader and Archive, for all inputs, options, sizes and *)
(* numbers of files, runs and faults.  UploadInv says what the uploader    *)
(* knows at each of its steps; ClientFits, what a client that looks at the *)
(* metadata of the moment still knows of them later.                       *)
(***************************************************************************)
EXTENDS Archive, Integers, FiniteSetTheorems, TLAPS

Job == [version : Versions, parts : Nat, part : Nat, row : Seq(Image),
        image : Image \cup {NoJob}]

LEMMA VersionsHaveSizes ==
  /\ 1 \in Versions
  /\ \A v \in Versions : Sizes[v] \in Nat
BY UploaderAssumption DEF Versions

LEMMA Division ==
  ASSUME NEW x \in Nat, NEW b \in Nat \ {0}
  PROVE  /\ x = (b * (x \div b)) + (x % b)
         /\ x % b \in 0 .. b - 1
         /\ x \div b \in Nat
OBVIOUS

LEMMA Distributes ==
  ASSUME NEW a \in Int, NEW q \in Int
  PROVE  a * q = a * (q - 1) + a
OBVIOUS

\* Every part of a split file has a size that is not negative.
LEMMA PartsFit ==
  ASSUME NEW size \in Nat, NEW blob \in Nat \ {0}, NEW part \in Nat \ {0},
         part <= NumParts(size, blob)
  PROVE  PartSize(size, blob, part) \in Nat
<1> DEFINE n == size + blob - 1
           q == n \div blob
<1>1. CASE size > blob
  <2>1. n \in Nat /\ NumParts(size, blob) = q
    BY <1>1 DEF NumParts
  <2>2. n = (blob * q) + (n % blob) /\ n % blob \in 0 .. blob - 1 /\ q \in Nat
    <3> HIDE DEF n
    <3> QED
      BY <2>1, Division
  <2> HIDE DEF q
  <2>3. CASE part < q
    BY <2>1, <2>3 DEF PartSize
  <2>4. CASE part = q
    <3>1. blob * q = blob * (q - 1) + blob
      BY <2>2, Distributes
    <3>2. blob * q \in Nat /\ blob * (q - 1) \in Int /\ (part - 1) * blob = blob * (q - 1)
      BY <2>2, <2>4
    <3>3. blob * (q - 1) <= size
      BY <2>2, <3>1, <3>2
    <3> QED
      BY <2>1, <2>4, <3>2, <3>3 DEF PartSize
  <2> QED
    BY <2>1, <2>2, <2>3, <2>4
<1>2. CASE size <= blob
  BY <1>2 DEF NumParts, PartSize
<1> QED
  BY <1>1, <1>2

LEMMA PartsAreSome ==
  ASSUME NEW size \in Nat, NEW blob \in Nat \ {0}
  PROVE  NumParts(size, blob) \in Nat \ {0}
<1> DEFINE n == size + blob - 1
           q == n \div blob
<1>1. CASE size > blob
  <2>1. n \in Nat /\ n >= blob /\ NumParts(size, blob) = q
    BY <1>1 DEF NumParts
  <2>2. n = (blob * q) + (n % blob) /\ n % blob \in 0 .. blob - 1 /\ q \in Nat
    <3> HIDE DEF n
    <3> QED
      BY <2>1, Division
  <2> HIDE DEF n, q
  <2>3. q # 0
    BY <2>1, <2>2
  <2> QED
    BY <2>1, <2>2, <2>3
<1>2. CASE size <= blob
  BY <1>2 DEF NumParts
<1> QED
  BY <1>1, <1>2

LEMMA NextJob ==
  ASSUME NEW j \in Job, NEW row \in Seq(Image)
  PROVE  LET k == [j EXCEPT !.part = @ + 1, !.row = row, !.image = NoJob] IN
         /\ k \in Job
         /\ k.version = j.version /\ k.parts = j.parts
         /\ k.part = j.part + 1 /\ k.row = row /\ k.image = NoJob
<1>1. PICK p \in Nat : p = j.part + 1
  BY DEF Job
<1> DEFINE k == [j EXCEPT !.part = p, !.row = row, !.image = NoJob]
<1>2. k \in Job
  BY DEF Job
<1>3. k.version = j.version /\ k.parts = j.parts
  BY DEF Job
<1>4. k.part = p /\ k.row = row /\ k.image = NoJob
  BY DEF Job
<1> QED
  BY <1>1, <1>2, <1>3, <1>4

LEMMA JobWithImage ==
  ASSUME NEW j \in Job, NEW img \in Image
  PROVE  LET k == [j EXCEPT !.image = img] IN
         /\ k \in Job
         /\ k.version = j.version /\ k.parts = j.parts
         /\ k.part = j.part /\ k.row = j.row /\ k.image = img
BY DEF Job

LEMMA LongerMetadata ==
  ASSUME NEW m \in Metadata, NEW row \in Seq(Image)
  PROVE  LET n == [m EXCEPT !.rows = Append(@, row)] IN
         /\ n \in Metadata
         /\ n.key = m.key /\ n.size = m.size /\ n.blob = m.blob
         /\ n.rows = Append(m.rows, row)
         /\ n.rows \in Seq(Seq(Image)) /\ m.rows \in Seq(Seq(Image))
<1>1. Append(m.rows, row) \in Seq(Seq(Image)) BY DEF Metadata
<1> QED BY <1>1 DEF Metadata

-----------------------------------------------------------------------------
(* The inductive invariant of the uploader *)

Working == pc \in {"encrypt", "upload", "store", "write"}

StateFits ==
  /\ source \in [Files -> Versions]
  /\ meta \in [Files -> Metadata \cup {Absent, Torn}]
  /\ copies \in [Files -> Metadata \cup {Absent}]
  /\ pc \in {"off", "next", "encrypt", "upload", "store", "write"}
  /\ todo \in Seq(Files)
  /\ options \in [replicate : BOOLEAN, dryRun : BOOLEAN]
  /\ terminate \in BOOLEAN
  /\ keys \in Nat /\ runs \in Nat /\ faults \in Nat /\ late \in Nat
  /\ edited \subseteq Files /\ shortened \subseteq Files

RowOpens(row, key, f) == \A j \in DOMAIN row : row[j].key = key /\ row[j].file = f
Opens(m, f) == \A i \in DOMAIN m.rows : RowOpens(m.rows[i], m.key, f)

\* While a file is in progress, everything that was made for it carries its key.
JobFits ==
  /\ ~ Working => json = Absent /\ job = NoJob
  /\ Working =>
       /\ todo # <<>>
       /\ json \in Metadata /\ Opens(json, file)
       /\ job \in Job /\ RowOpens(job.row, json.key, file)
       /\ job.parts = NumParts(Sizes[job.version], json.blob)
       /\ job.part \in 1 .. job.parts + 1
       /\ pc \in {"encrypt", "upload"} <=> job.part # job.parts + 1
  /\ pc = "upload" =>
       job.image \in Image /\ job.image.key = json.key /\ job.image.file = file

MetaFits == \A f \in Files : Readable(meta[f]) => Opens(meta[f], f)

\* Metadata m is metadata c with some more copies.
Adds(m, c) ==
  /\ SubSeq(m.rows, 1, Len(c.rows)) = c.rows
  /\ [m EXCEPT !.rows = <<>>] = [c EXCEPT !.rows = <<>>]

\* What was complete once is what can be read, or what the file in progress
\* started from.
CopiesFit ==
  /\ \A f \in Files : Readable(meta[f]) => copies[f] = meta[f]
  /\ \A f \in Files : meta[f] = Absent => copies[f] = Absent
  /\ pc \in {"encrypt", "upload", "store"} =>
       copies[file] = Absent \/ (copies[file] = json /\ options.replicate)
  /\ pc = "write" =>
       copies[file] = Absent \/ (Adds(json, copies[file]) /\ options.replicate)

LateFits == late = 0 \/ (late = 1 /\ pc = "off")

UploadInv == StateFits /\ JobFits /\ MetaFits /\ CopiesFit /\ LateFits

LEMMA MetaFitsIsTheProperty == MetaFits <=> KeyOpensEveryImage
BY DEF MetaFits, KeyOpensEveryImage, Opens, RowOpens

LEMMA FileInProgress == StateFits /\ todo # <<>> => file \in Files
BY DEF StateFits, file

LEMMA AddsNothing ==
  ASSUME NEW c \in Metadata, NEW row \in Seq(Image)
  PROVE  Adds([c EXCEPT !.rows = Append(@, row)], c)
<1> DEFINE m == [c EXCEPT !.rows = Append(@, row)]
<1>1. m.rows = Append(c.rows, row) /\ c.rows \in Seq(Seq(Image))
  BY LongerMetadata
<1>2. SubSeq(m.rows, 1, Len(c.rows)) = c.rows
  <2> DEFINE s == c.rows
  <2>1. s \in Seq(Seq(Image)) /\ Append(s, row) \in Seq(Seq(Image))
    BY <1>1
  <2> HIDE DEF s
  <2>2. SubSeq(Append(s, row), 1, Len(s)) = s
    BY <2>1
  <2> QED
    BY <1>1, <2>2 DEF s
<1>3. [m EXCEPT !.rows = <<>>] = [c EXCEPT !.rows = <<>>]
  BY DEF Metadata
<1> QED
  BY <1>2, <1>3 DEF Adds

\* Appending keeps what holds of every element.
LEMMA LongerRow ==
  ASSUME NEW row \in Seq(Image), NEW img \in Image, NEW key, NEW f,
         RowOpens(row, key, f), img.key = key, img.file = f
  PROVE  RowOpens(Append(row, img), key, f)
<1> SUFFICES ASSUME NEW j \in DOMAIN Append(row, img)
             PROVE  Append(row, img)[j].key = key /\ Append(row, img)[j].file = f
  BY DEF RowOpens
<1>1. j \in 1 .. Len(row) + 1 /\ DOMAIN row = 1 .. Len(row) /\ Len(row) \in Nat
  OBVIOUS
<1>2. CASE j = Len(row) + 1
  BY <1>2
<1>3. CASE j \in 1 .. Len(row)
  <2>1. Append(row, img)[j] = row[j]
    BY <1>3
  <2> QED
    BY <1>1, <1>3, <2>1 DEF RowOpens
<1> QED
  BY <1>1, <1>2, <1>3

LEMMA MoreRowsOpen ==
  ASSUME NEW m \in Metadata, NEW row \in Seq(Image), NEW f,
         Opens(m, f), RowOpens(row, m.key, f)
  PROVE  Opens([m EXCEPT !.rows = Append(@, row)], f)
<1> DEFINE n == [m EXCEPT !.rows = Append(@, row)]
           s == m.rows
<1>1. n.key = m.key /\ n.rows = Append(s, row) /\ s \in Seq(Seq(Image))
  BY LongerMetadata
<1>2. \A i \in DOMAIN s : RowOpens(s[i], m.key, f)
  BY DEF Opens
<1> HIDE DEF s, n
<1>3. ASSUME NEW i \in DOMAIN Append(s, row) PROVE RowOpens(Append(s, row)[i], m.key, f)
  <2>1. i \in 1 .. Len(s) + 1 /\ DOMAIN s = 1 .. Len(s) /\ Len(s) \in Nat
    BY <1>1, <1>3
  <2>2. CASE i = Len(s) + 1
    <3>1. Append(s, row)[i] = row
      BY <1>1, <2>2
    <3> QED
      BY <3>1
  <2>3. CASE i \in 1 .. Len(s)
    <3>1. Append(s, row)[i] = s[i]
      BY <1>1, <2>3
    <3> QED
      BY <1>2, <2>1, <2>3, <3>1
  <2> QED
    BY <2>1, <2>2, <2>3
<1>4. Opens(n, f)
  BY <1>1, <1>3 DEF Opens
<1> QED
  BY <1>4 DEF n

LEMMA AddsKeepsSize ==
  ASSUME NEW m \in Metadata, NEW c \in Metadata, Adds(m, c)
  PROVE  m.size = c.size
<1>1. [m EXCEPT !.rows = <<>>].size = m.size /\ [c EXCEPT !.rows = <<>>].size = c.size
  BY DEF Metadata
<1> QED
  BY <1>1 DEF Adds

LEMMA InitUploadInv == UploaderInit => UploadInv
<1> SUFFICES ASSUME UploaderInit PROVE UploadInv
  OBVIOUS
<1>1. StateFits
  <2>1. source \in [Files -> Versions]
    BY VersionsHaveSizes DEF UploaderInit
  <2>2. /\ meta \in [Files -> Metadata \cup {Absent, Torn}]
        /\ copies \in [Files -> Metadata \cup {Absent}]
    BY DEF UploaderInit
  <2>3. options \in [replicate : BOOLEAN, dryRun : BOOLEAN] /\ terminate \in BOOLEAN
    BY DEF UploaderInit
  <2>4. todo \in Seq(Files)
    BY DEF UploaderInit
  <2> QED
    BY <2>1, <2>2, <2>3, <2>4 DEF UploaderInit, StateFits
<1>2. JobFits /\ LateFits
  BY DEF UploaderInit, JobFits, LateFits, Working
<1>3. MetaFits /\ CopiesFit
  BY DEF UploaderInit, MetaFits, CopiesFit, Readable
<1> QED
  BY <1>1, <1>2, <1>3 DEF UploadInv

\* Steps that touch neither metadata nor the file in progress.
LEMMA FrameUploadInv ==
  ASSUME UploadInv, StateFits',
         UNCHANGED <<meta, copies, pc, todo, options, json, job, late>>
  PROVE  UploadInv'
<1>1. JobFits'
  BY DEF UploadInv, JobFits, Working, Opens, RowOpens, file
<1>2. MetaFits' /\ CopiesFit' /\ LateFits'
  BY DEF UploadInv, MetaFits, CopiesFit, LateFits, Readable, Opens, RowOpens, Adds, file
<1> QED
  BY <1>1, <1>2 DEF UploadInv

\* Steps after which no file is in progress, and that leave the metadata.
LEMMA IdleUploadInv ==
  ASSUME UploadInv, StateFits', pc' \in {"off", "next"},
         json' = Absent, job' = NoJob, UNCHANGED <<meta, copies>>,
         late' = 0 \/ (late' = late /\ pc' = "off")
  PROVE  UploadInv'
<1>1. JobFits'
  BY DEF JobFits, Working
<1>2. MetaFits' /\ CopiesFit' /\ LateFits'
  BY DEF UploadInv, MetaFits, CopiesFit, LateFits, Readable, Opens, RowOpens
<1> QED
  BY <1>1, <1>2 DEF UploadInv

LEMMA DiesUploadInv == UploadInv /\ Dies /\ faults' \in Nat => UploadInv'
<1> SUFFICES ASSUME UploadInv, Dies, faults' \in Nat PROVE UploadInv'
  OBVIOUS
<1>1. StateFits'
  <2>1. /\ pc' = "off" /\ todo' = <<>> /\ terminate' = FALSE
        /\ options' = [replicate |-> FALSE, dryRun |-> FALSE]
        /\ UNCHANGED <<source, meta, copies, keys, runs, edited, shortened, late>>
    BY DEF Dies, Gone
  <2>2. todo' \in Seq(Files)
    BY <2>1
  <2>3. options' \in [replicate : BOOLEAN, dryRun : BOOLEAN] /\ terminate' \in BOOLEAN
    BY <2>1, Zenon
  <2> QED
    BY <2>1, <2>2, <2>3 DEF UploadInv, StateFits
<1>2. late' = late /\ pc' = "off"
  BY DEF Dies, Gone
<1> QED
  BY <1>1, <1>2, IdleUploadInv DEF Dies, Gone

\* The uploader between two files.
LEMMA NextFileUploadInv ==
  ASSUME UploadInv, Start \/ InputEnds \/ SkipFile \/ DieOfMetadata
  PROVE  UploadInv'
<1>1. CASE Start
  <2>1. todo' \in Seq(Files) /\ options' \in [replicate : BOOLEAN, dryRun : BOOLEAN]
    BY <1>1, UploaderAssumption DEF Start
  <2>2. StateFits'
    BY <1>1, <2>1 DEF Start, UploadInv, StateFits
  <2>3. json' = Absent /\ job' = NoJob
    BY <1>1 DEF Start, UploadInv, JobFits, Working
  <2> QED
    BY <1>1, <2>2, <2>3, IdleUploadInv DEF Start
<1>2. CASE InputEnds \/ DieOfMetadata
  BY <1>2, DiesUploadInv DEF InputEnds, DieOfMetadata, UploadInv, StateFits
<1>3. CASE SkipFile
  <2>1. /\ pc = "next" /\ todo # <<>> /\ todo' = Tail(todo)
        /\ UNCHANGED <<source, meta, pc, options, terminate, json, job, keys, history>>
    BY <1>3 DEF SkipFile
  <2>2. todo' \in Seq(Files)
    BY <2>1 DEF UploadInv, StateFits
  <2>3. StateFits'
    BY <2>1, <2>2 DEF UploadInv, StateFits, history
  <2>4. json' = Absent /\ job' = NoJob
    BY <2>1 DEF UploadInv, JobFits, Working
  <2>5. late' = 0
    BY <2>1 DEF UploadInv, LateFits, history
  <2> QED
    BY <2>1, <2>3, <2>4, <2>5, IdleUploadInv DEF history
<1> QED
  BY <1>1, <1>2, <1>3

LEMMA BeginFileUploadInv == UploadInv /\ BeginFile => UploadInv'
<1> SUFFICES ASSUME UploadInv, BeginFile PROVE UploadInv'
  OBVIOUS
<1>1. /\ pc = "next" /\ todo # <<>> /\ pc' = "encrypt" /\ keys' = keys + 1
      /\ ~ PassOver(meta[file]) /\ meta[file] # Torn
      /\ UNCHANGED <<source, meta, todo, options, terminate, history>>
  BY DEF BeginFile
<1>2. PICK blob \in BlobSizes :
        /\ json' = IF Readable(meta[file]) THEN Inherited(meta[file], blob) ELSE Prototype(blob)
        /\ job' = [version |-> source[file], parts |-> NumParts(Sizes[source[file]], json'.blob),
                   part |-> 1, row |-> <<>>, image |-> NoJob]
  BY DEF BeginFile
<1>3. file \in Files /\ file' = file
  BY <1>1, FileInProgress DEF UploadInv, file
<1>4. source[file] \in Versions /\ Sizes[source[file]] \in Nat /\ blob \in Nat \ {0}
  BY <1>3, VersionsHaveSizes, UploaderAssumption DEF UploadInv, StateFits
<1>5. /\ json' \in Metadata /\ Opens(json', file)
      /\ copies[file] = Absent \/ (copies[file] = json' /\ options.replicate)
  <2>1. CASE Readable(meta[file])
    <3>1. json' = meta[file] /\ options.replicate
      BY <1>1, <1>2, <2>1 DEF Inherited, PassOver
    <3>2. meta[file] \in Metadata
      BY <1>3, <2>1 DEF UploadInv, StateFits, Readable
    <3> QED
      BY <1>3, <2>1, <3>1, <3>2 DEF UploadInv, MetaFits, CopiesFit
  <2>2. CASE ~ Readable(meta[file])
    <3>1. json' = [key |-> keys, size |-> Sizes[source[file]], blob |-> blob, rows |-> <<>>]
      BY <1>2, <2>2 DEF Prototype
    <3>2. json'.rows = <<>> /\ json' \in Metadata
      BY <1>4, <3>1 DEF UploadInv, StateFits, Metadata
    <3>3. Opens(json', file)
      BY <3>2 DEF Opens
    <3>4. meta[file] = Absent
      BY <1>1, <2>2 DEF Readable
    <3> QED
      BY <1>3, <3>2, <3>3, <3>4 DEF UploadInv, CopiesFit
  <2> QED
    BY <2>1, <2>2
<1>6. NumParts(Sizes[source[file]], json'.blob) \in Nat \ {0}
  BY <1>4, <1>5, PartsAreSome DEF Metadata
<1>7. job' \in Job /\ job'.part = 1 /\ job'.row = <<>> /\ job'.version = source[file]
      /\ job'.parts = NumParts(Sizes[source[file]], json'.blob)
  BY <1>2, <1>4, <1>6 DEF Job
<1>8. StateFits'
  BY <1>1 DEF UploadInv, StateFits, history
<1>9. RowOpens(job'.row, json'.key, file)
  BY <1>7 DEF RowOpens
<1>10. JobFits'
  BY <1>1, <1>3, <1>5, <1>6, <1>7, <1>9 DEF JobFits, Working, Opens, RowOpens
<1>11. MetaFits' /\ CopiesFit' /\ LateFits'
  BY <1>1, <1>3, <1>5 DEF UploadInv, MetaFits, CopiesFit, LateFits, Readable, Opens, RowOpens,
     history
<1> QED
  BY <1>8, <1>10, <1>11 DEF UploadInv

-----------------------------------------------------------------------------
(* One part *)

LEMMA ImageIsOfTheFile ==
  ASSUME UploadInv, pc = "encrypt", NEW whole \in BOOLEAN
  PROVE  /\ ImageOfPart(whole) \in Image
         /\ ImageOfPart(whole).key = json.key /\ ImageOfPart(whole).file = file
<1> DEFINE version == IF job.parts = 1 THEN source[file] ELSE job.version
           bytes == IF job.parts = 1 THEN Sizes[version]
                    ELSE PartSize(Sizes[version], json.blob, job.part)
<1>1. /\ json \in Metadata /\ job \in Job /\ todo # <<>>
      /\ job.parts = NumParts(Sizes[job.version], json.blob)
      /\ job.part \in 1 .. job.parts + 1 /\ job.part # job.parts + 1
  BY DEF UploadInv, JobFits, Working
<1>2. /\ json.key \in Nat /\ json.blob \in Nat \ {0}
      /\ job.version \in Versions /\ job.part \in Nat \ {0} /\ job.parts \in Nat
      /\ job.part <= job.parts
  BY <1>1 DEF Metadata, Job
<1>3. file \in Files /\ source[file] \in Versions
  BY <1>1, FileInProgress DEF UploadInv, StateFits
<1>4. version \in Versions /\ Sizes[job.version] \in Nat
  BY <1>2, <1>3, VersionsHaveSizes
<1>5. bytes \in Nat
  <2>1. CASE job.parts = 1
    BY <1>4, <2>1, VersionsHaveSizes
  <2>2. CASE job.parts # 1
    <3>1. PartSize(Sizes[job.version], json.blob, job.part) \in Nat
      BY <1>1, <1>2, <1>4, PartsFit
    <3> QED
      BY <2>2, <3>1
  <2> QED
    BY <2>1, <2>2
<1>6. ImageOfPart(whole) =
        [file |-> file, key |-> json.key, part |-> job.part, whole |-> whole, version |-> version,
         contentSize |-> Sizes[job.version], blobSize |-> bytes]
  BY DEF ImageOfPart
<1> HIDE DEF version, bytes
<1> QED
  BY <1>2, <1>3, <1>4, <1>5, <1>6 DEF Image

LEMMA EncryptUploadInv ==
  ASSUME UploadInv, Encrypt \/ EncryptPartly
  PROVE  UploadInv'
<1>1. PICK whole \in BOOLEAN :
        /\ pc = "encrypt" /\ pc' = "upload"
        /\ job' = [job EXCEPT !.image = ImageOfPart(whole)]
        /\ faults' \in Nat
        /\ UNCHANGED <<source, meta, todo, options, terminate, json, keys,
                       runs, edited, shortened, copies, late>>
  <2>1. faults + 1 \in Nat /\ faults \in Nat
    BY DEF UploadInv, StateFits
  <2> QED
    BY <2>1 DEF Encrypt, EncryptPartly, history
<1> DEFINE img == ImageOfPart(whole)
<1>2. img \in Image /\ img.key = json.key /\ img.file = file
  BY <1>1, ImageIsOfTheFile
<1>3. /\ json \in Metadata /\ Opens(json, file) /\ job \in Job /\ todo # <<>>
      /\ RowOpens(job.row, json.key, file)
      /\ job.parts = NumParts(Sizes[job.version], json.blob)
      /\ job.part \in 1 .. job.parts + 1 /\ job.part # job.parts + 1
  BY <1>1 DEF UploadInv, JobFits, Working
<1> HIDE DEF img
<1>4. /\ job' \in Job
      /\ job'.version = job.version /\ job'.parts = job.parts
      /\ job'.part = job.part /\ job'.row = job.row /\ job'.image = img
  BY <1>1, <1>2, <1>3, JobWithImage DEF img
<1>5. file' = file
  BY <1>1 DEF file
<1>6. StateFits'
  BY <1>1 DEF UploadInv, StateFits
<1>7. JobFits'
  BY <1>1, <1>2, <1>3, <1>4, <1>5 DEF JobFits, Working, Opens, RowOpens
<1>8. MetaFits' /\ CopiesFit' /\ LateFits'
  BY <1>1, <1>5 DEF UploadInv, MetaFits, CopiesFit, LateFits, Readable, Opens, RowOpens
<1> QED
  BY <1>6, <1>7, <1>8 DEF UploadInv

\* After a part the row is as long as it was, or has an image more.
LEMMA AfterPartUploadInv ==
  ASSUME UploadInv, StateFits', pc \in {"encrypt", "upload"},
         NEW row \in Seq(Image), RowOpens(row, json.key, file), AfterPart(row),
         UNCHANGED <<meta, todo, options, json, copies, late>>
  PROVE  UploadInv'
<1>1. /\ json \in Metadata /\ Opens(json, file) /\ job \in Job /\ todo # <<>>
      /\ job.parts = NumParts(Sizes[job.version], json.blob)
      /\ job.part \in 1 .. job.parts + 1 /\ job.part # job.parts + 1
      /\ job.parts \in Nat
  BY DEF UploadInv, JobFits, Working, Job
<1>2. job' = [job EXCEPT !.part = @ + 1, !.row = row, !.image = NoJob]
  BY DEF AfterPart
<1>3. /\ job' \in Job
      /\ job'.version = job.version /\ job'.parts = job.parts
      /\ job'.part = job.part + 1 /\ job'.row = row
  BY <1>1, <1>2, NextJob
<1>4. pc' = IF job.part = job.parts THEN "store" ELSE "encrypt"
  BY DEF AfterPart
<1>5. file' = file
  BY DEF file
<1>6. job'.part \in 1 .. job'.parts + 1 /\ (pc' = "encrypt" <=> job'.part # job'.parts + 1)
  BY <1>1, <1>3, <1>4
<1>7. JobFits'
  BY <1>1, <1>3, <1>4, <1>5, <1>6 DEF JobFits, Working, Opens, RowOpens
<1>8. MetaFits' /\ CopiesFit' /\ LateFits'
  BY <1>4, <1>5 DEF UploadInv, MetaFits, CopiesFit, LateFits, Readable, Opens, RowOpens
<1> QED
  BY <1>7, <1>8 DEF UploadInv

LEMMA EncryptFailsUploadInv == UploadInv /\ EncryptFails => UploadInv'
<1> SUFFICES ASSUME UploadInv, EncryptFails PROVE UploadInv'
  OBVIOUS
<1>1. /\ pc = "encrypt" /\ faults' = faults + 1 /\ shortened' = shortened \cup {file}
      /\ AfterPart(job.row)
      /\ UNCHANGED <<source, meta, todo, options, terminate, json, keys, runs, edited, copies,
                     late>>
  BY DEF EncryptFails
<1>2. todo # <<>> /\ job \in Job /\ RowOpens(job.row, json.key, file)
  BY <1>1 DEF UploadInv, JobFits, Working
<1>3. file \in Files /\ job.row \in Seq(Image)
  BY <1>2, FileInProgress DEF UploadInv, Job
<1>4. StateFits'
  BY <1>1, <1>3 DEF UploadInv, StateFits, AfterPart
<1> QED
  BY <1>1, <1>2, <1>3, <1>4, AfterPartUploadInv

LEMMA UploadUploadInv == UploadInv /\ Upload => UploadInv'
<1> SUFFICES ASSUME UploadInv, Upload PROVE UploadInv'
  OBVIOUS
<1>1. /\ pc = "upload" /\ AfterPart(Append(job.row, job.image))
      /\ UNCHANGED <<source, meta, todo, options, terminate, json, keys, history>>
  BY DEF Upload
<1>2. /\ job \in Job /\ RowOpens(job.row, json.key, file)
      /\ job.image \in Image /\ job.image.key = json.key /\ job.image.file = file
  BY <1>1 DEF UploadInv, JobFits, Working
<1>3. job.row \in Seq(Image)
  BY <1>2 DEF Job
<1>4. Append(job.row, job.image) \in Seq(Image)
  BY <1>2, <1>3
<1>5. RowOpens(Append(job.row, job.image), json.key, file)
  BY <1>2, <1>3, LongerRow
<1>6. StateFits'
  BY <1>1 DEF UploadInv, StateFits, AfterPart, history
<1> QED
  BY <1>1, <1>4, <1>5, <1>6, AfterPartUploadInv DEF history

-----------------------------------------------------------------------------
(* The metadata are stored *)

\* The metadata file is empty, and what will be written to it adds a copy.
LEMMA OpenMetadataUploadInv ==
  ASSUME UploadInv, OpenMetadata
  PROVE  /\ UploadInv' /\ file \in Files
         /\ meta' = [meta EXCEPT ![file] = Torn]
         /\ copies[file] # Absent => options.replicate
<1>1. /\ pc = "store" /\ json' = WithNewRow /\ meta' = [meta EXCEPT ![file] = Torn]
      /\ pc' = "write"
      /\ UNCHANGED <<source, todo, options, terminate, job, keys, history>>
  BY DEF OpenMetadata
<1>2. /\ json \in Metadata /\ Opens(json, file) /\ job \in Job /\ todo # <<>>
      /\ RowOpens(job.row, json.key, file)
      /\ job.parts = NumParts(Sizes[job.version], json.blob)
      /\ job.part \in 1 .. job.parts + 1 /\ job.part = job.parts + 1
  BY <1>1 DEF UploadInv, JobFits, Working
<1>3. file \in Files /\ file' = file /\ job.row \in Seq(Image)
  BY <1>1, <1>2, FileInProgress DEF UploadInv, Job, file
<1>4. json' = [json EXCEPT !.rows = Append(@, job.row)]
  BY <1>1 DEF WithNewRow
<1>5. /\ json' \in Metadata /\ json'.key = json.key /\ json'.blob = json.blob
      /\ Opens(json', file) /\ Adds(json', json)
  BY <1>2, <1>3, <1>4, LongerMetadata, MoreRowsOpen, AddsNothing
<1>6. copies[file] = Absent \/ (copies[file] = json /\ options.replicate)
  BY <1>1 DEF UploadInv, CopiesFit
<1>7. StateFits'
  <2>1. meta' \in [Files -> Metadata \cup {Absent, Torn}]
    BY <1>1 DEF UploadInv, StateFits
  <2> QED
    BY <1>1, <2>1 DEF UploadInv, StateFits, history
<1>8. JobFits'
  BY <1>1, <1>2, <1>3, <1>5 DEF JobFits, Working, Opens, RowOpens
<1>9. /\ meta'[file] = Torn /\ copies' = copies
      /\ \A f \in Files \ {file} : meta'[f] = meta[f]
  BY <1>1, <1>3 DEF UploadInv, StateFits, history
<1>10. MetaFits'
  <2>1. \A f \in Files : Readable(meta'[f]) => meta'[f] = meta[f]
    BY <1>9 DEF Readable
  <2> QED
    BY <2>1 DEF UploadInv, MetaFits, Opens, RowOpens
<1>11. CopiesFit'
  <2>1. \A f \in Files : Readable(meta[f])' => copies'[f] = meta'[f]
    BY <1>9 DEF UploadInv, CopiesFit, Readable
  <2>2. \A f \in Files : meta'[f] = Absent => copies'[f] = Absent
    BY <1>9, UploaderNilAssumption DEF UploadInv, CopiesFit
  <2>3. copies'[file'] = Absent \/ (Adds(json', copies'[file']) /\ options'.replicate)
    BY <1>1, <1>3, <1>5, <1>6, <1>9
  <2> QED
    BY <1>1, <2>1, <2>2, <2>3 DEF CopiesFit, Adds
<1>12. LateFits'
  BY <1>1 DEF UploadInv, LateFits, history
<1> QED
  BY <1>1, <1>3, <1>6, <1>7, <1>8, <1>10, <1>11, <1>12 DEF UploadInv

\* The uploader goes to the next file or stops.
LEMMA FileEndsFits ==
  ASSUME UploadInv, pc = "write", FileEnds, faults' \in Nat,
         meta' \in [Files -> Metadata \cup {Absent, Torn}],
         copies' \in [Files -> Metadata \cup {Absent}]
  PROVE  StateFits' /\ JobFits' /\ LateFits' /\ pc' \in {"off", "next"}
<1>1. /\ late' = IF terminate THEN late + 1 ELSE 0
      /\ UNCHANGED <<source, keys, runs, edited, shortened>>
  BY DEF FileEnds, Gone
<1>2. todo # <<>>
  BY DEF UploadInv, JobFits, Working
<1>3. /\ pc' = IF terminate THEN "off" ELSE "next"
      /\ json' = Absent /\ job' = NoJob
      /\ todo' \in Seq(Files) /\ terminate' \in BOOLEAN
      /\ options' \in [replicate : BOOLEAN, dryRun : BOOLEAN]
  <2>1. CASE terminate
    <3>1. Gone
      BY <2>1 DEF FileEnds, StopsAfterFile
    <3>2. todo' = <<>> /\ terminate' = FALSE
          /\ options' = [replicate |-> FALSE, dryRun |-> FALSE]
          /\ pc' = "off" /\ json' = Absent /\ job' = NoJob
      BY <3>1 DEF Gone
    <3>3. todo' \in Seq(Files)
      BY <3>2
    <3>4. terminate' \in BOOLEAN /\ options' \in [replicate : BOOLEAN, dryRun : BOOLEAN]
      BY <3>2, Zenon
    <3> QED
      BY <2>1, <3>2, <3>3, <3>4
  <2>2. CASE ~ terminate
    <3>1. /\ pc' = "next" /\ todo' = Tail(todo) /\ json' = Absent /\ job' = NoJob
          /\ UNCHANGED <<options, terminate>>
      BY <2>2 DEF FileEnds, StopsAfterFile
    <3>2. todo' \in Seq(Files)
      BY <1>2, <3>1 DEF UploadInv, StateFits
    <3> QED
      BY <2>2, <3>1, <3>2 DEF UploadInv, StateFits
  <2> QED
    BY <2>1, <2>2
<1>4. late = 0
  BY DEF UploadInv, LateFits
<1>5. StateFits'
  <2>1. late' \in Nat
    BY <1>1, <1>4
  <2>2. pc' \in {"off", "next", "encrypt", "upload", "store", "write"}
    BY <1>3
  <2> QED
    BY <1>1, <1>3, <2>1, <2>2 DEF UploadInv, StateFits
<1>6. JobFits'
  BY <1>3 DEF JobFits, Working
<1>7. LateFits'
  BY <1>1, <1>3, <1>4 DEF LateFits
<1> QED
  BY <1>3, <1>5, <1>6, <1>7

\* The metadata file is complete.
LEMMA WriteMetadataUploadInv ==
  ASSUME UploadInv, WriteMetadata
  PROVE  /\ UploadInv' /\ file \in Files
         /\ meta' = [meta EXCEPT ![file] = json] /\ copies' = [copies EXCEPT ![file] = json]
         /\ json \in Metadata /\ pc' # "write"
         /\ copies[file] = Absent \/ (Adds(json, copies[file]) /\ options.replicate)
<1>1. /\ pc = "write" /\ FileEnds /\ UNCHANGED faults
      /\ meta' = [meta EXCEPT ![file] = json] /\ copies' = [copies EXCEPT ![file] = json]
  BY DEF WriteMetadata
<1>2. json \in Metadata /\ Opens(json, file) /\ todo # <<>>
  BY <1>1 DEF UploadInv, JobFits, Working
<1>3. file \in Files
  BY <1>2, FileInProgress DEF UploadInv
<1>4. copies[file] = Absent \/ (Adds(json, copies[file]) /\ options.replicate)
  BY <1>1 DEF UploadInv, CopiesFit
<1>5. StateFits' /\ JobFits' /\ LateFits' /\ pc' \in {"off", "next"}
  <2>1. /\ meta' \in [Files -> Metadata \cup {Absent, Torn}]
        /\ copies' \in [Files -> Metadata \cup {Absent}]
    BY <1>1, <1>2 DEF UploadInv, StateFits
  <2>2. faults' \in Nat
    BY <1>1 DEF UploadInv, StateFits
  <2> QED
    BY <1>1, <2>1, <2>2, FileEndsFits
<1>6. /\ meta'[file] = json /\ copies'[file] = json
      /\ \A f \in Files \ {file} : meta'[f] = meta[f] /\ copies'[f] = copies[f]
  BY <1>1, <1>3 DEF UploadInv, StateFits
<1>7. MetaFits'
  <2>1. ASSUME NEW f \in Files, Readable(meta'[f]) PROVE Opens(meta'[f], f)
    <3>1. CASE f = file
      BY <1>2, <1>6, <3>1
    <3>2. CASE f # file
      BY <1>6, <2>1, <3>2 DEF UploadInv, MetaFits
    <3> QED
      BY <3>1, <3>2
  <2> QED
    BY <2>1 DEF MetaFits, Opens, RowOpens, Readable
<1>8. CopiesFit'
  <2>1. \A f \in Files : Readable(meta[f])' => copies'[f] = meta'[f]
    BY <1>6 DEF UploadInv, CopiesFit, Readable
  <2>2. \A f \in Files : meta'[f] = Absent => copies'[f] = Absent
    BY <1>6 DEF UploadInv, CopiesFit
  <2> QED
    BY <1>5, <2>1, <2>2 DEF CopiesFit
<1> QED
  BY <1>1, <1>2, <1>3, <1>4, <1>5, <1>7, <1>8 DEF UploadInv

\* It is not, and stays as it is.
LEMMA WriteFailsUploadInv ==
  ASSUME UploadInv, WriteFails
  PROVE  UploadInv' /\ UNCHANGED <<meta, copies>> /\ faults' = faults + 1 /\ pc' # "write"
<1>1. /\ pc = "write" /\ FileEnds /\ faults' = faults + 1 /\ UNCHANGED <<meta, copies>>
  BY DEF WriteFails
<1>2. StateFits' /\ JobFits' /\ LateFits' /\ pc' \in {"off", "next"}
  BY <1>1, FileEndsFits DEF UploadInv, StateFits
<1>3. MetaFits' /\ CopiesFit'
  BY <1>1, <1>2 DEF UploadInv, MetaFits, CopiesFit, Readable, Opens, RowOpens
<1> QED
  BY <1>1, <1>2, <1>3 DEF UploadInv

-----------------------------------------------------------------------------
(* Every step *)

LEMMA WorldUploadInv ==
  ASSUME UploadInv, UploadFails \/ Hangup \/ (\E f \in Files : EditSource(f))
  PROVE  /\ UploadInv' /\ UNCHANGED <<meta, copies, pc, todo>>
         /\ faults' = faults \/ (faults' = faults + 1 /\ pc' # "write")
<1>1. CASE UploadFails
  <2>1. StateFits'
    BY <1>1 DEF UploadFails, UploadInv, StateFits, process
  <2> QED
    BY <1>1, <2>1, FrameUploadInv DEF UploadFails, process
<1>2. CASE Hangup
  <2>1. StateFits'
    BY <1>2 DEF Hangup, UploadInv, StateFits, history
  <2> QED
    BY <1>2, <2>1, FrameUploadInv DEF Hangup, history
<1>3. CASE \E f \in Files : EditSource(f)
  <2>1. PICK f \in Files : EditSource(f)
    BY <1>3
  <2>2. source' \in [Files -> Versions]
    BY <2>1 DEF EditSource, UploadInv, StateFits
  <2>3. edited' \subseteq Files
    BY <2>1 DEF EditSource, UploadInv, StateFits
  <2>4. StateFits'
    BY <2>1, <2>2, <2>3 DEF EditSource, UploadInv, StateFits, process
  <2> QED
    BY <2>1, <2>4, FrameUploadInv DEF EditSource, process
<1> QED
  BY <1>1, <1>2, <1>3

\* A step that leaves the metadata, and whether they are being written; or one
\* that breaks off the writing, which is a fault.
Quiet ==
  /\ UNCHANGED <<meta, copies, faults>>
  /\ (pc # "write" /\ pc' # "write") \/ UNCHANGED <<pc, todo>>

BreaksOff == UNCHANGED <<meta, copies>> /\ faults' = faults + 1 /\ pc' # "write"

\* The others empty the metadata file of a finished upload, or complete it.
LEMMA StepsOfMetadata ==
  ASSUME UploadInv, UploaderNext
  PROVE  UploadInv' /\ (Quiet \/ BreaksOff \/ OpenMetadata \/ WriteMetadata)
<1>1. CASE Start \/ InputEnds \/ SkipFile \/ DieOfMetadata
  <2>1. Quiet
    BY <1>1 DEF Start, InputEnds, SkipFile, DieOfMetadata, Dies, Gone, history, Quiet
  <2> QED
    BY <1>1, <2>1, NextFileUploadInv
<1>2. CASE BeginFile
  BY <1>2, BeginFileUploadInv DEF BeginFile, history, Quiet
<1>3. CASE Encrypt \/ EncryptPartly
  BY <1>3, EncryptUploadInv DEF Encrypt, EncryptPartly, history, Quiet, BreaksOff
<1>4. CASE EncryptFails
  BY <1>4, EncryptFailsUploadInv DEF EncryptFails, AfterPart, BreaksOff
<1>5. CASE Upload
  BY <1>5, UploadUploadInv DEF Upload, AfterPart, history, Quiet
<1>6. CASE VerifyFails \/ Kill
  <2>1. Dies /\ faults' = faults + 1 /\ faults \in Nat
    BY <1>6 DEF VerifyFails, Kill, UploadInv, StateFits
  <2>2. UploadInv'
    BY <2>1, DiesUploadInv
  <2>3. BreaksOff
    BY <2>1 DEF Dies, Gone, BreaksOff
  <2> QED
    BY <2>2, <2>3
<1>7. CASE UploadFails \/ Hangup \/ (\E f \in Files : EditSource(f))
  BY <1>7, WorldUploadInv DEF Quiet, BreaksOff
<1>8. CASE OpenMetadata
  BY <1>8, OpenMetadataUploadInv
<1>9. CASE WriteMetadata
  BY <1>9, WriteMetadataUploadInv
<1>10. CASE WriteFails
  BY <1>10, WriteFailsUploadInv DEF BreaksOff
<1> QED
  BY <1>1, <1>2, <1>3, <1>4, <1>5, <1>6, <1>7, <1>8, <1>9, <1>10 DEF UploaderNext, Upkeep

LEMMA ClientStepsOnlyLook == [ArchiveNext]_vars => UploaderNext \/ UNCHANGED uploaderVars
BY DEF ArchiveNext, vars, ReadDirAll, ListPage, List, ListFails, GetFile, Get, ReadMetadata,
   Serve, Lookup, LookupFails, Answer, Fail, AnswerAfter, ReadNothing, Read,
   ServeBlob, ServeEnds, HostsFail, ResponseGoesOn

LEMMA UploadInvariant == Spec => []UploadInv
<1>1. ArchiveInit => UploadInv
  BY InitUploadInv DEF ArchiveInit
<1>2. UploadInv /\ UNCHANGED uploaderVars => UploadInv'
  <2> SUFFICES ASSUME UploadInv, UNCHANGED uploaderVars PROVE UploadInv'
    OBVIOUS
  <2>1. StateFits'
    BY DEF UploadInv, StateFits, uploaderVars, process, history
  <2> QED
    BY <2>1, FrameUploadInv DEF uploaderVars, process, history
<1>3. [ArchiveNext]_vars => UploaderNext \/ UNCHANGED uploaderVars
  BY ClientStepsOnlyLook DEF vars
<1>4. UploadInv /\ [ArchiveNext]_vars => UploadInv'
  BY <1>2, <1>3, StepsOfMetadata
<1> QED
  BY <1>1, <1>4, PTL DEF Spec

-----------------------------------------------------------------------------
(* The client *)

\* What it holds on to: a name that was there, a size that was true.
ClientFits ==
  /\ listed = NoJob \/ (listed \in Files /\ meta[listed] # Absent)
  /\ node = NoJob \/ (/\ node.file \in Files /\ node.size \in Nat
                      /\ node.size # 0 => /\ copies[node.file] # Absent
                                          /\ copies[node.file].size = node.size)
  /\ request = NoJob \/ request \in Files
  /\ js = Absent \/ js \in Metadata
  /\ reply = "serving" => js \in Metadata
  /\ served \in Seq(Image) /\ sent \in Nat
  /\ diskFailed \in BOOLEAN
  /\ reply = "ENOENT" \/ (reply = "not found" /\ ~ diskFailed) => request # listed

\* Metadata stay, and sizes stay.
LEMMA FilesStay ==
  ASSUME UploadInv, UploaderNext, NEW f \in Files
  PROVE  /\ meta[f] # Absent => meta'[f] # Absent
         /\ copies[f] # Absent => /\ copies'[f] # Absent
                                  /\ copies'[f].size = copies[f].size
<1>1. CASE UNCHANGED <<meta, copies>>
  BY <1>1
<1>2. CASE OpenMetadata
  <2>1. file \in Files /\ meta' = [meta EXCEPT ![file] = Torn] /\ copies' = copies
    BY <1>2, OpenMetadataUploadInv DEF OpenMetadata, history
  <2> QED
    BY <2>1, UploaderNilAssumption DEF UploadInv, StateFits
<1>3. CASE WriteMetadata
  <2>1. /\ file \in Files /\ json \in Metadata
        /\ meta' = [meta EXCEPT ![file] = json] /\ copies' = [copies EXCEPT ![file] = json]
        /\ copies[file] = Absent \/ (Adds(json, copies[file]) /\ options.replicate)
    BY <1>3, WriteMetadataUploadInv
  <2>2. CASE f # file
    BY <2>1, <2>2 DEF UploadInv, StateFits
  <2>3. CASE f = file
    <3>1. meta'[f] = json /\ copies'[f] = json /\ json # Absent
      BY <2>1, <2>3, UploaderNilAssumption DEF UploadInv, StateFits
    <3>2. copies[f] # Absent => copies[f] \in Metadata
      BY DEF UploadInv, StateFits
    <3>3. copies[f] # Absent => json.size = copies[f].size
      BY <2>1, <2>3, <3>2, AddsKeepsSize
    <3> QED
      BY <3>1, <3>3
  <2> QED
    BY <2>2, <2>3
<1> QED
  BY <1>1, <1>2, <1>3, StepsOfMetadata DEF Quiet, BreaksOff

LEMMA InitClientFits == ArchiveInit => ClientFits
<1> SUFFICES ASSUME ArchiveInit PROVE ClientFits
  OBVIOUS
<1>1. diskFailed \in BOOLEAN
  BY Zenon DEF ArchiveInit
<1>2. served \in Seq(Image) /\ sent \in Nat
  BY DEF ArchiveInit
<1> QED
  BY <1>1, <1>2 DEF ArchiveInit, ClientFits

LEMMA UploaderClientFits ==
  UploadInv /\ ClientFits /\ UploaderNext /\ UNCHANGED clientVars => ClientFits'
<1> SUFFICES ASSUME UploadInv, ClientFits, UploaderNext, UNCHANGED clientVars PROVE ClientFits'
  OBVIOUS
<1>1. UNCHANGED <<listed, node, request, js, served, sent, reply, diskFailed>>
  BY DEF clientVars
<1>2. listed' = NoJob \/ (listed' \in Files /\ meta'[listed'] # Absent)
  BY <1>1, FilesStay DEF ClientFits
<1>3. node' = NoJob \/ (/\ node'.file \in Files /\ node'.size \in Nat
                        /\ node'.size # 0 => /\ copies'[node'.file] # Absent
                                             /\ copies'[node'.file].size = node'.size)
  BY <1>1, FilesStay DEF ClientFits
<1> QED
  BY <1>1, <1>2, <1>3 DEF ClientFits

\* What the stat service says of a file.
LEMMA StatIsTrue ==
  ASSUME UploadInv, NEW f \in Files
  PROVE  /\ SizeOf(meta[f]) \in Nat
         /\ SizeOf(meta[f]) # 0 => copies[f] # Absent /\ copies[f].size = SizeOf(meta[f])
<1>1. CASE Readable(meta[f])
  <2>1. meta[f] \in Metadata
    BY <1>1 DEF UploadInv, StateFits, Readable
  <2>2. copies[f] = meta[f]
    BY <1>1 DEF UploadInv, CopiesFit
  <2>3. SizeOf(meta[f]) = meta[f].size
    BY <1>1 DEF SizeOf
  <2> QED
    BY <2>1, <2>2, <2>3, UploaderNilAssumption DEF Metadata
<1>2. CASE ~ Readable(meta[f])
  BY <1>2 DEF SizeOf
<1> QED
  BY <1>1, <1>2

LEMMA NoImages == <<>> \in Seq(Image)
OBVIOUS

\* A call that has its answer leaves the client with a name that is there, a
\* size that is true, and metadata to serve from if it is served.
LEMMA AnsweredClientFits ==
  ASSUME UploadInv, ClientFits, UNCHANGED <<meta, copies>>,
         listed' = NoJob \/ (listed' \in Files /\ meta[listed'] # Absent),
         \/ node' = NoJob \/ node' = node
         \/ \E f \in Files : \E size \in {SizeOf(meta[f]), 0} :
              node' = [file |-> f, size |-> size],
         request' = NoJob \/ request' \in Files,
         served' = <<>>, sent' = 0,
         js' = Absent \/ js' \in Metadata,
         reply' = "serving" => js' \in Metadata,
         diskFailed' \in BOOLEAN,
         reply' = "ENOENT" \/ (reply' = "not found" /\ ~ diskFailed') => request' # listed'
  PROVE  ClientFits'
<1>1. node' = NoJob \/ (/\ node'.file \in Files /\ node'.size \in Nat
                        /\ node'.size # 0 => /\ copies[node'.file] # Absent
                                             /\ copies[node'.file].size = node'.size)
  <2>1. CASE node' = node
    BY <2>1 DEF ClientFits
  <2>2. CASE \E f \in Files : \E size \in {SizeOf(meta[f]), 0} :
               node' = [file |-> f, size |-> size]
    <3>1. PICK f \in Files : \E size \in {SizeOf(meta[f]), 0} :
                 node' = [file |-> f, size |-> size]
      BY <2>2
    <3>2. PICK size \in {SizeOf(meta[f]), 0} : node' = [file |-> f, size |-> size]
      BY <3>1
    <3>3. node'.file = f /\ node'.size = size
      BY <3>2
    <3>4. size \in Nat /\ (size # 0 => copies[f] # Absent /\ copies[f].size = size)
      <4>1. CASE size = SizeOf(meta[f])
        BY <4>1, StatIsTrue
      <4>2. CASE size = 0
        BY <4>2
      <4> QED
        BY <4>1, <4>2
    <3> QED
      BY <3>3, <3>4
  <2> QED
    BY <2>1, <2>2
<1>2. served' \in Seq(Image)
  BY NoImages
<1> QED
  BY <1>1, <1>2 DEF ClientFits

\* The errors of stat other than ENOENT do not turn into it.
LEMMA OtherErrorsStay ==
  /\ FuseErr("ENOENT") = "ENOENT"
  /\ \A err \in OtherErrors : FuseErr(err) \in {"EPERM", "EIO"}
<1>1. /\ SysErrToHttpStatus("EPERM") = 403 /\ SysErrToHttpStatus("ENOENT") = 404
      /\ SysErrToHttpStatus("EACCES") = 405 /\ SysErrToHttpStatus("EIO") = 500
  BY DEF SysErrToHttpStatus
<1>2. /\ HttpStatusToFuseErr(403) = "EPERM" /\ HttpStatusToFuseErr(404) = "ENOENT"
      /\ HttpStatusToFuseErr(405) = "EPERM" /\ HttpStatusToFuseErr(500) = "EIO"
  BY DEF HttpStatusToFuseErr
<1> QED
  BY <1>1, <1>2 DEF FuseErr, OtherErrors

LEMMA AnswerChanges ==
  ASSUME NEW r, Answer(r) \/ Fail(r)
  PROVE  /\ reply' = r /\ js' = Absent /\ served' = <<>> /\ sent' = 0
         /\ diskFailed' \in BOOLEAN /\ (Fail(r) => diskFailed')
         /\ UNCHANGED <<meta, copies>>
BY DEF Answer, Fail, AnswerAfter, uploaderVars, history

\* The client keeps only a name that it took.
LEMMA TakenIsThere ==
  ASSUME ClientFits, NEW f \in Files, listed' = Taken(f)
  PROVE  /\ listed' = NoJob \/ (listed' = f /\ meta[f] # Absent)
         /\ meta[f] = Absent => f # listed'
BY UploaderAssumption DEF Taken, ClientFits

LEMMA ListClientFits ==
  ASSUME UploadInv, ClientFits,
         \/ \E names : names \subseteq Names /\ List(names)
         \/ ListFails("not found") \/ \E err \in OtherErrors : ListFails(FuseErr(err))
  PROVE  ClientFits'
<1>1. ASSUME NEW names, names \subseteq Names, List(names)
      PROVE  ClientFits'
  <2>1. Answer("ok") /\ node' = NoJob /\ request' = NoJob
    BY <1>1 DEF List
  <2>2. listed' = NoJob \/ (listed' \in Files /\ meta[listed'] # Absent)
    BY <1>1 DEF List, Names
  <2>3. /\ reply' = "ok" /\ js' = Absent /\ served' = <<>> /\ sent' = 0
        /\ diskFailed' \in BOOLEAN /\ UNCHANGED <<meta, copies>>
    BY <2>1, AnswerChanges
  <2> QED
    BY <2>1, <2>2, <2>3, AnsweredClientFits
<1>2. ASSUME NEW r \in {"not found", "EPERM", "EIO"}, ListFails(r)
      PROVE  ClientFits'
  <2>1. Fail(r) /\ node' = NoJob /\ request' = NoJob /\ listed' = NoJob
    BY <1>2 DEF ListFails
  <2>2. /\ reply' = r /\ js' = Absent /\ served' = <<>> /\ sent' = 0
        /\ diskFailed' = TRUE /\ UNCHANGED <<meta, copies>>
    BY <2>1, AnswerChanges
  <2> QED
    BY <1>2, <2>1, <2>2, AnsweredClientFits
<1> QED
  BY <1>1, <1>2, OtherErrorsStay

LEMMA ReadMetadataClientFits ==
  ASSUME UploadInv, ClientFits, NEW f \in Files, ReadMetadata(f), request' = f,
         listed' = Taken(f) \/ listed' = NoJob,
         node' = NoJob \/ node' = node
  PROVE  ClientFits'
<1>1. listed' = NoJob \/ (listed' \in Files /\ meta[listed'] # Absent)
  BY TakenIsThere
<1>2. CASE Readable(meta[f]) /\ Serve(f)
  <2>1. /\ reply' = "serving" /\ js' = meta[f] /\ served' = <<>> /\ sent' = 0
        /\ diskFailed' = FALSE /\ UNCHANGED <<meta, copies>>
    BY <1>2 DEF Serve, uploaderVars, history
  <2>2. js' \in Metadata
    BY <1>2, <2>1 DEF UploadInv, StateFits, Readable
  <2> QED
    BY <1>1, <2>1, <2>2, AnsweredClientFits
<1>3. CASE Answer("corrupted metadata") \/ Fail("unreadable")
  <2>1. /\ reply' \in {"corrupted metadata", "unreadable"}
        /\ js' = Absent /\ served' = <<>> /\ sent' = 0
        /\ diskFailed' \in BOOLEAN /\ UNCHANGED <<meta, copies>>
    BY <1>3, AnswerChanges
  <2> QED
    BY <1>1, <2>1, AnsweredClientFits
<1> QED
  BY <1>2, <1>3 DEF ReadMetadata

LEMMA GetClientFits ==
  ASSUME UploadInv, ClientFits, NEW f \in Files, Get(f),
         listed' = Taken(f) \/ listed' = NoJob,
         node' = NoJob \/ node' = node
  PROVE  ClientFits'
<1>1. request' = f
  BY DEF Get
<1>2. listed' = NoJob \/ (listed' \in Files /\ meta[listed'] # Absent)
  BY TakenIsThere
<1>3. CASE ReadMetadata(f)
  BY <1>1, <1>3, ReadMetadataClientFits
<1>4. CASE meta[f] = Absent /\ Answer("not found")
  <2>1. /\ reply' = "not found" /\ js' = Absent /\ served' = <<>> /\ sent' = 0
        /\ diskFailed' \in BOOLEAN /\ UNCHANGED <<meta, copies>>
    BY <1>4, AnswerChanges
  <2>2. request' # listed'
    BY <1>1, <1>4, TakenIsThere, UploaderAssumption
  <2> QED
    BY <1>1, <1>2, <2>1, <2>2, AnsweredClientFits
<1>5. CASE Fail("not found")
  <2>1. /\ reply' = "not found" /\ js' = Absent /\ served' = <<>> /\ sent' = 0
        /\ diskFailed' = TRUE /\ UNCHANGED <<meta, copies>>
    BY <1>5, AnswerChanges DEF Fail, AnswerAfter
  <2> QED
    BY <1>1, <1>2, <2>1, AnsweredClientFits
<1> QED
  BY <1>3, <1>4, <1>5 DEF Get

LEMMA LookupClientFits ==
  ASSUME UploadInv, ClientFits, NEW f \in Files, Lookup(f) \/ LookupFails(f)
  PROVE  ClientFits'
<1>1. request' = f /\ listed' = Taken(f)
  BY DEF Lookup, LookupFails, Keep
<1>2. listed' = NoJob \/ (listed' \in Files /\ meta[listed'] # Absent)
  BY <1>1, TakenIsThere
<1>3. CASE meta[f] = Absent /\ Answer(FuseErr("ENOENT")) /\ Keep(f)
  <2>1. /\ reply' = "ENOENT" /\ js' = Absent /\ served' = <<>> /\ sent' = 0
        /\ diskFailed' \in BOOLEAN /\ UNCHANGED <<meta, copies>>
    BY <1>3, OtherErrorsStay, AnswerChanges
  <2>2. request' # listed' /\ node' = NoJob
    BY <1>1, <1>3, TakenIsThere DEF Keep
  <2> QED
    BY <1>1, <1>2, <2>1, <2>2, AnsweredClientFits
<1>4. CASE /\ Answer("ok")
           /\ \E size \in {SizeOf(meta[f]), 0} : node' = [file |-> f, size |-> size]
  <2>1. /\ reply' = "ok" /\ js' = Absent /\ served' = <<>> /\ sent' = 0
        /\ diskFailed' \in BOOLEAN /\ UNCHANGED <<meta, copies>>
    BY <1>4, AnswerChanges
  <2> QED
    BY <1>1, <1>2, <1>4, <2>1, AnsweredClientFits
<1>5. CASE LookupFails(f)
  <2>1. PICK err \in OtherErrors : Fail(FuseErr(err))
    BY <1>5 DEF LookupFails
  <2>2. /\ reply' \in {"EPERM", "EIO"} /\ js' = Absent /\ served' = <<>> /\ sent' = 0
        /\ diskFailed' \in BOOLEAN /\ UNCHANGED <<meta, copies>>
    BY <2>1, OtherErrorsStay, AnswerChanges
  <2>3. node' = NoJob
    BY <1>5 DEF LookupFails, Keep
  <2> QED
    BY <1>1, <1>2, <2>2, <2>3, AnsweredClientFits
<1> QED
  BY <1>3, <1>4, <1>5 DEF Lookup

LEMMA ReadNothingClientFits ==
  ASSUME UploadInv, ClientFits, ReadNothing
  PROVE  ClientFits'
<1>1. Answer("nothing") /\ request' = node.file /\ listed' = NoJob /\ node' = node
  BY DEF ReadNothing
<1>2. node.file \in Files
  BY DEF ReadNothing, ClientFits
<1>3. /\ reply' = "nothing" /\ js' = Absent /\ served' = <<>> /\ sent' = 0
      /\ diskFailed' \in BOOLEAN /\ UNCHANGED <<meta, copies>>
  BY <1>1, AnswerChanges
<1> QED
  BY <1>1, <1>2, <1>3, AnsweredClientFits

LEMMA LookClientFits ==
  ASSUME UploadInv, ClientFits,
         \/ ReadDirAll \/ ListPage \/ ReadNothing \/ Read
         \/ \E f \in Files : Lookup(f) \/ LookupFails(f) \/ GetFile(f)
  PROVE  ClientFits'
<1>1. ASSUME NEW f \in Files, GetFile(f) PROVE ClientFits'
  BY <1>1, GetClientFits DEF GetFile, Keep
<1>2. CASE ReadDirAll
  BY <1>2, ListClientFits DEF ReadDirAll
<1>3. CASE ListPage
  <2>1. CASE IndexFile \in Names /\ request' = IndexFile /\ ReadMetadata(IndexFile)
             /\ Keep(IndexFile)
    BY <2>1, ReadMetadataClientFits DEF Names, Keep
  <2>2. CASE \E names \in {Names, Names \cap Media, {}} : List(names)
    <3>1. PICK names \in {Names, Names \cap Media, {}} : List(names)
      BY <2>2
    <3> QED
      BY <3>1, ListClientFits
  <2>3. CASE ListFails("not found")
    BY <2>3, ListClientFits
  <2> QED
    BY <1>3, <2>1, <2>2, <2>3 DEF ListPage
<1>4. CASE Read
  BY <1>4, GetClientFits DEF Read, ClientFits
<1>5. CASE ReadNothing
  BY <1>5, ReadNothingClientFits
<1> QED
  BY <1>1, <1>2, <1>3, <1>4, <1>5, LookupClientFits

LEMMA ServeClientFits ==
  ASSUME UploadInv, ClientFits, reply = "serving",
         ServeEnds \/ HostsFail \/ \E i \in DOMAIN js.rows : ServeBlob(i)
  PROVE  ClientFits'
<1>1. UNCHANGED <<meta, copies, listed, node, request, js, diskFailed>>
  BY DEF ServeEnds, HostsFail, ServeBlob, ResponseGoesOn, uploaderVars, history
<1>2. reply' \in {"serving", "complete", "broken", "unreachable"}
  BY DEF ServeEnds, HostsFail, ServeBlob, ResponseGoesOn
<1>3. served' \in Seq(Image) /\ sent' \in Nat
  <2>1. CASE ServeEnds \/ HostsFail
    BY <2>1 DEF ServeEnds, HostsFail, ClientFits
  <2>2. CASE \E i \in DOMAIN js.rows : ServeBlob(i)
    <3>1. PICK i \in DOMAIN js.rows : ServeBlob(i)
      BY <2>2
    <3> DEFINE row == js.rows[i]
    <3>2. row \in Seq(Image)
      <4>1. js.rows \in Seq(Seq(Image))
        BY DEF ClientFits, Metadata
      <4> QED
        BY <4>1
    <3>3. /\ served \in Seq(Image) /\ Len(served) < Len(row) /\ sent \in Nat
          /\ served' = Append(served, row[Len(served) + 1])
          /\ sent' = sent + row[Len(served) + 1].blobSize
      BY <3>1 DEF ServeBlob, HasPart, Part, ClientFits
    <3> HIDE DEF row
    <3>4. row[Len(served) + 1] \in Image
      BY <3>2, <3>3
    <3>5. row[Len(served) + 1].blobSize \in Nat
      BY <3>4 DEF Image
    <3> QED
      BY <3>3, <3>4, <3>5
  <2> QED
    BY <2>1, <2>2
<1> QED
  BY <1>1, <1>2, <1>3 DEF ClientFits

ArchiveInv == UploadInv /\ ClientFits

LEMMA ArchiveInvariant == Spec => []ArchiveInv
<1>1. ArchiveInit => ArchiveInv
  BY InitUploadInv, InitClientFits DEF ArchiveInit, ArchiveInv
<1>2. ArchiveInv /\ [ArchiveNext]_vars => ClientFits'
  <2>1. ArchiveInv /\ UNCHANGED vars => ClientFits'
    <3> SUFFICES ASSUME ArchiveInv, UNCHANGED vars PROVE ClientFits'
      OBVIOUS
    <3>1. UNCHANGED <<meta, copies, listed, node, request, js, served, sent, reply, diskFailed>>
      BY DEF vars, uploaderVars, clientVars, history
    <3>2. diskFailed' \in BOOLEAN
      BY <3>1, Zenon DEF ArchiveInv, ClientFits
    <3> QED
      BY <3>1, <3>2 DEF ArchiveInv, ClientFits
  <2> QED
    BY <2>1, UploaderClientFits, LookClientFits, ServeClientFits DEF ArchiveInv, ArchiveNext
<1> QED
  BY <1>1, <1>2, UploadInvariant, PTL DEF Spec, ArchiveInv

-----------------------------------------------------------------------------
(* Theorems *)

\* Whatever runs, options, failures and kills made the copies of a file, the key
\* in its metadata opens all of them, and they are of that file.
THEOREM KeysOpenTheirImages == Spec => []KeyOpensEveryImage
<1>1. UploadInv => KeyOpensEveryImage
  BY MetaFitsIsTheProperty DEF UploadInv
<1> QED
  BY <1>1, UploadInvariant, PTL

\* At most one file is stored after a SIGHUP.
THEOREM SignalsAreObeyed == Spec => []HangupStops
<1>1. UploadInv => HangupStops
  BY DEF UploadInv, LateFits, HangupStops
<1> QED
  BY <1>1, UploadInvariant, PTL

\* Only --replicate touches metadata that were complete once, and it adds to them.
THEOREM CopiesAreAlwaysKept == Spec => CopiesAreKept
<1> DEFINE Kept ==
      \A f \in Files : copies[f] # Absent /\ meta'[f] # meta[f] =>
        /\ options.replicate
        /\ Readable(meta'[f]) =>
             /\ SubSeq(meta'[f].rows, 1, Len(copies[f].rows)) = copies[f].rows
             /\ [meta'[f] EXCEPT !.rows = <<>>] = [copies[f] EXCEPT !.rows = <<>>]
<1>1. UploadInv /\ [ArchiveNext]_vars => Kept \/ UNCHANGED uploaderVars
  <2> SUFFICES ASSUME UploadInv, UploaderNext PROVE Kept
    BY ClientStepsOnlyLook DEF vars
  <2>1. CASE UNCHANGED <<meta, copies>>
    BY <2>1
  <2>2. CASE OpenMetadata
    <3>1. file \in Files /\ meta' = [meta EXCEPT ![file] = Torn]
          /\ (copies[file] # Absent => options.replicate)
      BY <2>2, OpenMetadataUploadInv
    <3>2. ~ Readable(meta'[file]) /\ \A f \in Files \ {file} : meta'[f] = meta[f]
      BY <3>1 DEF UploadInv, StateFits, Readable
    <3> QED
      BY <3>1, <3>2
  <2>3. CASE WriteMetadata
    <3>1. file \in Files /\ meta' = [meta EXCEPT ![file] = json]
          /\ (copies[file] = Absent \/ (Adds(json, copies[file]) /\ options.replicate))
      BY <2>3, WriteMetadataUploadInv
    <3>2. meta'[file] = json /\ \A f \in Files \ {file} : meta'[f] = meta[f]
      BY <3>1 DEF UploadInv, StateFits
    <3> QED
      BY <3>1, <3>2 DEF Adds
  <2> QED
    BY <2>1, <2>2, <2>3, StepsOfMetadata DEF Quiet, BreaksOff
<1> QED
  BY <1>1, UploadInvariant, PTL DEF Spec, CopiesAreKept

\* There are no more torn metadata files than there were faults: a SIGHUP tears
\* none, a kill or a failed write only the one that is being written.
THEOREM FaultsTearOneEach == Spec => []FaultsTearOneFileEach
<1> DEFINE Inv == IsFiniteSet(TornFiles) /\ Cardinality(TornFiles) <= faults
<1>1. ArchiveInit => Inv
  <2> SUFFICES ASSUME ArchiveInit PROVE Inv
    OBVIOUS
  <2>1. TornFiles = {} /\ faults = 0
    BY UploaderNilAssumption DEF ArchiveInit, UploaderInit, TornFiles
  <2> QED
    BY <2>1, FS_EmptySet
<1>2. UploadInv /\ Inv /\ [ArchiveNext]_vars => Inv'
  <2> SUFFICES ASSUME UploadInv, Inv, [ArchiveNext]_vars PROVE Inv'
    OBVIOUS
  <2> HIDE DEF Inv
  <2>1. /\ IsFiniteSet(TornFiles) /\ Cardinality(TornFiles) \in Nat
        /\ Cardinality(TornFiles) <= faults /\ faults \in Nat
    BY FS_CardinalityType DEF Inv, UploadInv, StateFits
  <2>2. ASSUME TornFiles' \subseteq TornFiles, faults' = faults PROVE Inv'
    <3>1. /\ IsFiniteSet(TornFiles') /\ Cardinality(TornFiles') \in Nat
          /\ Cardinality(TornFiles') <= Cardinality(TornFiles)
      BY <2>1, <2>2, FS_Subset, FS_CardinalityType
    <3> QED
      BY <2>1, <2>2, <3>1 DEF Inv
  <2>3. ASSUME TornFiles' \subseteq TornFiles \cup {file}, faults' = faults + 1 PROVE Inv'
    <3> DEFINE more == TornFiles \cup {file}
    <3>1. IsFiniteSet(more) /\ Cardinality(more) \in Nat
          /\ Cardinality(more) <= Cardinality(TornFiles) + 1
      BY <2>1, FS_AddElement, FS_CardinalityType
    <3> HIDE DEF more
    <3>2. /\ IsFiniteSet(TornFiles') /\ Cardinality(TornFiles') \in Nat
          /\ Cardinality(TornFiles') <= Cardinality(more)
      BY <2>3, <3>1, FS_Subset, FS_CardinalityType DEF more
    <3> QED
      BY <2>1, <2>3, <3>1, <3>2 DEF Inv
  <2>4. CASE Quiet \/ UNCHANGED uploaderVars
    BY <2>2, <2>4 DEF Quiet, TornFiles, file, uploaderVars, process, history
  <2>5. CASE BreaksOff
    BY <2>3, <2>5 DEF BreaksOff, TornFiles
  <2>6. CASE OpenMetadata
    <3>1. /\ pc = "store" /\ pc' = "write" /\ faults' = faults /\ file' = file /\ file \in Files
          /\ meta' = [meta EXCEPT ![file] = Torn]
      BY <2>6, OpenMetadataUploadInv DEF OpenMetadata, history, file
    <3>2. TornFiles' \subseteq TornFiles
      BY <3>1 DEF TornFiles, UploadInv, StateFits
    <3> QED
      BY <2>2, <3>1, <3>2
  <2>7. CASE WriteMetadata
    <3>1. /\ pc = "write" /\ pc' # "write" /\ faults' = faults /\ file \in Files
          /\ meta' = [meta EXCEPT ![file] = json] /\ json # Torn
      BY <2>7, WriteMetadataUploadInv, UploaderNilAssumption DEF WriteMetadata
    <3>2. TornFiles' \subseteq TornFiles
      BY <3>1 DEF TornFiles, UploadInv, StateFits
    <3> QED
      BY <2>2, <3>1, <3>2
  <2> QED
    BY <2>4, <2>5, <2>6, <2>7, ClientStepsOnlyLook, StepsOfMetadata
<1>3. Inv => FaultsTearOneFileEach
  BY DEF FaultsTearOneFileEach
<1> QED
  BY <1>1, <1>2, <1>3, UploadInvariant, PTL DEF Spec

\* The uploader's state and the client's are well typed, the sizes of all parts
\* included.
THEOREM ArchiveTypes == Spec => []TypeOK
<1>1. ArchiveInv => TypeOK
  <2> SUFFICES ASSUME ArchiveInv PROVE TypeOK
    OBVIOUS
  <2>1. job # NoJob => job.part \in 1 .. job.parts + (IF pc \in {"store", "write"} THEN 1 ELSE 0)
    <3> SUFFICES ASSUME job # NoJob
                 PROVE  job.part \in 1 .. job.parts + (IF pc \in {"store", "write"} THEN 1 ELSE 0)
      OBVIOUS
    <3>1. /\ Working /\ job \in Job /\ job.part \in 1 .. job.parts + 1
          /\ pc \in {"encrypt", "upload"} <=> job.part # job.parts + 1
      BY DEF ArchiveInv, UploadInv, JobFits
    <3> QED
      BY <3>1 DEF Working, Job
  <2>2. UploaderTypeOK
    BY <2>1 DEF ArchiveInv, UploadInv, StateFits, JobFits, UploaderTypeOK
  <2> QED
    BY <2>2 DEF ArchiveInv, ClientFits, TypeOK
<1> QED
  BY <1>1, ArchiveInvariant, PTL

\* The size that a node was given at Lookup is zero or stays that of the file,
\* however often its metadata are rewritten.
THEOREM SizesStayTrue == Spec => []SizeIsTrue
<1>1. ArchiveInv => SizeIsTrue
  BY DEF ArchiveInv, UploadInv, ClientFits, CopiesFit, SizeIsTrue
<1> QED
  BY <1>1, ArchiveInvariant, PTL

\* A name taken from a listing is never answered with "not found".
THEOREM ListedNamesStay == Spec => []ListedNamesAreFound
<1>1. ArchiveInv => ListedNamesAreFound
  BY DEF ArchiveInv, ClientFits, ListedNamesAreFound
<1> QED
  BY <1>1, ArchiveInvariant, PTL
=============================================================================
