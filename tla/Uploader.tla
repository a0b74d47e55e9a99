------------------------------ MODULE Uploader ------------------------------
(***************************************************************************)
(* The uploader, src/mkpng.pl: for each file named on its input it splits, *)
(* encrypts and uploads the file and then names the images in a metadata   *)
(* file under ./_aliases, which it rewrites in place.  It may be told to   *)
(* stop (SIGHUP), die, or be killed at any point, and be started again.    *)
(*                                                                         *)
(* One uploader runs at a time.  A location is the image it leads to, and  *)
(* an image says what it was made from, and how many bytes it holds.       *)
(***************************************************************************)
EXTENDS Naturals, Sequences, FiniteSets

CONSTANTS
  Files,      \* names on the input
  Batches,    \* inputs, sequences of Files
  Options,    \* options of a run, [replicate, dryRun : BOOLEAN]
  Sizes,      \* Sizes[v] is the size of version v of a source file
  MinSize,    \* 4096 in the code
  BlobSizes,  \* what BlobSize may be drawn as
  MaxRuns,    \* bound: runs of the uploader
  MaxFaults,  \* bound: failures of tools, disk and image host, and kills
  Absent,     \* no metadata file
  Torn,       \* a metadata file that is not JSON: empty or cut short
  NoJob       \* no file in progress

ASSUME UploaderAssumption ==
  /\ Batches \subseteq Seq(Files)
  /\ Options \subseteq [replicate : BOOLEAN, dryRun : BOOLEAN]
  /\ Sizes \in Seq(Nat) \ {<<>>}
  /\ MinSize \in Nat \ {0}
  /\ BlobSizes \subseteq Nat \ {0}
  /\ MaxRuns \in Nat /\ MaxFaults \in Nat
  /\ NoJob \notin Files

Versions == DOMAIN Sizes
Image == [file : Files, key : Nat, version : Versions, part : Nat,
          blobSize : Nat, contentSize : Nat, whole : BOOLEAN]
Metadata == [key : Nat, size : Nat, blob : Nat \ {0}, rows : Seq(Seq(Image))]

ASSUME UploaderNilAssumption ==
  /\ Absent \notin Metadata /\ Torn \notin Metadata /\ Absent # Torn

VARIABLES
  source,     \* the version each source file has
  meta,       \* the metadata files
  pc,         \* where the uploader is, "off" if it does not run
  todo,       \* what is left of its input, the file in progress first
  options,    \* its options
  terminate,  \* $TERMINATE
  json,       \* $json, while a file is in progress
  job,        \* that file: version when split, parts, part, its image, @remote_parts
  keys,       \* keys drawn so far
  runs,       \* history: runs so far
  faults,     \* history: faults so far
  edited,     \* history: files edited after their first part was made
  shortened,  \* history: files with a copy that lacks a part
  copies,     \* history: what the metadata of a file was when last complete
  late        \* history: files finished after the uploader was told to stop

file == Head(todo)
process == <<pc, todo, options, terminate, json, job, keys>>
history == <<runs, faults, edited, shortened, copies, late>>
uploaderVars == <<source, meta, process, history>>

-----------------------------------------------------------------------------
(* Helpers *)

Readable(m) == m \notin {Absent, Torn}

\* split: parts of BlobSize bytes, or a link to the whole file.
NumParts(size, blob) == IF size > blob THEN (size + blob - 1) \div blob ELSE 1
PartSizeFull(size, blob, part) == blob
PartSize(size, blob, part) ==
  IF part < NumParts(size, blob) THEN blob ELSE size - (part - 1) * blob

\* The metadata a file starts with: a prototype with a new key, or what is there.
InheritedWithNewKey(m, blob) == [m EXCEPT !.key = keys]
InheritedWithNewSize(m, blob) == [m EXCEPT !.size = Sizes[source[file]]]
InheritedWithNewBlobSize(m, blob) == [m EXCEPT !.blob = blob]
Inherited(m, blob) == m
Prototype(blob) == [key |-> keys, size |-> Sizes[source[file]], blob |-> blob, rows |-> <<>>]

\* The metadata to store, with the new copy's locations.
WithNewRowOnly == [json EXCEPT !.rows = <<job.row>>]
WithNewRow == [json EXCEPT !.rows = Append(@, job.row)]

\* The image of the current part.  split has copied the part, but the link to a
\* whole file leads to the file as it is now; CONTENTSIZE is what it was.
ImageOfPart(whole) ==
  LET version == IF job.parts = 1 THEN source[file] ELSE job.version IN
  [file |-> file, key |-> json.key, part |-> job.part, whole |-> whole, version |-> version,
   contentSize |-> Sizes[job.version],
   blobSize |-> IF job.parts = 1 THEN Sizes[version]
                ELSE PartSize(Sizes[version], json.blob, job.part)]

-----------------------------------------------------------------------------
UploaderInit ==
  /\ source = [f \in Files |-> 1]
  /\ meta = [f \in Files |-> Absent]
  /\ pc = "off"
  /\ todo = <<>>
  /\ options = [replicate |-> FALSE, dryRun |-> FALSE]
  /\ terminate = FALSE
  /\ json = Absent
  /\ job = NoJob
  /\ keys = 0
  /\ runs = 0
  /\ faults = 0
  /\ edited = {} /\ shortened = {}
  /\ copies = [f \in Files |-> Absent]
  /\ late = 0

\* The uploader is started, with an input and options.
Start ==
  /\ pc = "off" /\ runs < MaxRuns
  /\ todo' \in Batches
  /\ options' \in Options
  /\ pc' = "next"
  /\ runs' = runs + 1
  /\ late' = 0
  /\ UNCHANGED <<source, meta, terminate, json, job, keys, faults, edited, shortened, copies>>

\* It is gone: memory is lost, the files stay.
Gone ==
  /\ pc' = "off"
  /\ todo' = <<>>
  /\ options' = [replicate |-> FALSE, dryRun |-> FALSE]
  /\ terminate' = FALSE
  /\ json' = Absent
  /\ job' = NoJob
  /\ UNCHANGED <<source, keys, runs, edited, shortened>>

Dies == Gone /\ UNCHANGED <<meta, copies, late>>

InputEnds ==
  /\ pc = "next" /\ todo = <<>>
  /\ Dies /\ UNCHANGED faults

\* The next file is passed over: too small, stored already, or a dry run.
PassOver(m) ==
  \/ Sizes[source[file]] < MinSize
  \/ Readable(m) /\ ~ options.replicate
  \/ m = Absent /\ options.dryRun

SkipFile ==
  /\ pc = "next" /\ todo # <<>>
  /\ PassOver(meta[file])
  /\ todo' = Tail(todo)
  /\ UNCHANGED <<source, meta, pc, options, terminate, json, job, keys, history>>

\* from_json dies of a metadata file that is not JSON, and the batch with it.
DieOfMetadata ==
  /\ pc = "next" /\ todo # <<>>
  /\ Sizes[source[file]] >= MinSize /\ meta[file] = Torn
  /\ Dies /\ UNCHANGED faults

\* The file is split.
BeginFile ==
  /\ pc = "next" /\ todo # <<>>
  /\ ~ PassOver(meta[file]) /\ meta[file] # Torn
  /\ \E blob \in BlobSizes :
       /\ json' = IF Readable(meta[file]) THEN Inherited(meta[file], blob) ELSE Prototype(blob)
       /\ job' = [version |-> source[file], parts |-> NumParts(Sizes[source[file]], json'.blob),
                  part |-> 1, row |-> <<>>, image |-> NoJob]
  /\ keys' = keys + 1
  /\ pc' = "encrypt"
  /\ UNCHANGED <<source, meta, todo, options, terminate, history>>

-----------------------------------------------------------------------------
(* One part *)

\* Where the uploader goes after a part.
AfterPartTooLate(row) ==
  /\ job' = [job EXCEPT !.part = @ + 1, !.row = row, !.image = NoJob]
  /\ pc' = IF job.part > job.parts THEN "store" ELSE "encrypt"

AfterPart(row) ==
  /\ job' = [job EXCEPT !.part = @ + 1, !.row = row, !.image = NoJob]
  /\ pc' = IF job.part = job.parts THEN "store" ELSE "encrypt"

\* The part is encrypted and made a PNG.
Encrypt ==
  /\ pc = "encrypt"
  /\ job' = [job EXCEPT !.image = ImageOfPart(TRUE)]
  /\ pc' = "upload"
  /\ UNCHANGED <<source, meta, todo, options, terminate, json, keys, history>>

\* hgmcmd dies half way: what it wrote is taken for the encrypted part.
EncryptPartly ==
  /\ pc = "encrypt" /\ faults < MaxFaults
  /\ faults' = faults + 1
  /\ job' = [job EXCEPT !.image = ImageOfPart(FALSE)]
  /\ pc' = "upload"
  /\ UNCHANGED <<source, meta, todo, options, terminate, json, keys,
                 runs, edited, shortened, copies, late>>

\* It does not even start: the part is left out.
EncryptFails ==
  /\ pc = "encrypt" /\ faults < MaxFaults
  /\ faults' = faults + 1
  /\ shortened' = shortened \cup {file}
  /\ AfterPart(job.row)
  /\ UNCHANGED <<source, meta, todo, options, terminate, json, keys, runs, edited, copies, late>>

\* An upload that fails is repeated, for ever.
UploadFails ==
  /\ pc = "upload" /\ faults < MaxFaults
  /\ faults' = faults + 1
  /\ UNCHANGED <<source, meta, process, runs, edited, shortened, copies, late>>

\* The image is there, but its address is not found in 60 attempts.
VerifyFails ==
  /\ pc = "upload" /\ faults < MaxFaults
  /\ faults' = faults + 1
  /\ Dies

UploadUnshifting ==
  /\ pc = "upload"
  /\ AfterPart(<<job.image>> \o job.row)
  /\ UNCHANGED <<source, meta, todo, options, terminate, json, keys, history>>

\* The image is there, and its address is found.
Upload ==
  /\ pc = "upload"
  /\ AfterPart(Append(job.row, job.image))
  /\ UNCHANGED <<source, meta, todo, options, terminate, json, keys, history>>

-----------------------------------------------------------------------------
(* storeJSON, and the end of a file *)

\* Opening the metadata file for writing empties it ...
OpenMetadataAnew ==
  /\ pc = "store"
  /\ json' = WithNewRow
  /\ meta' = [meta EXCEPT ![file] = Absent]
  /\ pc' = "write"
  /\ UNCHANGED <<source, todo, options, terminate, job, keys, history>>

OpenMetadata ==
  /\ pc = "store"
  /\ json' = WithNewRow
  /\ meta' = [meta EXCEPT ![file] = Torn]
  /\ pc' = "write"
  /\ UNCHANGED <<source, todo, options, terminate, job, keys, history>>

\* The end of a file.  A pending SIGHUP is looked at only here.
NeverStops == FALSE
StopsAfterFile == terminate

FileEnds ==
  /\ late' = IF terminate THEN late + 1 ELSE 0
  /\ IF StopsAfterFile
       THEN Gone
       ELSE /\ pc' = "next"
            /\ todo' = Tail(todo)
            /\ json' = Absent
            /\ job' = NoJob
            /\ UNCHANGED <<source, options, terminate, keys, runs, edited, shortened>>

\* ... until the new text is written ...
WriteMetadata ==
  /\ pc = "write"
  /\ meta' = [meta EXCEPT ![file] = json]
  /\ copies' = [copies EXCEPT ![file] = json]
  /\ FileEnds /\ UNCHANGED faults

\* ... if it is: neither print nor close is checked, and on a full disk the file
\* stays as it is and the uploader goes on.  (If to_json dies it is as if killed.)
WriteFails ==
  /\ pc = "write" /\ faults < MaxFaults
  /\ faults' = faults + 1
  /\ FileEnds /\ UNCHANGED <<meta, copies>>

-----------------------------------------------------------------------------
(* What the world does to it *)

HangupExits == pc # "off" /\ Dies /\ UNCHANGED faults

Hangup ==
  /\ pc # "off" /\ ~ terminate
  /\ terminate' = TRUE
  /\ UNCHANGED <<source, meta, pc, todo, options, json, job, keys, history>>

Kill ==
  /\ pc # "off" /\ faults < MaxFaults
  /\ faults' = faults + 1
  /\ Dies

EditSource(f) ==
  /\ source[f] + 1 \in Versions
  /\ source' = [source EXCEPT ![f] = @ + 1]
  /\ edited' = IF meta[f] = Absent /\ (json = Absent \/ file # f) THEN edited ELSE edited \cup {f}
  /\ UNCHANGED <<meta, process, runs, faults, shortened, copies, late>>

Upkeep ==
  \/ InputEnds \/ SkipFile \/ DieOfMetadata \/ BeginFile
  \/ Encrypt \/ EncryptPartly \/ EncryptFails
  \/ UploadFails \/ VerifyFails \/ Upload
  \/ OpenMetadata \/ WriteMetadata \/ WriteFails

UploaderNext == Start \/ Upkeep \/ Hangup \/ Kill \/ \E f \in Files : EditSource(f)

-----------------------------------------------------------------------------
(* Properties *)

\* Types of the state.
UploaderTypeOK ==
  /\ source \in [Files -> Versions]
  /\ \A f \in Files : meta[f] \in {Absent, Torn} \/ meta[f] \in Metadata
  /\ pc \in {"off", "next", "encrypt", "upload", "store", "write"}
  /\ todo \in Seq(Files)
  /\ options \in [replicate : BOOLEAN, dryRun : BOOLEAN]
  /\ terminate \in BOOLEAN
  /\ json = Absent \/ json \in Metadata
  /\ job # NoJob => job.part \in 1 .. job.parts + (IF pc \in {"store", "write"} THEN 1 ELSE 0)
  /\ {keys, runs, faults, late} \subseteq Nat
  /\ edited \subseteq Files /\ shortened \subseteq Files

\* Metadata that can be read opens every image it names: they were all made of
\* this file, and encrypted with the key it holds, whichever run made them.
KeyOpensEveryImage ==
  \A f \in Files : Readable(meta[f]) =>
    \A i \in DOMAIN meta[f].rows : \A j \in DOMAIN meta[f].rows[i] :
      meta[f].rows[i][j].key = meta[f].key /\ meta[f].rows[i][j].file = f

\* Once a file is stored only --replicate touches its metadata, and then it adds
\* to it: the locations there were, the key and both sizes come back, also after
\* the moment in which the file is empty.
CopiesAreKept ==
  [][\A f \in Files : copies[f] # Absent /\ meta'[f] # meta[f] =>
       /\ options.replicate
       /\ Readable(meta'[f]) =>
            /\ SubSeq(meta'[f].rows, 1, Len(copies[f].rows)) = copies[f].rows
            /\ [meta'[f] EXCEPT !.rows = <<>>] = [copies[f] EXCEPT !.rows = <<>>]]_uploaderVars

\* The metadata files that are not JSON, but for the one that is being written.
TornFiles == {f \in Files : meta[f] = Torn} \ (IF pc = "write" THEN {file} ELSE {})

\* Each fault leaves the metadata of at most one file half written, over all runs:
\* a kill or a full disk those in progress.  SIGHUP, whenever it comes, leaves
\* none: it waits for the text to be complete.
FaultsTearOneFileEach == Cardinality(TornFiles) <= faults

\* "Sending HUP to us will quit the process after the current file has been
\* uploaded": at most one file is finished after the signal, whenever it comes.
HangupStops == late <= 1

=============================================================================
