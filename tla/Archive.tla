------------------------------ MODULE Archive ------------------------------
(***************************************************************************)
(* What programs see of the archive while the uploader of Uploader works   *)
(* on it: handleAlias and handleStat of proxy.go with stattool.go and      *)
(* dirlist.go, and the directories of hgmfs.go on top of them.  All of     *)
(* them look at the metadata files as these are at the moment; hgmfs keeps *)
(* the size it saw at Lookup, and a response the metadata it began with.   *)
(* The disk may fail whenever they look.                                   *)
(*                                                                         *)
(* There is one client, which uses the mount and the web server in turn.   *)
(* A response is served in whole parts; Proxy has the details.             *)
(***************************************************************************)
EXTENDS Uploader

CONSTANTS
  Media,      \* files whose names are those of movies or music
  IndexFile,  \* the file named index.html, if it is one of Files
  FullSizes   \* blob sizes whose image has no room for one block more, as in Codec

ASSUME ArchiveAssumption == Media \subseteq Files /\ FullSizes \subseteq Nat

VARIABLES
  listed,     \* the name the client took from a listing, or NoJob
  node,       \* the file looked up last, and HgmFile.fileSize; or NoJob
  request,    \* the file that the last call was about, or NoJob
  js,         \* the metadata the last response began with
  served,     \* the images it was made from so far
  sent,       \* the bytes of them
  reply,      \* "serving", or how the last call ended
  diskFailed  \* history: it ended so because the disk or the stat service failed

clientVars == <<listed, node, request, js, served, sent, reply, diskFailed>>
vars == <<uploaderVars, clientVars>>

-----------------------------------------------------------------------------
(* Helpers *)

Names == {f \in Files : meta[f] # Absent}

SysErrToHttpStatus(err) ==
  CASE err = "EPERM" -> 403 [] err = "ENOENT" -> 404 [] err = "EACCES" -> 405 [] OTHER -> 500

HttpStatusToFuseErr(status) ==
  CASE status = 403 -> "EPERM" [] status = 404 -> "ENOENT" [] status = 405 -> "EPERM"
    [] OTHER -> "EIO"

FuseErr(err) == HttpStatusToFuseErr(SysErrToHttpStatus(err))

\* LocalStat: the size of a file is what its metadata say, or zero.
SizeOf(m) == IF Readable(m) THEN m.size ELSE 0

\* Content-Length is a tag of the first image.
Announced(images) == IF images = <<>> THEN 0 ELSE images[1].contentSize

\* A name stays the listed one while it is the one that is asked for.
Taken(f) == IF listed = f THEN f ELSE NoJob

NumBlobs == Len(js.rows[1])
HasPart(i) == Len(served) < Len(js.rows[i])
Part(i) == js.rows[i][Len(served) + 1]

\* DecryptStream comes to the end of an image that is whole and has room.
Decrypts(image) == image.whole /\ image.blobSize \notin FullSizes

\* Another image breaks the response, as do bytes beyond its length.
Fits(image) ==
  Decrypts(image) /\ sent + image.blobSize <= Announced(Append(served, image))

-----------------------------------------------------------------------------
ArchiveInit ==
  /\ UploaderInit
  /\ listed = NoJob
  /\ node = NoJob
  /\ request = NoJob
  /\ js = Absent
  /\ served = <<>> /\ sent = 0
  /\ reply = "none" /\ diskFailed = FALSE

\* A call that is answered at once ...
AnswerAfter(r, failed) ==
  /\ reply # "serving" /\ reply' = r
  /\ diskFailed' = failed
  /\ js' = Absent /\ served' = <<>> /\ sent' = 0
  /\ UNCHANGED uploaderVars

Answer(r) == AnswerAfter(r, FALSE)
Fail(r) == AnswerAfter(r, TRUE)

\* ... and one that becomes a response: the start of serveFullURI.
Serve(f) ==
  /\ reply # "serving" /\ reply' = "serving"
  /\ diskFailed' = FALSE
  /\ js' = meta[f] /\ served' = <<>> /\ sent' = 0
  /\ UNCHANGED uploaderVars

\* The part of handleAlias that reads the metadata of a file that is there ...
ReadMetadata(f) ==
  \/ Readable(meta[f]) /\ Serve(f)
  \/ meta[f] = Torn /\ Answer("corrupted metadata")
  \/ meta[f] # Absent /\ Fail("unreadable")

\* ... and all of it, for a file.  Every error of os.Stat is a 404.
Get(f) ==
  /\ request' = f
  /\ \/ ReadMetadata(f)
     \/ meta[f] = Absent /\ Answer("not found")
     \/ Fail("not found")

Keep(f) == node' = NoJob /\ listed' = Taken(f)
GetFile(f) == Get(f) /\ Keep(f)

\* A directory is listed, and the client takes a name, or it is not.
List(names) ==
  /\ Answer("ok")
  /\ IF names = {} THEN listed' = NoJob ELSE listed' \in names
  /\ node' = NoJob /\ request' = NoJob

ListFails(r) == Fail(r) /\ listed' = NoJob /\ node' = NoJob /\ request' = NoJob

OtherErrors == {"EPERM", "EACCES", "EIO"}
ReadDirAll == List(Names) \/ \E err \in OtherErrors : ListFails(FuseErr(err))

\* The page of a directory is its index.html, or a listing if stat does not find
\* that or fails.  A failing ReadDir makes it an empty one.
ListPage ==
  \/ IndexFile \in Names /\ request' = IndexFile /\ ReadMetadata(IndexFile) /\ Keep(IndexFile)
  \/ \E names \in {Names, Names \cap Media, {}} : List(names)
  \/ ListFails("not found")

\* Lookup asks the stat service for a name, listed or not.  A file that LocalStat
\* cannot read has no size.
Lookup(f) ==
  /\ request' = f
  /\ \/ meta[f] = Absent /\ Answer(FuseErr("ENOENT")) /\ Keep(f)
     \/ /\ meta[f] # Absent /\ Answer("ok") /\ listed' = Taken(f)
        /\ \E size \in {SizeOf(meta[f]), 0} : node' = [file |-> f, size |-> size]

\* stat fails, or nobody answers, which counts as EIO.
LookupFails(f) ==
  /\ request' = f
  /\ \E err \in OtherErrors : Fail(FuseErr(err))
  /\ Keep(f)

\* A Read of a file that had no size when it was looked up.
ReadNothing ==
  /\ node # NoJob /\ node.size = 0
  /\ Answer("nothing")
  /\ request' = node.file /\ listed' = NoJob /\ UNCHANGED node

Read == node # NoJob /\ node.size # 0 /\ Get(node.file) /\ listed' = NoJob /\ UNCHANGED node

-----------------------------------------------------------------------------
(* serveFullURI, a blob at a time, from the copy whose turn it is *)

ResponseGoesOn(r) ==
  /\ reply' = r
  /\ UNCHANGED <<uploaderVars, listed, node, request, js, diskFailed>>

ServeBlob(i) ==
  /\ Len(served) < NumBlobs /\ HasPart(i) /\ Fits(Part(i))
  /\ served' = Append(served, Part(i))
  /\ sent' = sent + Part(i).blobSize
  /\ ResponseGoesOn("serving")

\* The response ends, by itself or because the next image breaks it or a shorter
\* copy has no such blob (a panic).  The client counts the bytes.
ServeEnds ==
  /\ \/ Len(served) = NumBlobs
     \/ \E i \in DOMAIN js.rows : HasPart(i) => ~ Fits(Part(i))
  /\ ResponseGoesOn(IF sent = Announced(served) /\ (served = <<>> => NumBlobs = 0)
                    THEN "complete" ELSE "broken")
  /\ UNCHANGED <<served, sent>>

\* No image host answers, or one stops in the middle of an image.
HostsFail ==
  /\ Len(served) < NumBlobs
  /\ ResponseGoesOn("unreachable") /\ UNCHANGED <<served, sent>>

ArchiveNext ==
  \/ UploaderNext /\ UNCHANGED clientVars
  \/ ReadDirAll \/ ListPage \/ ReadNothing \/ Read
  \/ \E f \in Files : Lookup(f) \/ LookupFails(f) \/ GetFile(f)
  \/ reply = "serving" /\ (ServeEnds \/ HostsFail \/ \E i \in DOMAIN js.rows : ServeBlob(i))

Spec == ArchiveInit /\ [][ArchiveNext]_vars

-----------------------------------------------------------------------------
(* Properties *)

\* Types of the state.
TypeOK ==
  /\ UploaderTypeOK
  /\ listed \in Files \cup {NoJob}
  /\ node = NoJob \/ (node.file \in Files /\ node.size \in Nat)
  /\ request = NoJob \/ request \in Files
  /\ js = Absent \/ js \in Metadata
  /\ served \in Seq(Image) /\ sent \in Nat
  /\ diskFailed \in BOOLEAN

\* The size that Lookup keeps for as long as the file is open is zero or the
\* size of the file in the archive, however often its metadata are rewritten.
SizeIsTrue ==
  node # NoJob /\ node.size # 0 /\ Readable(meta[node.file]) =>
    node.size = meta[node.file].size

\* A name that was listed is found: metadata may be torn, but never gone.  The
\* mount says ENOENT of nothing else; the web server says "File not found" of a
\* file on a failing disk as well.
ListedNamesAreFound ==
  /\ reply = "ENOENT" => request # listed
  /\ reply = "not found" /\ ~ diskFailed => request # listed

\* A response of the announced length is the file, every part of it once and in
\* order, even if it mixes copies of several runs; unless a copy lacks a part or
\* the file was edited between two runs.
CompleteIsTheFile ==
  reply = "complete" /\ request \notin edited \cup shortened =>
    /\ Len(served) = NumParts(js.size, js.blob)
    /\ \A n \in DOMAIN served :
         served[n].part = n /\ served[n].whole /\ served[n].file = request

\* A response that began, and for every part of which some image host answers,
\* is only broken off because an image is damaged or has no room for one block
\* more, a copy lacks a part or the file was edited: that a copy is added while it
\* is served, or that copies were made by different runs, does no harm.
BrokenHasACause ==
  reply = "broken" =>
    \/ request \in edited \cup shortened
    \/ \E i \in DOMAIN js.rows : \E j \in DOMAIN js.rows[i] : ~ Decrypts(js.rows[i][j])

=============================================================================
