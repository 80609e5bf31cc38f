------------------------- MODULE LocalFileUploading -------------------------
(***************************************************************************)
(* The end of a build: files that only exist locally are uploaded to the   *)
(* Content Addressable Storage, after which the output path is saved to    *)
(* its state file.  The order is that of the decorators: localFile-        *)
(* UploadingOutputPath.FinalizeBuild() runs as part of, and before the     *)
(* rest of, persistentOutputPath.FinalizeBuild().                          *)
(*                                                                         *)
(* A file that was created locally has contents, and a digest once someone *)
(* has asked for it.  A file that is backed by the storage only has a      *)
(* digest.  Processes may change files at any time, unless they wait in    *)
(* the batch of files to be uploaded: those are frozen.  So does the       *)
(* storage lose objects, except for those it promised to keep.             *)
(*                                                                         *)
(* The hash of contents is the pair of the digest function and the         *)
(* contents.  State files hold hashes.  What digest function they belong   *)
(* to is decided by the build that restores them.  Symbolic links, which   *)
(* are saved as they are, are among the special files.  The client has one *)
(* build at a time; calls of builds that were displaced are part of        *)
(* FilterMissingChildren, and so are the batches in which it filters.      *)
(***************************************************************************)
EXTENDS Naturals, FiniteSets

CONSTANTS
    File,        \* paths of files
    StatusFile,  \* "stable-status.txt" and "volatile-status.txt"
    Directory,
    ParentOf,    \* the directory of every file
    Content,
    Function,    \* digest functions
    BatchSize,   \* RecommendedFindMissingDigestsCount
    MaxTouched,  \* bound: files changed during FinalizeBuild()
    NULL

Hash   == Function \X Content
Digest == [function : Function, hash : Hash]

ASSUME UploadingAssumption ==
    /\ StatusFile \subseteq File
    /\ ParentOf \in [File -> Directory]
    /\ BatchSize \in Nat \ {0}
    /\ MaxTouched \in Nat
    /\ NULL \notin File \union Content \union Digest

VARIABLES
    pc,         \* the progress of the build
    function,   \* the digest function of the build
    verified,   \* whether filtering succeeded at the start of the build
    unfiltered, \* the files that filterMissingChildren() has yet to visit
    leaf,       \* the files in the output path
    storage,    \* hashes of the objects in the storage
    pinned,     \* those that it keeps for the duration of the build
    upload,     \* the progress of uploadLocalFilesRecursive()
    logged,     \* whether an error was logged by FinalizeBuild()
    writer,     \* the progress of saveDirectoryRecursive()
    stateFile,  \* the hash of every file in the state file
    untouched,  \* history: files not changed since FinalizeBuild() began
    written,    \* history: what was last written to, or staged as, a file
    recorded    \* history: the same for every file in the state file

build == <<pc, function, verified, unfiltered>>
cas   == <<storage, pinned>>
saved == <<logged, writer, stateFile, recorded>>
vars  == <<build, leaf, cas, upload, saved, untouched, written>>

Leaf ==
    [kind : {"none", "special"}, data : {NULL}, digest : {NULL}]
      \union [kind : {"local"}, data : Content, digest : Digest \union {NULL}]
      \union [kind : {"cas"}, data : {NULL}, digest : Digest]

None      == [kind |-> "none", data |-> NULL, digest |-> NULL]
Special   == [kind |-> "special", data |-> NULL, digest |-> NULL]
Local(c)  == [kind |-> "local", data |-> c, digest |-> NULL]
Remote(d) == [kind |-> "cas", data |-> NULL, digest |-> d]

(* Directories that still have to be visited, files that were found in the *)
(* others and still have to be uploaded, whether the traversal has stopped *)
(* due to an error, the files and hashes in the batch, and whether an      *)
(* earlier batch could not be flushed.                                     *)
UploadState ==
    [unvisited  : SUBSET Directory,
     entries    : SUBSET File,
     err1       : BOOLEAN,
     batch      : SUBSET ((File \union {NULL}) \X Hash),
     flushError : BOOLEAN]

NoUpload == [unvisited |-> {}, entries |-> {}, err1 |-> FALSE,
             batch |-> {}, flushError |-> FALSE]

(* Directories that still have to be saved, and what the state file will   *)
(* say about the files in the others.                                      *)
Hashes   == [File -> Hash \union {NULL}]
Contents == [File -> Content \union {NULL}]

WriterState ==
    [unvisited : SUBSET Directory, hashes : Hashes, contents : Contents]

Nothing == [x \in File |-> NULL]

NoWriter == [unvisited |-> Directory, hashes |-> Nothing, contents |-> Nothing]

DigestOf(c) == [function |-> function, hash |-> <<function, c>>]

(* Whether the storage has the object that a digest refers to.             *)
Available(d) == d.hash[1] = d.function /\ d.hash \in storage

Pending   == {p[2] : p \in upload.batch}
Frozen(x) == \E h \in Hash : <<x, h>> \in upload.batch

Init ==
    /\ pc = "stopped"
    /\ function = NULL
    /\ verified = FALSE
    /\ unfiltered = {}
    /\ leaf = [x \in File |-> None]
    /\ storage = {}
    /\ pinned = {}
    /\ upload = NoUpload
    /\ logged = FALSE
    /\ writer = NoWriter
    /\ stateFile = Nothing
    /\ untouched = {}
    /\ written = Nothing
    /\ recorded = Nothing

-----------------------------------------------------------------------------
(* StartBuild() for an output base without an output path.  The files in   *)
(* "failed" come after an entry that cannot be restored, for one because   *)
(* its hash is not valid for the digest function.                          *)
Restored(f, failed) ==
    [x \in File |->
       IF stateFile[x] = NULL \/ x \in failed THEN None
       ELSE Remote([function |-> f, hash |-> stateFile[x]])]

(* Mutant: what was restored is taken to be complete.                      *)
StartInitialBuildUnfiltered(f, failed) ==
    /\ pc = "stopped"
    /\ pc' = "building"
    /\ function' = f
    /\ verified' = TRUE
    /\ leaf' = Restored(f, failed)
    /\ written' = [x \in File |-> IF leaf'[x] = None THEN NULL ELSE recorded[x]]
    /\ UNCHANGED <<unfiltered, cas, upload, saved, untouched>>

StartInitialBuild(f, failed) ==
    /\ pc = "stopped"
    /\ pc' = "filtering"
    /\ function' = f
    /\ leaf' = Restored(f, failed)
    /\ unfiltered' = {x \in File : leaf'[x] # None}
    /\ written' = [x \in File |-> IF leaf'[x] = None THEN NULL ELSE recorded[x]]
    /\ UNCHANGED <<verified, cas, upload, saved, untouched>>

(* StartBuild() for an output path that exists.                            *)
StartBuild(f) ==
    /\ pc \in {"idle", "aborted"}
    /\ pc' = "filtering"
    /\ function' = f
    /\ unfiltered' = {x \in File : leaf[x] # None}
    /\ logged' = FALSE
    /\ UNCHANGED <<verified, leaf, cas, upload, writer, stateFile, recorded,
                   untouched, written>>

(* filterMissingChildren() visits a file.  It keeps files that have no     *)
(* digest by which they depend on the storage.                             *)
Filter(x) ==
    /\ pc = "filtering"
    /\ x \in unfiltered
    /\ unfiltered' = unfiltered \ {x}
    /\ UNCHANGED <<pc, function, verified, storage, upload, saved, untouched>>

FilterKeepsLocal(x) ==
    /\ Filter(x)
    /\ leaf[x].kind # "cas"
    /\ UNCHANGED <<leaf, pinned, written>>

(* FindMissing() reports the object of a file as present.  The storage     *)
(* then keeps it for the duration of the build.                            *)
FilterFinds(x) ==
    /\ Filter(x)
    /\ leaf[x].kind = "cas"
    /\ leaf[x].digest.function = function
    /\ Available(leaf[x].digest)
    /\ pinned' = pinned \union {leaf[x].digest.hash}
    /\ UNCHANGED <<leaf, written>>

(* It reports the object as missing, or is not asked, because the digest   *)
(* does not use the digest function of the build.                          *)
FilterRemoves(x) ==
    /\ Filter(x)
    /\ leaf[x].kind = "cas"
    /\ \/ leaf[x].digest.function # function
       \/ ~Available(leaf[x].digest)
    /\ leaf' = [leaf EXCEPT ![x] = None]
    /\ written' = [written EXCEPT ![x] = NULL]
    /\ UNCHANGED pinned

FilterDone ==
    /\ pc = "filtering"
    /\ unfiltered = {}
    /\ pc' = "building"
    /\ verified' = TRUE
    /\ UNCHANGED <<function, unfiltered, leaf, cas, upload, saved, untouched,
                   written>>

(* Filtering fails.  StartBuild() returns an error, upon which the client  *)
(* gives up on a build that is registered.                                 *)
FilterFails ==
    /\ pc = "filtering"
    /\ pc' = "aborted"
    /\ unfiltered' = {}
    /\ pinned' = {}
    /\ UNCHANGED <<function, verified, leaf, storage, upload, saved, untouched,
                   written>>

-----------------------------------------------------------------------------
(* The client and its processes change the output path.                    *)
Touch(x, l, c) ==
    /\ pc # "stopped"
    /\ pc \in {"uploading", "saving"} =>
          Cardinality(File \ (untouched \ {x})) <= MaxTouched
    /\ leaf' = [leaf EXCEPT ![x] = l]
    /\ written' = [written EXCEPT ![x] = c]
    /\ untouched' = untouched \ {x}
    /\ UNCHANGED <<build, saved>>

(* The old file, if any, is unlinked.  What becomes of it when it is       *)
(* uploaded later on makes no difference to the output path.               *)
Replace(x, l, c) ==
    /\ Touch(x, l, c)
    /\ upload' = [upload EXCEPT
                    !.entries = @ \ {x},
                    !.batch = {<<IF p[1] = x THEN NULL ELSE p[1], p[2]>> : p \in @}]

(* StageArtifacts() for a file that was created remotely, and has thereby  *)
(* been stored.                                                            *)
StageArtifact(x, c) ==
    /\ pc = "building"
    /\ Replace(x, Remote(DigestOf(c)), c)
    /\ storage' = storage \union {DigestOf(c).hash}
    /\ pinned' = pinned \union {DigestOf(c).hash}

CreateFile(x, c) == Replace(x, Local(c), c) /\ UNCHANGED cas

(* A file is removed, or replaced by a symbolic link or the like.          *)
RemoveFile(x, l) == Replace(x, l, NULL) /\ UNCHANGED cas

WriteFile(x, c) ==
    /\ leaf[x].kind = "local"
    /\ ~Frozen(x)
    /\ Touch(x, Local(c), c)
    /\ UNCHANGED <<upload, cas>>

(* BatchStat() computes the digest of a file.  A call that was admitted    *)
(* before FinalizeBuild() obtained the lock may do so later.               *)
BatchStat(x) ==
    /\ pc \in {"building", "uploading", "saving"}
    /\ leaf[x].kind = "local"
    /\ leaf' = [leaf EXCEPT ![x].digest = DigestOf(leaf[x].data)]
    /\ UNCHANGED <<build, cas, upload, saved, untouched, written>>

-----------------------------------------------------------------------------
(* FinalizeBuild() begins.  That of the in-memory output path does nothing.*)
FinalizeBuild ==
    /\ pc \in {"building", "aborted"}
    /\ pc' = "uploading"
    /\ upload' = [NoUpload EXCEPT !.unvisited = Directory]
    /\ untouched' = File
    /\ UNCHANGED <<function, verified, unfiltered, leaf, cas, saved, written>>

Uploading == pc = "uploading" /\ ~upload.err1

(* uploadLocalFilesRecursive(): the order of directories is left open.     *)
LookupAllChildren(d) ==
    /\ Uploading
    /\ d \in upload.unvisited
    /\ upload' = [upload EXCEPT
                    !.unvisited = @ \ {d},
                    !.entries = @ \union {x \in File : /\ ParentOf[x] = d
                                                       /\ leaf[x] # None}]
    /\ UNCHANGED <<build, leaf, cas, saved, untouched, written>>

(* ApplyUploadFile for files that are not local.  Those that are backed by *)
(* the storage need no uploading, and other types cannot be uploaded,      *)
(* which is reported as INVALID_ARGUMENT and skipped.                      *)
SkipFile(x) ==
    /\ Uploading
    /\ x \in upload.entries
    /\ leaf[x].kind # "local"
    /\ upload' = [upload EXCEPT !.entries = @ \ {x}]
    /\ UNCHANGED <<build, leaf, cas, saved, untouched, written>>

(* Put() of the batched store, which has room for another file.  Once      *)
(* flushing has failed, it does so too.                                    *)
Put(x, h) ==
    /\ Cardinality(upload.batch) < BatchSize
    /\ upload' = [upload EXCEPT
                    !.entries = @ \ {x},
                    !.err1 = upload.flushError,
                    !.batch = IF upload.flushError \/ h \in Pending THEN @
                              ELSE @ \union {<<x, h>>}]

(* ApplyUploadFile for a local file: compute the digest, and add the file  *)
(* to the batch.                                                           *)
UploadFile(x) ==
    /\ Uploading
    /\ x \in upload.entries
    /\ leaf[x].kind = "local"
    /\ leaf' = [leaf EXCEPT ![x].digest = DigestOf(leaf[x].data)]
    /\ Put(x, DigestOf(leaf[x].data).hash)
    /\ UNCHANGED <<build, cas, saved, untouched, written>>

(* Looking up a directory, or reading a file, fails.                       *)
UploadFails ==
    /\ Uploading
    /\ upload.unvisited \union upload.entries # {}
    /\ upload' = [upload EXCEPT !.err1 = TRUE]
    /\ UNCHANGED <<build, leaf, cas, saved, untouched, written>>

(* The batch is flushed: the objects in "stored" reach the storage, or are *)
(* found to be there.                                                      *)
Flush(stored) ==
    /\ stored \subseteq Pending
    /\ storage' = storage \union stored
    /\ pinned' = pinned \union stored

(* Put() with a full batch flushes it first.                               *)
FlushFull(stored) ==
    /\ Uploading
    /\ Cardinality(upload.batch) >= BatchSize
    /\ \E x \in upload.entries : leaf[x].kind = "local"
    /\ Flush(stored)
    /\ upload' = [upload EXCEPT !.batch = {},
                                !.flushError = @ \/ stored # Pending]
    /\ UNCHANGED <<build, leaf, saved, untouched, written>>

(* Errors are logged, and do not prevent the output path from being saved. *)
UploadEnds(stored) ==
    /\ pc = "uploading"
    /\ upload.err1 \/ upload.unvisited \union upload.entries = {}
    /\ pc' = "saving"
    /\ logged' = (upload.err1 \/ upload.flushError \/ stored # Pending)
    /\ UNCHANGED <<function, verified, unfiltered, leaf, writer, stateFile,
                   recorded, untouched, written>>

(* Mutants: the batch is only flushed if the traversal succeeded, or is    *)
(* discarded.                                                              *)
FlusherUnlessFailed(stored) ==
    /\ UploadEnds(stored)
    /\ upload' = IF upload.err1 THEN upload ELSE NoUpload
    /\ IF upload.err1 THEN UNCHANGED cas ELSE Flush(stored)

FlusherForgotten(stored) ==
    /\ stored = Pending
    /\ UploadEnds(stored)
    /\ upload' = NoUpload
    /\ UNCHANGED cas

(* flusher() is called whether or not the traversal succeeded.             *)
Flusher(stored) ==
    /\ UploadEnds(stored)
    /\ Flush(stored)
    /\ upload' = NoUpload

(* saveDirectoryRecursive(): files whose digest is not known are left out. *)
Saved(x) ==
    IF x \in StatusFile \/ leaf[x].digest = NULL THEN NULL
    ELSE leaf[x].digest.hash

SaveDirectory(d) ==
    /\ pc = "saving"
    /\ d \in writer.unvisited
    /\ writer' =
         [unvisited |-> writer.unvisited \ {d},
          hashes    |-> [x \in File |-> IF ParentOf[x] = d THEN Saved(x)
                                        ELSE writer.hashes[x]],
          contents  |-> [x \in File |->
                           IF ParentOf[x] # d THEN writer.contents[x]
                           ELSE IF Saved(x) = NULL THEN NULL ELSE written[x]]]
    /\ UNCHANGED <<build, leaf, cas, upload, logged, stateFile, recorded,
                   untouched, written>>

(* The build ends, and with it what the storage promised.                  *)
BuildEnds ==
    /\ pc = "saving"
    /\ pc' = "idle"
    /\ verified' = FALSE
    /\ pinned' = {}
    /\ writer' = NoWriter
    /\ untouched' = {}
    /\ UNCHANGED <<function, unfiltered, leaf, storage, upload, written>>

SaveOutputPath ==
    /\ writer.unvisited = {}
    /\ BuildEnds
    /\ stateFile' = writer.hashes
    /\ recorded' = writer.contents
    /\ UNCHANGED logged

(* Writing the state file fails, and the old one stays.                    *)
SaveOutputPathFails ==
    /\ BuildEnds
    /\ logged' = TRUE
    /\ UNCHANGED <<stateFile, recorded>>

-----------------------------------------------------------------------------
(* The storage keeps objects for the duration of a build if they were      *)
(* uploaded, or reported as present by FindMissing(), during that build.   *)
StorageEvict(h) ==
    /\ h \in storage \ pinned
    /\ storage' = storage \ {h}
    /\ UNCHANGED <<build, leaf, pinned, upload, saved, untouched, written>>

Restart ==
    /\ pc' = "stopped"
    /\ function' = NULL
    /\ verified' = FALSE
    /\ unfiltered' = {}
    /\ leaf' = [x \in File |-> None]
    /\ pinned' = {}
    /\ upload' = NoUpload
    /\ logged' = FALSE
    /\ writer' = NoWriter
    /\ untouched' = {}
    /\ written' = Nothing
    /\ UNCHANGED <<storage, stateFile, recorded>>

Next ==
    \/ \E f \in Function : \/ \E failed \in SUBSET File :
                                 StartInitialBuild(f, failed)
                           \/ StartBuild(f)
    \/ FilterDone
    \/ FilterFails
    \/ \E x \in File :
          \/ FilterKeepsLocal(x)
          \/ FilterFinds(x)
          \/ FilterRemoves(x)
          \/ \E c \in Content : \/ StageArtifact(x, c)
                                \/ CreateFile(x, c)
                                \/ WriteFile(x, c)
          \/ RemoveFile(x, None)
          \/ RemoveFile(x, Special)
          \/ BatchStat(x)
          \/ SkipFile(x)
          \/ UploadFile(x)
    \/ FinalizeBuild
    \/ \E d \in Directory : LookupAllChildren(d) \/ SaveDirectory(d)
    \/ UploadFails
    \/ \E stored \in SUBSET Hash : FlushFull(stored) \/ Flusher(stored)
    \/ SaveOutputPath
    \/ SaveOutputPathFails
    \/ \E h \in Hash : StorageEvict(h)
    \/ Restart

Spec == Init /\ [][Next]_vars

-----------------------------------------------------------------------------
(* Type invariant.                                                         *)
TypeOK ==
    /\ pc \in {"stopped", "filtering", "building", "aborted", "uploading",
               "saving", "idle"}
    /\ function \in Function \union {NULL}
    /\ verified \in BOOLEAN
    /\ unfiltered \subseteq File
    /\ leaf \in [File -> Leaf]
    /\ storage \subseteq Hash
    /\ pinned \subseteq Hash
    /\ upload \in UploadState
    /\ logged \in BOOLEAN
    /\ writer \in WriterState
    /\ stateFile \in Hashes
    /\ untouched \subseteq File
    /\ written \in Contents
    /\ recorded \in Contents

(* Unless FinalizeBuild() logged an error, the state file has every local  *)
(* file that nobody changed in the meantime, with the digest of its actual *)
(* contents, and these contents have reached the storage.  This is what    *)
(* the decorator is for: "capable of persisting and restoring all files in *)
(* the output path".                                                       *)
SavedIsUploaded ==
    [][pc = "saving" /\ pc' = "idle" /\ ~logged' =>
          \A x \in untouched \ StatusFile :
              leaf[x].kind = "local" =>
                  /\ stateFile'[x] = <<function, leaf[x].data>>
                  /\ stateFile'[x] \in storage]_vars

(* Once StartBuild() has succeeded, every file that is backed by the       *)
(* storage can be read, under the digest function of the build, and has    *)
(* the contents that were last written to it or staged in its place.  This *)
(* includes files that were created locally, and were uploaded, saved and  *)
(* restored since, with another digest function, after uploading failed    *)
(* half-way, or while processes wrote to them.                             *)
ReadsAsWritten ==
    verified => \A x \in File :
        leaf[x].kind = "cas" => /\ leaf[x].digest.function = function
                                /\ Available(leaf[x].digest)
                                /\ leaf[x].digest.hash[2] = written[x]

(* No file is left frozen after it was uploaded, nor after the upload of   *)
(* any other file failed, so that processes can write to it again.         *)
NothingFrozen == pc # "uploading" => upload.batch = {}
=============================================================================
