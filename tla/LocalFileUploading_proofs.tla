--------------------- MODULE LocalFileUploading_proofs ---------------------
(***************************************************************************)
(* What uploading promises about the state file and about the files a      *)
(* build gets to see, for any number of files, directories, contents and   *)
(* digest functions, and any size of the batch.                            *)
(***************************************************************************)
EXTENDS LocalFileUploading, TLAPS

(* Builds have a digest function, and lose their claim on the storage when *)
(* they end.  A state file is only being written at their end.             *)
BuildOK ==
    /\ pc # "stopped" => function \in Function
    /\ verified => pc \in {"building", "uploading", "saving"}
    /\ pc # "saving" => writer = NoWriter

PinOK == pinned \subseteq storage

(* The storage keeps the object of a file until the build ends.            *)
Kept(x) ==
    leaf[x].kind = "cas" =>
        /\ leaf[x].digest.function = function
        /\ leaf[x].digest.hash[1] = function
        /\ leaf[x].digest.hash \in pinned

KeptOK ==
    \A x \in File :
        verified \/ (pc = "filtering" /\ x \notin unfiltered) => Kept(x)

(* Digests, wherever they are, are those of what was written.              *)
LeafTrue(x) ==
    /\ leaf[x].kind = "local" => leaf[x].data = written[x]
    /\ leaf[x].digest # NULL => leaf[x].digest.hash[2] = written[x]

StateTrue(x) == stateFile[x] # NULL => stateFile[x][2] = recorded[x]

WriterTrue(x) ==
    writer.hashes[x] # NULL => writer.hashes[x][2] = writer.contents[x]

LeavesTrue == \A x \in File : LeafTrue(x)
StatesTrue == \A x \in File : StateTrue(x) /\ WriterTrue(x)

(* The digest of a local file is that of its contents, which are kept by   *)
(* the storage or wait in the batch.                                       *)
Settled(x) ==
    /\ leaf[x].digest = DigestOf(leaf[x].data)
    /\ <<function, leaf[x].data>> \in pinned \union Pending

(* A local file that nobody changed is yet to be visited or uploaded, or   *)
(* is settled, unless there was an error that will be logged.              *)
UploadAccounted ==
    pc = "uploading" =>
        \A x \in untouched :
            leaf[x].kind = "local" =>
                \/ ParentOf[x] \in upload.unvisited
                \/ x \in upload.entries
                \/ upload.err1
                \/ upload.flushError
                \/ Settled(x)

(* Once its directory was saved, its digest is in the state file.          *)
SaveAccounted ==
    pc = "saving" /\ ~logged =>
        \A x \in untouched :
            leaf[x].kind = "local" =>
                /\ Settled(x)
                /\ \/ ParentOf[x] \in writer.unvisited
                   \/ x \in StatusFile
                   \/ writer.hashes[x] = <<function, leaf[x].data>>

UInv == /\ TypeOK /\ BuildOK /\ PinOK /\ KeptOK
        /\ LeavesTrue /\ StatesTrue /\ NothingFrozen
        /\ UploadAccounted /\ SaveAccounted

-----------------------------------------------------------------------------
LEMMA LeafTypes ==
    /\ None \in Leaf /\ Special \in Leaf
    /\ \A c \in Content : Local(c) \in Leaf
    /\ \A d \in Digest : Remote(d) \in Leaf
    /\ NoUpload \in UploadState
    /\ NoWriter \in WriterState
    /\ Nothing \in Hashes /\ Nothing \in Contents
  BY DEF None, Special, Local, Remote, Leaf, NoUpload, UploadState, NoWriter,
         WriterState, Nothing, Hashes, Contents

LEMMA LeafFields ==
    ASSUME NEW l \in Leaf
    PROVE  /\ l.kind = "local" => /\ l.data \in Content
                                  /\ \A d \in Digest :
                                       /\ [l EXCEPT !.digest = d] \in Leaf
                                       /\ [l EXCEPT !.digest = d].digest = d
                                       /\ [l EXCEPT !.digest = d].kind = "local"
                                       /\ [l EXCEPT !.digest = d].data = l.data
           /\ l.kind = "cas" => l.digest \in Digest
           /\ l.digest # NULL => l.digest \in Digest
  <1>1. CASE l \in [kind : {"none", "special"}, data : {NULL}, digest : {NULL}]
    BY <1>1
  <1>2. CASE l \in [kind : {"local"}, data : Content, digest : Digest \union {NULL}]
    BY <1>2 DEF Leaf
  <1>3. CASE l \in [kind : {"cas"}, data : {NULL}, digest : Digest]
    BY <1>3
  <1> QED BY <1>1, <1>2, <1>3 DEF Leaf

LEMMA DigestTypes ==
    ASSUME function \in Function, NEW c \in Content
    PROVE  /\ DigestOf(c) \in Digest
           /\ DigestOf(c) # NULL
           /\ DigestOf(c).function = function
           /\ DigestOf(c).hash = <<function, c>>
           /\ DigestOf(c).hash \in Hash
           /\ DigestOf(c).hash[1] = function
           /\ DigestOf(c).hash[2] = c
  <1>1. <<function, c>> \in Hash /\ <<function, c>>[1] = function /\ <<function, c>>[2] = c
    BY DEF Hash
  <1>2. DigestOf(c) \in Digest
    BY <1>1 DEF DigestOf, Digest
  <1> QED BY <1>1, <1>2, UploadingAssumption DEF DigestOf

LEMMA UInvInit == Init => UInv
  <1> SUFFICES ASSUME Init PROVE UInv
    OBVIOUS
  <1>1. TypeOK
    BY LeafTypes DEF Init, TypeOK
  <1>2. BuildOK /\ PinOK /\ KeptOK /\ NothingFrozen /\ UploadAccounted /\ SaveAccounted
    BY DEF Init, BuildOK, PinOK, KeptOK, NothingFrozen, UploadAccounted,
           SaveAccounted, NoUpload
  <1>3. LeavesTrue
    BY DEF Init, LeavesTrue, LeafTrue, None
  <1>4. StatesTrue
    BY DEF Init, StatesTrue, StateTrue, WriterTrue, Nothing, NoWriter
  <1> QED BY <1>1, <1>2, <1>3, <1>4 DEF UInv

(* Outside FinalizeBuild(), nothing waits to be uploaded or saved.         *)
LEMMA NotFinalizing ==
    ASSUME UInv,
           pc' \notin {"uploading", "saving"},
           pc \notin {"uploading", "saving"},
           upload' = upload
    PROVE  UploadAccounted' /\ SaveAccounted' /\ NothingFrozen'
  BY DEF UInv, UploadAccounted, SaveAccounted, NothingFrozen

(* State files and those that are being written do not change.             *)
LEMMA StatesKept ==
    ASSUME UInv, writer' = writer, stateFile' = stateFile, recorded' = recorded
    PROVE  StatesTrue'
  BY DEF UInv, StatesTrue, StateTrue, WriterTrue

-----------------------------------------------------------------------------
(* The start of a build.                                                   *)
LEMMA StartInitialPreserves ==
    ASSUME UInv, NEW f \in Function, NEW failed \in SUBSET File,
           StartInitialBuild(f, failed)
    PROVE  UInv'
  <1> USE DEF UInv
  <1>0. /\ pc = "stopped" /\ pc' = "filtering" /\ function' = f
        /\ verified' = verified /\ storage' = storage /\ pinned' = pinned
        /\ upload' = upload /\ logged' = logged /\ writer' = writer
        /\ stateFile' = stateFile /\ recorded' = recorded
        /\ untouched' = untouched
        /\ leaf' = Restored(f, failed)
        /\ unfiltered' = {x \in File : leaf'[x] # None}
        /\ written' = [x \in File |-> IF leaf'[x] = None THEN NULL ELSE recorded[x]]
    BY DEF StartInitialBuild, cas, saved
  <1>1. \A x \in File :
           \/ leaf'[x] = None
           \/ /\ stateFile[x] # NULL
              /\ [function |-> f, hash |-> stateFile[x]] \in Digest
              /\ leaf'[x] = Remote([function |-> f, hash |-> stateFile[x]])
    BY <1>0 DEF Restored, TypeOK, Hashes, Digest
  <1>2. leaf' \in [File -> Leaf]
    <2>1. \A x \in File : leaf'[x] \in Leaf
      BY <1>1, LeafTypes
    <2> QED BY <1>0, <2>1 DEF Restored
  <1>3. TypeOK'
    <2>1. written' \in Contents
      BY <1>0 DEF TypeOK, Contents
    <2> QED BY <1>0, <1>2, <2>1 DEF TypeOK
  <1>4. BuildOK' /\ PinOK'
    BY <1>0 DEF BuildOK, PinOK
  <1>5. KeptOK'
    <2>1. \A x \in File : x \notin unfiltered' => leaf'[x] = None
      BY <1>0
    <2>2. ~verified'
      BY <1>0 DEF BuildOK
    <2> QED BY <1>0, <2>1, <2>2 DEF KeptOK, Kept, None
  <1>6. LeavesTrue'
    <2> SUFFICES ASSUME NEW x \in File PROVE LeafTrue(x)'
      BY DEF LeavesTrue
    <2>1. CASE leaf'[x] = None
      BY <2>1 DEF LeafTrue, None
    <2>2. CASE leaf'[x] # None
      <3>1. written'[x] = recorded[x]
        BY <1>0, <2>2
      <3>2. /\ stateFile[x] # NULL
            /\ leaf'[x] = Remote([function |-> f, hash |-> stateFile[x]])
        BY <1>1, <2>2
      <3>3. leaf'[x].kind = "cas" /\ leaf'[x].digest.hash = stateFile[x]
        BY <3>2 DEF Remote
      <3>4. stateFile[x][2] = recorded[x]
        BY <3>2 DEF StatesTrue, StateTrue
      <3> QED BY <3>1, <3>3, <3>4 DEF LeafTrue
    <2> QED BY <2>1, <2>2
  <1>7. StatesTrue' /\ NothingFrozen' /\ UploadAccounted' /\ SaveAccounted'
    BY <1>0, StatesKept, NotFinalizing
  <1> QED BY <1>3, <1>4, <1>5, <1>6, <1>7

LEMMA StartPreserves ==
    ASSUME UInv, NEW f \in Function, StartBuild(f)
    PROVE  UInv'
  <1> USE DEF UInv
  <1>0. /\ pc \in {"idle", "aborted"} /\ pc' = "filtering" /\ function' = f
        /\ verified' = verified /\ storage' = storage /\ pinned' = pinned
        /\ upload' = upload /\ logged' = FALSE /\ writer' = writer
        /\ stateFile' = stateFile /\ recorded' = recorded
        /\ untouched' = untouched /\ leaf' = leaf /\ written' = written
        /\ unfiltered' = {x \in File : leaf[x] # None}
    BY DEF StartBuild, cas
  <1>1. TypeOK' /\ BuildOK' /\ PinOK'
    BY <1>0 DEF TypeOK, BuildOK, PinOK
  <1>2. KeptOK'
    BY <1>0 DEF KeptOK, Kept, None, BuildOK
  <1>3. LeavesTrue'
    BY <1>0 DEF LeavesTrue, LeafTrue
  <1>4. StatesTrue' /\ NothingFrozen' /\ UploadAccounted' /\ SaveAccounted'
    BY <1>0, StatesKept, NotFinalizing
  <1> QED BY <1>1, <1>2, <1>3, <1>4

(* A file that was visited is kept by the storage, or is gone.             *)
LEMMA FilterPreserves ==
    ASSUME UInv, NEW x \in File,
           FilterKeepsLocal(x) \/ FilterFinds(x) \/ FilterRemoves(x)
    PROVE  UInv'
  <1> USE DEF UInv
  <1>0. /\ pc = "filtering" /\ pc' = pc /\ function' = function
        /\ verified' = verified /\ unfiltered' = unfiltered \ {x}
        /\ storage' = storage /\ upload' = upload /\ logged' = logged
        /\ writer' = writer /\ stateFile' = stateFile /\ recorded' = recorded
        /\ untouched' = untouched
    BY DEF FilterKeepsLocal, FilterFinds, FilterRemoves, Filter, saved
  <1>1. StatesTrue' /\ NothingFrozen' /\ UploadAccounted' /\ SaveAccounted' /\ BuildOK'
    BY <1>0, StatesKept, NotFinalizing DEF BuildOK
  <1>2. ~verified'
    BY <1>0 DEF BuildOK
  <1>3. CASE FilterKeepsLocal(x)
    <2>1. /\ leaf' = leaf /\ pinned' = pinned /\ written' = written
          /\ leaf[x].kind # "cas"
      BY <1>3 DEF FilterKeepsLocal
    <2>2. TypeOK' /\ PinOK' /\ LeavesTrue'
      BY <1>0, <2>1 DEF TypeOK, PinOK, LeavesTrue, LeafTrue
    <2>3. KeptOK'
      BY <1>0, <1>2, <2>1 DEF KeptOK, Kept
    <2> QED BY <1>1, <2>2, <2>3
  <1>4. CASE FilterFinds(x)
    <2>1. /\ leaf' = leaf /\ written' = written
          /\ leaf[x].kind = "cas"
          /\ leaf[x].digest.function = function
          /\ leaf[x].digest.hash[1] = function
          /\ leaf[x].digest.hash \in storage
          /\ pinned' = pinned \union {leaf[x].digest.hash}
      BY <1>4 DEF FilterFinds, Available
    <2>2. TypeOK' /\ PinOK' /\ LeavesTrue'
      BY <1>0, <2>1 DEF TypeOK, PinOK, LeavesTrue, LeafTrue
    <2>3. KeptOK'
      BY <1>0, <1>2, <2>1 DEF KeptOK, Kept
    <2> QED BY <1>1, <2>2, <2>3
  <1>5. CASE FilterRemoves(x)
    <2>1. /\ leaf' = [leaf EXCEPT ![x] = None] /\ pinned' = pinned
          /\ written' = [written EXCEPT ![x] = NULL]
      BY <1>5 DEF FilterRemoves
    <2>2. /\ leaf'[x] = None
          /\ \A y \in File \ {x} : leaf'[y] = leaf[y] /\ written'[y] = written[y]
      BY <2>1 DEF TypeOK, Contents
    <2>3. TypeOK' /\ PinOK'
      BY <1>0, <2>1, LeafTypes DEF TypeOK, PinOK, Contents
    <2>4. LeavesTrue'
      BY <2>2 DEF LeavesTrue, LeafTrue, None
    <2>5. KeptOK'
      BY <1>0, <1>2, <2>1, <2>2 DEF KeptOK, Kept, None
    <2> QED BY <1>1, <2>3, <2>4, <2>5
  <1> QED BY <1>3, <1>4, <1>5

LEMMA FilterEndPreserves ==
    ASSUME UInv, FilterDone \/ FilterFails
    PROVE  UInv'
  <1> USE DEF UInv
  <1>0. /\ pc = "filtering" /\ pc' \in {"building", "aborted"}
        /\ function' = function /\ storage' = storage /\ upload' = upload
        /\ logged' = logged /\ writer' = writer /\ stateFile' = stateFile
        /\ recorded' = recorded /\ untouched' = untouched /\ leaf' = leaf
        /\ written' = written
    BY DEF FilterDone, FilterFails, cas, saved
  <1>1. StatesTrue' /\ NothingFrozen' /\ UploadAccounted' /\ SaveAccounted' /\ LeavesTrue'
    BY <1>0, StatesKept, NotFinalizing DEF LeavesTrue, LeafTrue
  <1>2. CASE FilterDone
    <2>1. /\ verified' = TRUE /\ unfiltered = {} /\ unfiltered' = unfiltered
          /\ pc' = "building" /\ pinned' = pinned
      BY <1>2 DEF FilterDone, cas
    <2>2. TypeOK' /\ BuildOK' /\ PinOK'
      BY <1>0, <2>1 DEF TypeOK, BuildOK, PinOK
    <2>3. KeptOK'
      BY <1>0, <2>1 DEF KeptOK, Kept
    <2> QED BY <1>1, <2>2, <2>3
  <1>3. CASE FilterFails
    <2>1. verified' = verified /\ unfiltered' = {} /\ pc' = "aborted" /\ pinned' = {}
      BY <1>3 DEF FilterFails
    <2>2. TypeOK' /\ BuildOK' /\ PinOK'
      BY <1>0, <2>1 DEF TypeOK, BuildOK, PinOK
    <2>3. KeptOK'
      BY <1>0, <2>1, <2>2 DEF KeptOK, BuildOK
    <2> QED BY <1>1, <2>2, <2>3
  <1> QED BY <1>2, <1>3

(* The storage loses what it does not have to keep, and a restart forgets  *)
(* everything but the state file.                                          *)
LEMMA EnvironmentPreserves ==
    ASSUME UInv, Restart \/ \E h \in Hash : StorageEvict(h)
    PROVE  UInv'
  <1> USE DEF UInv
  <1>1. CASE Restart
    <2>1. TypeOK'
      BY <1>1, LeafTypes DEF Restart, TypeOK
    <2>2. BuildOK' /\ PinOK' /\ KeptOK' /\ NothingFrozen' /\ UploadAccounted' /\ SaveAccounted'
      BY <1>1 DEF Restart, BuildOK, PinOK, KeptOK, NothingFrozen, NoUpload,
                  UploadAccounted, SaveAccounted
    <2>3. LeavesTrue'
      BY <1>1 DEF Restart, LeavesTrue, LeafTrue, None
    <2>4. StatesTrue'
      BY <1>1 DEF Restart, StatesTrue, StateTrue, WriterTrue, NoWriter, Nothing
    <2> QED BY <2>1, <2>2, <2>3, <2>4
  <1>2. CASE \E h \in Hash : StorageEvict(h)
    <2>1. PICK h \in Hash : StorageEvict(h)
      BY <1>2
    <2>2. /\ pc' = pc /\ function' = function /\ verified' = verified
          /\ unfiltered' = unfiltered /\ leaf' = leaf /\ pinned' = pinned
          /\ upload' = upload /\ logged' = logged /\ writer' = writer
          /\ stateFile' = stateFile /\ recorded' = recorded
          /\ untouched' = untouched /\ written' = written
          /\ storage' = storage \ {h} /\ h \notin pinned
      BY <2>1 DEF StorageEvict, build, saved
    <2>3. TypeOK' /\ BuildOK' /\ PinOK' /\ KeptOK' /\ NothingFrozen'
      BY <2>2 DEF TypeOK, BuildOK, PinOK, KeptOK, Kept, NothingFrozen
    <2>4. LeavesTrue' /\ StatesTrue'
      BY <2>2, StatesKept DEF LeavesTrue, LeafTrue
    <2>5. \A y \in untouched : Settled(y) => Settled(y)'
      BY <2>2 DEF Settled, DigestOf, Pending
    <2>6. UploadAccounted' /\ SaveAccounted'
      BY <2>2, <2>5 DEF UploadAccounted, SaveAccounted
    <2> QED BY <2>3, <2>4, <2>6
  <1> QED BY <1>1, <1>2

-----------------------------------------------------------------------------
(* Replacing a file takes it out of the batch; its contents stay.          *)
LEMMA ReplaceUpload ==
    ASSUME UInv, NEW x \in File,
           upload' = [upload EXCEPT
                        !.entries = @ \ {x},
                        !.batch = {<<IF p[1] = x THEN NULL ELSE p[1], p[2]>> : p \in @}]
    PROVE  /\ upload' \in UploadState
           /\ Pending' = Pending
           /\ upload.batch = {} => upload'.batch = {}
           /\ upload'.unvisited = upload.unvisited
           /\ upload'.entries = upload.entries \ {x}
           /\ upload'.err1 = upload.err1
           /\ upload'.flushError = upload.flushError
  <1> DEFINE New(p) == <<IF p[1] = x THEN NULL ELSE p[1], p[2]>>
             T == {New(p) : p \in upload.batch}
  <1>1. upload \in UploadState
    BY DEF UInv, TypeOK
  <1>2. upload' = [upload EXCEPT !.entries = @ \ {x}, !.batch = T]
    OBVIOUS
  <1>3. \A p \in upload.batch : /\ New(p) \in (File \union {NULL}) \X Hash
                                /\ New(p)[2] = p[2]
    BY <1>1 DEF UploadState
  <1> HIDE DEF New
  <1>4. T \in SUBSET ((File \union {NULL}) \X Hash)
    BY <1>3
  <1>5. {q[2] : q \in T} = {p[2] : p \in upload.batch}
    BY <1>3
  <1>6. upload.batch = {} => T = {}
    OBVIOUS
  <1> HIDE DEF T
  <1>7. /\ upload' \in UploadState
        /\ upload'.batch = T
        /\ upload'.unvisited = upload.unvisited
        /\ upload'.entries = upload.entries \ {x}
        /\ upload'.err1 = upload.err1
        /\ upload'.flushError = upload.flushError
    BY <1>1, <1>2, <1>4 DEF UploadState
  <1>8. Pending' = Pending
    BY <1>5, <1>7 DEF Pending
  <1> QED BY <1>6, <1>7, <1>8

(* A file that is changed by a process is no longer accounted for.         *)
LEMMA TouchPreserves ==
    ASSUME UInv, NEW x \in File, NEW l \in Leaf, NEW c \in Content \union {NULL},
           Touch(x, l, c),
           storage \subseteq storage', storage' \subseteq Hash,
           pinned \subseteq pinned', pinned' \subseteq storage',
           upload' \in UploadState, Pending' = Pending,
           upload.batch = {} => upload'.batch = {},
           upload'.unvisited = upload.unvisited,
           upload.entries \ {x} \subseteq upload'.entries,
           upload'.err1 = upload.err1,
           upload'.flushError = upload.flushError,
           l.kind = "cas" => /\ l.digest.function = function
                             /\ l.digest.hash[1] = function
                             /\ l.digest.hash \in pinned',
           l.kind = "local" => l.data = c,
           l.digest # NULL => l.digest.hash[2] = c
    PROVE  UInv'
  <1> USE DEF UInv
  <1>0. /\ pc' = pc /\ function' = function /\ verified' = verified
        /\ unfiltered' = unfiltered
        /\ logged' = logged /\ writer' = writer
        /\ stateFile' = stateFile /\ recorded' = recorded
        /\ untouched' = untouched \ {x}
        /\ leaf' = [leaf EXCEPT ![x] = l]
        /\ written' = [written EXCEPT ![x] = c]
    BY DEF Touch, build, saved
  <1>1. /\ leaf' \in [File -> Leaf] /\ written' \in Contents
        /\ leaf'[x] = l /\ written'[x] = c
        /\ \A y \in File \ {x} : leaf'[y] = leaf[y] /\ written'[y] = written[y]
    BY <1>0 DEF TypeOK, Contents
  <1>2. TypeOK'
    BY <1>0, <1>1 DEF TypeOK
  <1>3. BuildOK' /\ PinOK' /\ NothingFrozen'
    BY <1>0 DEF BuildOK, PinOK, NothingFrozen
  <1>4. KeptOK'
    BY <1>0, <1>1 DEF KeptOK, Kept
  <1>5. LeavesTrue' /\ StatesTrue'
    BY <1>0, <1>1, StatesKept DEF LeavesTrue, LeafTrue
  <1>6. \A y \in untouched' : /\ y \in untouched /\ y # x
                              /\ leaf'[y] = leaf[y]
                              /\ Settled(y) => Settled(y)'
    BY <1>0, <1>1 DEF TypeOK, Settled, DigestOf
  <1>7. UploadAccounted'
    BY <1>0, <1>6 DEF UploadAccounted
  <1>8. SaveAccounted'
    BY <1>0, <1>6 DEF SaveAccounted
  <1> QED BY <1>2, <1>3, <1>4, <1>5, <1>7, <1>8

LEMMA ChangePreserves ==
    ASSUME UInv, NEW x \in File,
           \/ \E c \in Content : \/ StageArtifact(x, c)
                                 \/ CreateFile(x, c)
                                 \/ WriteFile(x, c)
           \/ RemoveFile(x, None)
           \/ RemoveFile(x, Special)
    PROVE  UInv'
  <1>0. storage \subseteq Hash /\ pinned \subseteq storage /\ upload \in UploadState
    BY DEF UInv, TypeOK, PinOK
  <1>1. ASSUME NEW c \in Content, StageArtifact(x, c)
        PROVE  UInv'
    <2> DEFINE d == DigestOf(c)
               l == Remote(d)
    <2>1. function \in Function
      BY <1>1 DEF StageArtifact, UInv, BuildOK
    <2>2. /\ d.hash \in Hash /\ d.function = function
          /\ d.hash[1] = function /\ d.hash[2] = c
          /\ l \in Leaf
      BY <2>1, DigestTypes, LeafTypes
    <2>3. /\ Touch(x, l, c)
          /\ storage' = storage \union {d.hash}
          /\ pinned' = pinned \union {d.hash}
      BY <1>1 DEF StageArtifact, Replace
    <2>4. upload' = [upload EXCEPT
                       !.entries = @ \ {x},
                       !.batch = {<<IF p[1] = x THEN NULL ELSE p[1], p[2]>> : p \in @}]
      BY <1>1 DEF StageArtifact, Replace
    <2>5. l.digest = d /\ l.kind = "cas"
      BY DEF Remote
    <2> HIDE DEF d, l
    <2>6. /\ upload' \in UploadState
          /\ Pending' = Pending
          /\ upload.batch = {} => upload'.batch = {}
          /\ upload'.unvisited = upload.unvisited
          /\ upload'.entries = upload.entries \ {x}
          /\ upload'.err1 = upload.err1
          /\ upload'.flushError = upload.flushError
      BY <2>4, ReplaceUpload
    <2> QED BY <1>0, <2>2, <2>3, <2>5, <2>6, TouchPreserves
  <1>2. ASSUME NEW l \in Leaf, NEW c \in Content \union {NULL},
               l.digest = NULL, l.kind # "cas", l.kind = "local" => l.data = c,
               Replace(x, l, c), UNCHANGED cas
        PROVE  UInv'
    <2>1. Touch(x, l, c) /\ storage' = storage /\ pinned' = pinned
      BY <1>2 DEF Replace, cas
    <2>2. upload' = [upload EXCEPT
                       !.entries = @ \ {x},
                       !.batch = {<<IF p[1] = x THEN NULL ELSE p[1], p[2]>> : p \in @}]
      BY <1>2 DEF Replace
    <2>3. /\ upload' \in UploadState
          /\ Pending' = Pending
          /\ upload.batch = {} => upload'.batch = {}
          /\ upload'.unvisited = upload.unvisited
          /\ upload'.entries = upload.entries \ {x}
          /\ upload'.err1 = upload.err1
          /\ upload'.flushError = upload.flushError
      BY <2>2, ReplaceUpload
    <2> QED BY <1>0, <1>2, <2>1, <2>3, TouchPreserves
  <1>3. ASSUME NEW c \in Content, WriteFile(x, c)
        PROVE  UInv'
    <2>1. Touch(x, Local(c), c) /\ storage' = storage /\ pinned' = pinned /\ upload' = upload
      BY <1>3 DEF WriteFile, cas
    <2>2. /\ Local(c) \in Leaf /\ Local(c).kind = "local"
          /\ Local(c).data = c /\ Local(c).digest = NULL
      BY LeafTypes DEF Local
    <2>3. Pending' = Pending
      BY <2>1 DEF Pending
    <2> QED BY <1>0, <2>1, <2>2, <2>3, TouchPreserves
  <1>4. ASSUME NEW c \in Content, CreateFile(x, c)
        PROVE  UInv'
    <2>1. Replace(x, Local(c), c) /\ UNCHANGED cas
      BY <1>4 DEF CreateFile
    <2>2. /\ Local(c) \in Leaf /\ Local(c).kind = "local"
          /\ Local(c).data = c /\ Local(c).digest = NULL
      BY LeafTypes DEF Local
    <2> QED BY <1>2, <2>1, <2>2
  <1>5. ASSUME NEW l \in {None, Special}, RemoveFile(x, l)
        PROVE  UInv'
    <2>1. Replace(x, l, NULL) /\ UNCHANGED cas
      BY <1>5 DEF RemoveFile
    <2>2. l \in Leaf /\ l.kind \notin {"cas", "local"} /\ l.digest = NULL
      BY LeafTypes DEF None, Special
    <2> QED BY <1>2, <2>1, <2>2
  <1> QED BY <1>1, <1>3, <1>4, <1>5

(* BatchStat() gives a file the digest of its contents, which is the one   *)
(* that it would get by uploading it.                                      *)
LEMMA BatchStatPreserves ==
    ASSUME UInv, NEW x \in File, BatchStat(x)
    PROVE  UInv'
  <1> USE DEF UInv
  <1>0. /\ pc' = pc /\ function' = function /\ verified' = verified
        /\ unfiltered' = unfiltered
        /\ logged' = logged /\ writer' = writer
        /\ stateFile' = stateFile /\ recorded' = recorded
        /\ untouched' = untouched /\ written' = written /\ upload' = upload
        /\ storage' = storage /\ pinned' = pinned
        /\ leaf' = [leaf EXCEPT ![x] = [leaf[x] EXCEPT !.digest = DigestOf(leaf[x].data)]]
        /\ leaf[x].kind = "local"
    BY DEF BatchStat, build, saved, cas
  <1>1. function \in Function /\ leaf[x].data \in Content
    BY LeafFields DEF BatchStat, TypeOK, BuildOK
  <1>2. /\ leaf' \in [File -> Leaf]
        /\ leaf'[x].digest = DigestOf(leaf[x].data)
        /\ leaf'[x].kind = leaf[x].kind /\ leaf'[x].data = leaf[x].data
        /\ \A y \in File \ {x} : leaf'[y] = leaf[y]
    BY <1>0, <1>1, DigestTypes, LeafFields DEF TypeOK
  <1>3. TypeOK'
    BY <1>0, <1>2 DEF TypeOK
  <1>4. BuildOK' /\ PinOK' /\ KeptOK' /\ NothingFrozen' /\ StatesTrue'
    BY <1>0, <1>2, StatesKept DEF BuildOK, PinOK, KeptOK, Kept, NothingFrozen
  <1>5. LeavesTrue'
    <2>1. DigestOf(leaf[x].data).hash[2] = leaf[x].data
      BY <1>1, DigestTypes
    <2> QED BY <1>0, <1>2, <2>1 DEF LeavesTrue, LeafTrue
  <1>6. \A y \in untouched : /\ leaf'[y].kind = leaf[y].kind
                             /\ leaf'[y].data = leaf[y].data
                             /\ Settled(y) => Settled(y)'
    BY <1>0, <1>2 DEF TypeOK, Settled, DigestOf, Pending
  <1>7. UploadAccounted' /\ SaveAccounted'
    BY <1>0, <1>6 DEF UploadAccounted, SaveAccounted
  <1> QED BY <1>3, <1>4, <1>5, <1>7

-----------------------------------------------------------------------------
LEMMA FinalizeBuildPreserves ==
    ASSUME UInv, FinalizeBuild
    PROVE  UInv'
  <1> USE DEF UInv
  <1>0. /\ pc \in {"building", "aborted"} /\ pc' = "uploading"
        /\ function' = function /\ verified' = verified
        /\ unfiltered' = unfiltered /\ leaf' = leaf /\ written' = written
        /\ storage' = storage /\ pinned' = pinned
        /\ logged' = logged /\ writer' = writer
        /\ stateFile' = stateFile /\ recorded' = recorded
        /\ untouched' = File
        /\ upload' = [NoUpload EXCEPT !.unvisited = Directory]
    BY DEF FinalizeBuild, saved, cas
  <1>1. /\ upload' \in UploadState
        /\ upload'.batch = {}
        /\ upload'.unvisited = Directory
    BY <1>0 DEF NoUpload, UploadState
  <1>2. TypeOK'
    BY <1>0, <1>1 DEF TypeOK
  <1>3. BuildOK' /\ PinOK' /\ KeptOK' /\ NothingFrozen' /\ SaveAccounted'
    BY <1>0 DEF BuildOK, PinOK, KeptOK, Kept, NothingFrozen, SaveAccounted
  <1>4. LeavesTrue' /\ StatesTrue'
    BY <1>0, StatesKept DEF LeavesTrue, LeafTrue
  <1>5. UploadAccounted'
    BY <1>0, <1>1, UploadingAssumption DEF UploadAccounted
  <1> QED BY <1>2, <1>3, <1>4, <1>5

(* Steps of the traversal that leave the files and the storage alone.      *)
LEMMA TraversalPreserves ==
    ASSUME UInv,
           \/ \E d \in Directory : LookupAllChildren(d)
           \/ \E x \in File : SkipFile(x)
           \/ UploadFails
    PROVE  UInv'
  <1> USE DEF UInv
  <1>0. /\ pc = "uploading" /\ pc' = pc
        /\ function' = function /\ verified' = verified
        /\ unfiltered' = unfiltered /\ leaf' = leaf /\ written' = written
        /\ storage' = storage /\ pinned' = pinned
        /\ logged' = logged /\ writer' = writer
        /\ stateFile' = stateFile /\ recorded' = recorded
        /\ untouched' = untouched
    BY DEF LookupAllChildren, SkipFile, UploadFails, Uploading, build, saved, cas
  <1>1. /\ upload' \in UploadState
        /\ upload'.batch = upload.batch
    <2>0. upload \in UploadState
      BY DEF TypeOK
    <2>1. ASSUME NEW d \in Directory, LookupAllChildren(d)
          PROVE  upload' \in UploadState /\ upload'.batch = upload.batch
      <3> DEFINE found == {x \in File : ParentOf[x] = d /\ leaf[x] # None}
      <3>1. upload' = [upload EXCEPT !.unvisited = upload.unvisited \ {d},
                                     !.entries = upload.entries \union found]
        BY <2>1 DEF LookupAllChildren
      <3>2. found \subseteq File
        OBVIOUS
      <3> HIDE DEF found
      <3> QED BY <2>0, <3>1, <3>2 DEF UploadState
    <2>2. ASSUME NEW x \in File, SkipFile(x)
          PROVE  upload' \in UploadState /\ upload'.batch = upload.batch
      BY <2>0, <2>2 DEF SkipFile, UploadState
    <2>3. ASSUME UploadFails
          PROVE  upload' \in UploadState /\ upload'.batch = upload.batch
      BY <2>0, <2>3 DEF UploadFails, UploadState
    <2> QED BY <2>1, <2>2, <2>3
  <1>2. TypeOK'
    BY <1>0, <1>1 DEF TypeOK
  <1>3. BuildOK' /\ PinOK' /\ KeptOK' /\ NothingFrozen' /\ SaveAccounted'
    BY <1>0, <1>1 DEF BuildOK, PinOK, KeptOK, Kept, NothingFrozen, SaveAccounted
  <1>4. LeavesTrue' /\ StatesTrue'
    BY <1>0, StatesKept DEF LeavesTrue, LeafTrue
  <1>5. \A y \in untouched : Settled(y) => Settled(y)'
    BY <1>0, <1>1 DEF Settled, DigestOf, Pending
  <1>6. \A y \in untouched :
           leaf[y].kind = "local" =>
               \/ ParentOf[y] \in upload'.unvisited
               \/ y \in upload'.entries
               \/ upload'.err1
               \/ upload'.flushError
               \/ Settled(y)
    <2> SUFFICES ASSUME NEW y \in untouched, leaf[y].kind = "local"
                 PROVE  \/ ParentOf[y] \in upload'.unvisited
                        \/ y \in upload'.entries
                        \/ upload'.err1
                        \/ upload'.flushError
                        \/ Settled(y)
      OBVIOUS
    <2>0. /\ upload \in UploadState /\ y \in File
          /\ \/ ParentOf[y] \in upload.unvisited
             \/ y \in upload.entries
             \/ upload.err1
             \/ upload.flushError
             \/ Settled(y)
      BY <1>0 DEF TypeOK, UploadAccounted
    <2>1. CASE \E d \in Directory : LookupAllChildren(d)
      <3>1. leaf[y] # None
        BY DEF None
      <3>2. PICK d \in Directory : LookupAllChildren(d)
        BY <2>1
      <3> DEFINE found == {x \in File : ParentOf[x] = d /\ leaf[x] # None}
      <3>3. upload' = [upload EXCEPT !.unvisited = upload.unvisited \ {d},
                                     !.entries = upload.entries \union found]
        BY <3>2 DEF LookupAllChildren
      <3>4. ParentOf[y] = d => y \in found
        BY <2>0, <3>1
      <3> HIDE DEF found
      <3> QED BY <2>0, <3>3, <3>4 DEF UploadState
    <2>2. CASE \E x \in File : SkipFile(x)
      BY <2>0, <2>2 DEF SkipFile, UploadState
    <2>3. CASE UploadFails
      BY <2>0, <2>3 DEF UploadFails, UploadState
    <2> QED BY <2>1, <2>2, <2>3
  <1>7. UploadAccounted'
    BY <1>0, <1>5, <1>6 DEF UploadAccounted
  <1> QED BY <1>2, <1>3, <1>4, <1>7

(* Put() has the batch hold the hash unless an error is reported.          *)
LEMMA PutBatch ==
    ASSUME UInv, NEW x \in File, NEW h \in Hash, Put(x, h)
    PROVE  /\ upload' \in UploadState
           /\ Pending \subseteq Pending'
           /\ upload'.unvisited = upload.unvisited
           /\ upload'.entries = upload.entries \ {x}
           /\ upload'.err1 = upload.flushError
           /\ upload'.flushError = upload.flushError
           /\ upload.flushError \/ h \in Pending'
  <1>0. upload \in UploadState
    BY DEF UInv, TypeOK
  <1>1. /\ upload' \in UploadState
        /\ upload'.unvisited = upload.unvisited
        /\ upload'.entries = upload.entries \ {x}
        /\ upload'.err1 = upload.flushError
        /\ upload'.flushError = upload.flushError
        /\ upload'.batch = IF upload.flushError \/ h \in Pending THEN upload.batch
                           ELSE upload.batch \union {<<x, h>>}
    <2> DEFINE new == IF upload.flushError \/ h \in Pending THEN upload.batch
                      ELSE upload.batch \union {<<x, h>>}
    <2>1. upload' = [upload EXCEPT !.entries = upload.entries \ {x},
                                   !.err1 = upload.flushError,
                                   !.batch = new]
      BY DEF Put
    <2>2. new \in SUBSET ((File \union {NULL}) \X Hash)
      BY <1>0 DEF UploadState
    <2>3. upload.flushError \in BOOLEAN
      BY <1>0 DEF UploadState
    <2> HIDE DEF new
    <2>4. /\ upload' \in UploadState
          /\ upload'.unvisited = upload.unvisited
          /\ upload'.entries = upload.entries \ {x}
          /\ upload'.err1 = upload.flushError
          /\ upload'.flushError = upload.flushError
          /\ upload'.batch = new
      BY <1>0, <2>1, <2>2, <2>3 DEF UploadState
    <2> QED BY <2>4 DEF new
  <1>2. Pending \subseteq Pending' /\ (upload.flushError \/ h \in Pending')
    <2>1. upload.batch \subseteq upload'.batch
      BY <1>1
    <2>2. upload.flushError \/ h \in Pending \/ <<x, h>> \in upload'.batch
      BY <1>1
    <2>3. <<x, h>>[2] = h
      OBVIOUS
    <2> QED BY <2>1, <2>2, <2>3 DEF Pending
  <1> QED BY <1>1, <1>2

LEMMA UploadFilePreserves ==
    ASSUME UInv, NEW x \in File, UploadFile(x)
    PROVE  UInv'
  <1> USE DEF UInv
  <1>0. /\ pc = "uploading" /\ pc' = pc
        /\ function' = function /\ verified' = verified
        /\ unfiltered' = unfiltered /\ written' = written
        /\ storage' = storage /\ pinned' = pinned
        /\ logged' = logged /\ writer' = writer
        /\ stateFile' = stateFile /\ recorded' = recorded
        /\ untouched' = untouched
        /\ leaf[x].kind = "local"
        /\ leaf' = [leaf EXCEPT ![x] = [leaf[x] EXCEPT !.digest = DigestOf(leaf[x].data)]]
        /\ ~upload.err1
    BY DEF UploadFile, Uploading, build, saved, cas
  <1>1. function \in Function /\ leaf[x].data \in Content
    BY <1>0, LeafFields DEF TypeOK, BuildOK
  <1>2. /\ leaf' \in [File -> Leaf]
        /\ leaf'[x].digest = DigestOf(leaf[x].data)
        /\ leaf'[x].kind = leaf[x].kind /\ leaf'[x].data = leaf[x].data
        /\ \A y \in File \ {x} : leaf'[y] = leaf[y]
    BY <1>0, <1>1, DigestTypes, LeafFields DEF TypeOK
  <1> DEFINE h == DigestOf(leaf[x].data).hash
  <1>3. h \in Hash /\ h = <<function, leaf[x].data>> /\ h[2] = leaf[x].data
    BY <1>1, DigestTypes
  <1>4. Put(x, h)
    BY DEF UploadFile
  <1>5. LeavesTrue'
    BY <1>0, <1>2, <1>3 DEF LeavesTrue, LeafTrue
  <1> HIDE DEF h
  <1>6. /\ upload' \in UploadState
        /\ Pending \subseteq Pending'
        /\ upload'.unvisited = upload.unvisited
        /\ upload'.entries = upload.entries \ {x}
        /\ upload'.err1 = upload.flushError
        /\ upload'.flushError = upload.flushError
        /\ upload.flushError \/ h \in Pending'
    BY <1>3, <1>4, PutBatch
  <1>7. TypeOK'
    BY <1>0, <1>2, <1>6 DEF TypeOK
  <1>8. BuildOK' /\ PinOK' /\ KeptOK' /\ NothingFrozen' /\ SaveAccounted' /\ StatesTrue'
    BY <1>0, <1>2, StatesKept
       DEF BuildOK, PinOK, KeptOK, Kept, NothingFrozen, SaveAccounted
  <1>9. \A y \in untouched : /\ leaf'[y].kind = leaf[y].kind
                             /\ Settled(y) => Settled(y)'
    BY <1>0, <1>2, <1>6 DEF TypeOK, Settled, DigestOf
  <1>10. upload.flushError \/ Settled(x)'
    BY <1>0, <1>2, <1>3, <1>6 DEF Settled, DigestOf
  <1>11. UploadAccounted'
    BY <1>0, <1>6, <1>9, <1>10 DEF UploadAccounted
  <1> QED BY <1>5, <1>7, <1>8, <1>11

(* What was settled remains so if all of the batch reaches the storage.    *)
LEMMA FlushPreserves ==
    ASSUME UInv, NEW stored \in SUBSET Hash, FlushFull(stored) \/ Flusher(stored)
    PROVE  UInv'
  <1> USE DEF UInv
  <1>0. /\ pc = "uploading" /\ pc' \in {"uploading", "saving"}
        /\ function' = function /\ verified' = verified
        /\ unfiltered' = unfiltered /\ leaf' = leaf /\ written' = written
        /\ writer' = writer /\ stateFile' = stateFile /\ recorded' = recorded
        /\ untouched' = untouched
        /\ storage' = storage \union stored
        /\ pinned' = pinned \union stored
        /\ upload'.batch = {}
        /\ upload' \in UploadState
    <2>1. CASE FlushFull(stored)
      <3> DEFINE e == upload.flushError \/ stored # Pending
      <3>1. /\ pc = "uploading" /\ pc' = pc
            /\ function' = function /\ verified' = verified
            /\ unfiltered' = unfiltered /\ leaf' = leaf /\ written' = written
            /\ writer' = writer /\ stateFile' = stateFile /\ recorded' = recorded
            /\ untouched' = untouched
            /\ storage' = storage \union stored
            /\ pinned' = pinned \union stored
            /\ upload' = [upload EXCEPT !.batch = {}, !.flushError = e]
        BY <2>1 DEF FlushFull, Flush, Uploading, build, saved
      <3>2. e \in BOOLEAN /\ upload \in UploadState
        BY DEF TypeOK, UploadState
      <3> HIDE DEF e
      <3> QED BY <3>1, <3>2 DEF UploadState
    <2>2. CASE Flusher(stored)
      BY <2>2, LeafTypes DEF Flusher, Flush, UploadEnds, NoUpload
    <2> QED BY <2>1, <2>2
  <1>1. Pending' = {}
    BY <1>0 DEF Pending
  <1>2. NothingFrozen' /\ PinOK' /\ KeptOK' /\ LeavesTrue' /\ StatesTrue'
    BY <1>0, StatesKept DEF NothingFrozen, PinOK, KeptOK, Kept, LeavesTrue, LeafTrue
  <1>3. stored = Pending => \A y \in untouched : Settled(y) => Settled(y)'
    BY <1>0, <1>1 DEF Settled, DigestOf
  <1>4. CASE FlushFull(stored)
    <2>0. /\ pc' = pc /\ logged' = logged
          /\ upload'.unvisited = upload.unvisited
          /\ upload'.entries = upload.entries
          /\ upload'.err1 = upload.err1
          /\ upload'.flushError = (upload.flushError \/ stored # Pending)
      BY <1>4 DEF FlushFull, build, saved, TypeOK, UploadState
    <2>1. TypeOK'
      BY <1>0, <2>0 DEF TypeOK
    <2>2. BuildOK' /\ SaveAccounted'
      BY <1>0, <2>0 DEF BuildOK, SaveAccounted
    <2>3. UploadAccounted'
      BY <1>0, <1>3, <2>0 DEF UploadAccounted
    <2> QED BY <1>2, <2>1, <2>2, <2>3
  <1>5. CASE Flusher(stored)
    <2>0. /\ pc' = "saving"
          /\ logged' = (upload.err1 \/ upload.flushError \/ stored # Pending)
          /\ upload.err1 \/ upload.unvisited \union upload.entries = {}
          /\ upload \in UploadState
      BY <1>5 DEF Flusher, UploadEnds, TypeOK
    <2>1. TypeOK'
      BY <1>0, <2>0 DEF TypeOK, UploadState
    <2>2. BuildOK' /\ UploadAccounted'
      BY <1>0, <2>0 DEF BuildOK, UploadAccounted
    <2>3. SaveAccounted'
      <3>1. writer'.unvisited = Directory
        BY <1>0 DEF BuildOK, NoWriter
      <3>2. \A x \in untouched : ParentOf[x] \in Directory
        BY UploadingAssumption DEF TypeOK
      <3>3. ~logged' => \A x \in untouched : leaf[x].kind = "local" => Settled(x)'
        BY <1>0, <1>3, <2>0 DEF UploadAccounted
      <3> QED BY <1>0, <3>1, <3>2, <3>3 DEF SaveAccounted
    <2> QED BY <1>2, <2>1, <2>2, <2>3
  <1> QED BY <1>4, <1>5

-----------------------------------------------------------------------------
(* A directory is saved: its files are recorded with their digests.        *)
LEMMA SaveDirectoryPreserves ==
    ASSUME UInv, NEW d \in Directory, SaveDirectory(d)
    PROVE  UInv'
  <1> USE DEF UInv
  <1>0. /\ pc = "saving" /\ pc' = pc
        /\ function' = function /\ verified' = verified
        /\ unfiltered' = unfiltered /\ leaf' = leaf /\ written' = written
        /\ storage' = storage /\ pinned' = pinned /\ upload' = upload
        /\ logged' = logged /\ stateFile' = stateFile /\ recorded' = recorded
        /\ untouched' = untouched
    BY DEF SaveDirectory, build, cas
  <1>1. /\ writer'.unvisited = writer.unvisited \ {d}
        /\ writer'.hashes = [x \in File |-> IF ParentOf[x] = d THEN Saved(x)
                                            ELSE writer.hashes[x]]
        /\ writer'.contents = [x \in File |->
                                 IF ParentOf[x] # d THEN writer.contents[x]
                                 ELSE IF Saved(x) = NULL THEN NULL ELSE written[x]]
        /\ writer' = [unvisited |-> writer'.unvisited, hashes |-> writer'.hashes,
                      contents |-> writer'.contents]
    BY DEF SaveDirectory
  <1>2. \A x \in File : Saved(x) \in Hash \union {NULL}
    BY LeafFields DEF TypeOK, Saved, Digest
  <1>3. writer' \in WriterState
    <2>1. writer \in WriterState /\ written \in Contents
      BY DEF TypeOK
    <2>2. writer'.hashes \in Hashes
      BY <1>1, <1>2, <2>1 DEF WriterState, Hashes
    <2>3. writer'.contents \in Contents
      BY <1>1, <2>1 DEF WriterState, Contents
    <2>4. writer'.unvisited \in SUBSET Directory
      BY <1>1, <2>1 DEF WriterState
    <2> QED BY <1>1, <2>2, <2>3, <2>4 DEF WriterState
  <1>4. TypeOK'
    BY <1>0, <1>3 DEF TypeOK
  <1>5. BuildOK' /\ PinOK' /\ KeptOK' /\ NothingFrozen' /\ LeavesTrue' /\ UploadAccounted'
    BY <1>0 DEF BuildOK, PinOK, KeptOK, Kept, NothingFrozen, LeavesTrue, LeafTrue,
                UploadAccounted
  <1>6. StatesTrue'
    <2> SUFFICES ASSUME NEW x \in File PROVE StateTrue(x)' /\ WriterTrue(x)'
      BY DEF StatesTrue
    <2>1. StateTrue(x)'
      BY <1>0 DEF StatesTrue, StateTrue
    <2>2. CASE ParentOf[x] # d
      <3>1. writer'.hashes[x] = writer.hashes[x] /\ writer'.contents[x] = writer.contents[x]
        BY <1>1, <2>2
      <3> QED BY <2>1, <3>1 DEF StatesTrue, WriterTrue
    <2>3. CASE ParentOf[x] = d
      <3>1. /\ writer'.hashes[x] = Saved(x)
            /\ Saved(x) # NULL => writer'.contents[x] = written[x]
        BY <1>1, <2>3
      <3>2. Saved(x) # NULL => /\ leaf[x].digest # NULL
                               /\ Saved(x) = leaf[x].digest.hash
        BY DEF Saved
      <3>3. leaf[x].digest # NULL => leaf[x].digest.hash[2] = written[x]
        BY DEF LeavesTrue, LeafTrue
      <3> QED BY <2>1, <3>1, <3>2, <3>3 DEF WriterTrue
    <2> QED BY <2>2, <2>3
  <1>7. SaveAccounted'
    <2> SUFFICES ASSUME ~logged, NEW x \in untouched, leaf[x].kind = "local"
                 PROVE  /\ Settled(x)'
                        /\ \/ ParentOf[x] \in writer'.unvisited
                           \/ x \in StatusFile
                           \/ writer'.hashes[x] = <<function, leaf[x].data>>
      BY <1>0 DEF SaveAccounted
    <2>1. /\ Settled(x) /\ x \in File
          /\ \/ ParentOf[x] \in writer.unvisited
             \/ x \in StatusFile
             \/ writer.hashes[x] = <<function, leaf[x].data>>
      BY <1>0 DEF SaveAccounted, TypeOK
    <2>2. Settled(x)'
      BY <1>0, <2>1 DEF Settled, DigestOf, Pending
    <2>3. ASSUME ParentOf[x] = d, x \notin StatusFile
          PROVE  writer'.hashes[x] = <<function, leaf[x].data>>
      <3>1. function \in Function /\ leaf[x].data \in Content
        BY <1>0, <2>1, LeafFields DEF TypeOK, BuildOK
      <3>2. writer'.hashes[x] = Saved(x)
        BY <1>1, <2>1, <2>3
      <3> QED BY <2>1, <2>3, <3>1, <3>2, DigestTypes DEF Saved, Settled
    <2>4. ParentOf[x] # d => writer'.hashes[x] = writer.hashes[x]
      BY <1>1, <2>1
    <2> QED BY <1>1, <2>1, <2>2, <2>3, <2>4
  <1> QED BY <1>4, <1>5, <1>6, <1>7

LEMMA SavePreserves ==
    ASSUME UInv, SaveOutputPath \/ SaveOutputPathFails
    PROVE  UInv'
  <1> USE DEF UInv
  <1>0. /\ pc = "saving" /\ pc' = "idle" /\ verified' = FALSE
        /\ function' = function /\ unfiltered' = unfiltered
        /\ leaf' = leaf /\ written' = written /\ storage' = storage
        /\ upload' = upload /\ untouched' = {} /\ pinned' = {}
        /\ writer' = NoWriter
        /\ logged' \in {logged, TRUE}
        /\ \/ stateFile' = writer.hashes /\ recorded' = writer.contents
           \/ stateFile' = stateFile /\ recorded' = recorded
    BY DEF SaveOutputPath, SaveOutputPathFails, BuildEnds
  <1>1. TypeOK'
    BY <1>0, LeafTypes DEF TypeOK, WriterState
  <1>2. BuildOK' /\ PinOK' /\ KeptOK' /\ NothingFrozen' /\ UploadAccounted' /\ SaveAccounted'
    BY <1>0 DEF BuildOK, PinOK, KeptOK, NothingFrozen, UploadAccounted, SaveAccounted
  <1>3. LeavesTrue'
    BY <1>0 DEF LeavesTrue, LeafTrue
  <1>4. StatesTrue'
    BY <1>0 DEF StatesTrue, StateTrue, WriterTrue, NoWriter, Nothing
  <1> QED BY <1>1, <1>2, <1>3, <1>4

LEMMA UInvNext == UInv /\ [Next]_vars => UInv'
  <1> SUFFICES ASSUME UInv, [Next]_vars PROVE UInv'
    OBVIOUS
  <1>1. ASSUME NEW f \in Function,
               \/ \E failed \in SUBSET File : StartInitialBuild(f, failed)
               \/ StartBuild(f)
        PROVE  UInv'
    BY <1>1, StartInitialPreserves, StartPreserves
  <1>2. CASE FilterDone \/ FilterFails
    BY <1>2, FilterEndPreserves
  <1>3. ASSUME NEW x \in File,
               FilterKeepsLocal(x) \/ FilterFinds(x) \/ FilterRemoves(x)
        PROVE  UInv'
    BY <1>3, FilterPreserves
  <1>4. ASSUME NEW x \in File,
               \/ \E c \in Content : \/ StageArtifact(x, c)
                                     \/ CreateFile(x, c)
                                     \/ WriteFile(x, c)
               \/ RemoveFile(x, None)
               \/ RemoveFile(x, Special)
        PROVE  UInv'
    BY <1>4, ChangePreserves
  <1>5. ASSUME NEW x \in File, BatchStat(x) \/ SkipFile(x) \/ UploadFile(x)
        PROVE  UInv'
    BY <1>5, BatchStatPreserves, TraversalPreserves, UploadFilePreserves
  <1>6. CASE FinalizeBuild
    BY <1>6, FinalizeBuildPreserves
  <1>7. CASE \/ \E d \in Directory : LookupAllChildren(d) \/ SaveDirectory(d)
             \/ UploadFails
    BY <1>7, TraversalPreserves, SaveDirectoryPreserves
  <1>8. ASSUME NEW stored \in SUBSET Hash, FlushFull(stored) \/ Flusher(stored)
        PROVE  UInv'
    BY <1>8, FlushPreserves
  <1>9. CASE SaveOutputPath \/ SaveOutputPathFails
    BY <1>9, SavePreserves
  <1>10. CASE Restart \/ \E h \in Hash : StorageEvict(h)
    BY <1>10, EnvironmentPreserves
  <1>11. CASE UNCHANGED vars
    <2>1. UNCHANGED <<pc, function, verified, unfiltered, leaf, storage, pinned,
                      upload, logged, writer, stateFile, recorded, untouched,
                      written>>
      BY <1>11 DEF vars, build, cas, saved
    <2> QED BY <2>1 DEF UInv, TypeOK, BuildOK, PinOK, KeptOK, Kept, LeavesTrue,
                LeafTrue, StatesTrue, StateTrue, WriterTrue, NothingFrozen,
                UploadAccounted, SaveAccounted, Settled, DigestOf, Pending
  <1> QED BY <1>1, <1>2, <1>3, <1>4, <1>5, <1>6, <1>7, <1>8, <1>9, <1>10, <1>11 DEF Next

-----------------------------------------------------------------------------
LEMMA UInvAlways == Spec => []UInv
  BY UInvInit, UInvNext, PTL DEF Spec

(* Whatever failed in earlier builds, and whichever digest function they   *)
(* used: the files backed by the storage that a build gets to see after    *)
(* filterMissingChildren() can be read, and have the contents that were    *)
(* last written or staged.                                                 *)
THEOREM RestoredFilesRead == Spec => []ReadsAsWritten
  <1>1. UInv => ReadsAsWritten
    <2> SUFFICES ASSUME UInv, verified, NEW x \in File, leaf[x].kind = "cas"
                 PROVE  /\ leaf[x].digest.function = function
                        /\ Available(leaf[x].digest)
                        /\ leaf[x].digest.hash[2] = written[x]
      BY DEF ReadsAsWritten
    <2>1. leaf[x].digest \in Digest
      BY LeafFields DEF UInv, TypeOK
    <2>2. leaf[x].digest # NULL
      BY <2>1, UploadingAssumption
    <2>3. Kept(x) /\ pinned \subseteq storage
      BY DEF UInv, KeptOK, PinOK
    <2> QED BY <2>2, <2>3 DEF UInv, LeavesTrue, LeafTrue, Kept, Available
  <1> QED BY <1>1, UInvAlways, PTL

(* uploadLocalFiles() leaves no file frozen, whatever fails.               *)
THEOREM UploadUnfreezes == Spec => []NothingFrozen
  <1>1. UInv => NothingFrozen
    BY DEF UInv
  <1> QED BY <1>1, UInvAlways, PTL

(* If FinalizeBuild() logs no error, the state file lists every local file *)
(* that nobody changed, with a digest of its contents that is stored.      *)
THEOREM UploadSaved == Spec => SavedIsUploaded
  <1>1. ASSUME UInv, [Next]_vars, pc = "saving", pc' = "idle", ~logged',
               NEW x \in untouched \ StatusFile, leaf[x].kind = "local"
        PROVE  /\ stateFile'[x] = <<function, leaf[x].data>>
               /\ stateFile'[x] \in storage
    <2>1. SaveOutputPath \/ SaveOutputPathFails
      BY <1>1 DEF Next, vars, build, StartInitialBuild, StartBuild,
                  FilterKeepsLocal, FilterFinds, FilterRemoves, Filter,
                  FilterDone, FilterFails,
                  StageArtifact, CreateFile, RemoveFile, WriteFile, Replace,
                  Touch, BatchStat, SkipFile, UploadFile, FinalizeBuild,
                  LookupAllChildren, UploadFails, FlushFull, Flusher,
                  UploadEnds, SaveDirectory, StorageEvict, Restart
    <2>2. /\ writer.unvisited = {}
          /\ stateFile' = writer.hashes
          /\ ~logged
      BY <1>1, <2>1 DEF SaveOutputPath, SaveOutputPathFails
    <2>3. /\ Settled(x) /\ Pending = {}
          /\ writer.hashes[x] = <<function, leaf[x].data>>
      BY <1>1, <2>2 DEF UInv, SaveAccounted, NothingFrozen, Pending
    <2>4. pinned \subseteq storage
      BY <1>1 DEF UInv, PinOK
    <2> QED BY <2>2, <2>3, <2>4 DEF Settled
  <1>2. UInv /\ [Next]_vars =>
          [pc = "saving" /\ pc' = "idle" /\ ~logged' =>
             \A x \in untouched \ StatusFile :
                 leaf[x].kind = "local" =>
                     /\ stateFile'[x] = <<function, leaf[x].data>>
                     /\ stateFile'[x] \in storage]_vars
    BY <1>1
  <1> QED BY <1>2, UInvAlways, PTL DEF Spec, SavedIsUploaded
=============================================================================
