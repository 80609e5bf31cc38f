# A TLA+ model of bb_clientd

bb_clientd is a daemon that mounts a file system through which users access
the Content Addressable Storage (CAS) of a Remote Execution service, and in
which Bazel places the outputs of builds through the Bazel Output Service. This
directory holds TLA+ modules that model its stateful parts, TLC configurations
that check them on small instances, and TLAPS proofs for all instances.
`PROJECT.json` relates every definition to the lines of code it models.

## Inventory

| Part | State | Operations | What is hard about it |
|---|---|---|---|
| Bazel Output Service directory (`bazel_output_service_directory.go`) | maps from output base and build ID to output paths, a circular list of output paths with cookies, a change ID, one mutex `d.lock` | gRPC: StartBuild, StageArtifacts, BatchStat, FinalizeBuild, Clean. File system: lookup, readdir | Clean gives the lock up half-way, calls use state after unlocking, FinalizeBuild and readdir hold the lock for long, the kernel has locks and caches of its own |
| Filtering (`filterMissingChildren`) | queue of digests with the children that depend on them | walk, FindMissing, removal | runs without the lock while the storage and the output path change; batches; failures half-way |
| Persistent output paths (`persistent_output_path_factory.go`, `maximum_age_store.go`) | creation time per output path | restore, save, remove | restarts, overlapping calls, age carried over generations of state files |
| State file store (`directory_backed_store.go`) | files in a directory | Read, Write, Finalize, Close, Clean | every step may fail, restarts, power loss |
| State file format (`file_reader.go`, `file_writer.go`) | write offset; limit per level of recursion | WriteDirectory, Finalize, NewFileReader, ReadDirectory | damaged files, overflow, off-by-one, recursion |
| Retrying (`error_retrying_blob_access.go`) | deadline and interval per operation | Get, GetFromComposite, FindMissing, GetCapabilities | deadline against sleep and attempt, cancellation |
| CAS directories (`cas_directory.go`) | none (message in the CAS) | readdir, lookup, open, handle resolution | cookies across three lists, bisection |
| Staging and statting (`stageSingleArtifact`, `statWalker`) | a stack of directories per path | one component at a time: enter, create, go up, follow a link | other calls replace directories that were entered; symbolic links; paths refused half-way |
| Local file uploading (`local_file_uploading_output_path_factory.go`) | none, but a batch of frozen files | FinalizeBuild | partial failure before the state is saved; files that change meanwhile; the next build may use another digest function |
| Command files (`blob_access_command_file_factory.go`, `handle_allocating_command_file_factory.go`) | size | lookup, seek, read | size computed at another time than the contents; reads that straddle strings |
| The "cas" namespace (`instance_name_parsing_directory.go`, `digest_parsing_directory.go`, `tree_cas_directory_factory.go`, `decomposed_cas_directory_factory.go`, parts of `main.go`) | none | lookup, handle resolution | nodes are told apart by handles alone, and rebuilt from them |
| Tree walker (`tree_directory_walker.go`) | none | GetDirectory, GetChild | whether the digest of the root is known |
| In-memory factory, rest of `main.go` | none or wiring | | |

How they interact: `main.go` stacks the output path factories, in-memory at the
bottom, local file uploading, and persistent on top. StartBuild calls
StartInitialBuild of that stack with `d.lock` held (which reads the state
file), FinalizeBuild calls FinalizeBuild of the output path with `d.lock` held
(which uploads, and then writes the state file), Clean calls RemoveAllChildren
or Clean without it (which removes the state file). Clean calls into the kernel
(NotifyRemoval), the kernel calls into VirtualLookup and VirtualReadDir.

## Modules

| Module | Models | Proofs |
|---|---|---|
| `BuildSessions` | what the service promises: at most one build per output base, calls are accepted for running builds, being told of an error takes nothing back | |
| `BazelOutputServiceDirectory` | the registry, its lock, the kernel's view | `BazelOutputServiceDirectory_proofs` |
| `FilterMissingChildren` | the walk that StartBuild performs without the lock | `FilterMissingChildren_proofs` |
| `DirectoryBackedStore` | state files as names, inodes and journal | `PersistentOutputPath_proofs` |
| `PersistentOutputPath` | extends `DirectoryBackedStore` with output paths, the age limit and the calls of the service | `PersistentOutputPath_proofs` |
| `LocalFileUploading` | the files of one output path over several builds: upload, save, restore, filter | `LocalFileUploading_proofs` |
| `PathResolution` | StageArtifacts and BatchStat walking through an output path | `PathReference_proofs` |
| `PathReference` | what both are supposed to do, as recursive functions of complete paths, and the properties of `PathResolution` | `PathReference_proofs` |
| `StateFile` | regions in a state file, writer and reader | `StateFile_proofs` |
| `ErrorRetryingBlobAccess` | one operation with retries | `ErrorRetryingBlobAccess_proofs` |
| `CASDirectory` | one directory, a process that lists it, and lookups | |
| `CommandFile` | a script, and a process that copies it | |
| `CASNamespace` | nodes below "cas", their handles, a process that walks | |
| `CASFileSystem` | extends the last three: a process does one of these | `CASFileSystem_proofs` |

`MC*` modules hold the definitions that TLC needs.

In several places a definition is preceded by a variant marked "Mutant". It is
not used by the specification. It shows what a mistake in the code would look
like, and a property fails if the definition is replaced by it
(`PROJECT.json`, "mutants").

### BazelOutputServiceDirectory

Variables have the names of the fields they stand for. A critical section of
`d.lock` that does not call out is one action, enabled while `lock = NULL`.
FinalizeBuild and VirtualReadDir call out with the lock held and take several
actions. Clean is split at every point where it gives up the lock:
`CleanLookup`, `CleanRemoveAllChildren` (or its failure), `CleanUnregister`,
`CleanNotify`.

`outputPathState` objects are addresses in `PathID` that are never reused,
which stands for the pointer comparison in Clean. `emptied` are output paths
whose RemoveAllChildren(true) removed the contents and forbade new ones;
`cleanFailed` are those for which it last returned an error, possibly after
having done so. A StartBuild call that fails while it filters is a step of its
own (`StartBuildFails`), and so is the arrival of the error at the client
(`StartBuildError`), which `BuildSessions` shows as `failed`: what has been
registered and displaced by then stays so. Later builds in an output path whose
cleaning failed get errors when they create files, which is how the code deals
with it; `SealedIsTransient` says that cleaning it once more helps.

The kernel is external. It holds the inode lock of the directory shared during
lookups and readdir, takes it exclusively when it is notified of a removal, and
caches the answers of lookups (`dentry`).

Calls that are refused (unknown build IDs, malformed requests) change nothing
and are left out. So is the validation at the start of StartBuild. A gRPC call
begins when it first obtains `d.lock`, so that waiting for that is not a state.

### FilterMissingChildren

A child is a file, a tree or a link with the set of digests it depends on; its
place in the directory hierarchy does not matter. `Evict` and `Upload` change
the storage at any time, except that what FindMissing reported as present stays
(`pinned`): this is the contract of FindMissingBlobs on which the code relies.
`StageChild` is a StageArtifacts call of a build that was displaced. The walk may
or may not get to visit what it creates.

### DirectoryBackedStore and PersistentOutputPath

Every system call of the store is an action that may fail. A rename or removal
is durable once the journal was committed, data once it was synchronized. After
a power loss, files that were not synchronized may have lost data.

`PersistentOutputPath` adds output paths with artifacts. An artifact is a pair
of a name and the time it was staged. `Overlap` tells whether clients have more
than one call in progress for one output base. Bazel locks its output base and
does not. FinalizeBuild is split into the creation of the file, one step per
directory, and the steps of Finalize, as files may be staged meanwhile if calls
overlap. Restoring is one step, because it happens with `d.lock` held and the
output path is not visible before it ends; it may restore any part of the state,
because an entry that cannot be restored ends it. A restart loses everything but
the store.

With `PowerFails`, the machine may lose power at any time (`PowerLoss`), upon
which the service starts with what the journal and the disk have kept.

`staged`, `before` and `saved` are history variables: what was staged in an
output base since it was cleaned, what had been staged when a running Clean was
called, and what was saved last.

### LocalFileUploading

One output path, over any number of builds. The order of the steps at the end
of a build is that of the decorators in `main.go`: upload, flush, save. A file
has a digest once it was uploaded or a BatchStat call has asked for it; only
files with a digest are saved. A file in the batch of BatchedStoreBlobAccess
(external, and with it the limit on the size of a batch) is frozen, so that
writes to it wait; a file that is replaced is not. A hash is the pair of digest
function and contents. State files have hashes only, which is why restoring
pairs them with the digest function of the build at hand.

Every directory is visited on its own, by the upload as well as by the save, and
every file by the filter at the start of the next build, and processes and the
storage act in between: processes write, replace and remove files, also during
FinalizeBuild (`MaxTouched` bounds how many), and the storage loses objects,
except those it promised to keep because they were reported as present
(`FilterFinds`), staged or uploaded during the current build (`pinned`).
`written` and `recorded` are history variables: what was last written to a file,
and what that was when the file was saved. They let `ReadsAsWritten` compare a
file in a later build with what a process wrote to it in an earlier one,
wherever it has been in between.

There is one build at a time. The calls of builds that were displaced, and the
batches in which the filter queries the storage, are in `FilterMissingChildren`.

### PathResolution and PathReference

path.Resolve (external) hands components to a walker one by one; each of these
calls is an action, because they lock one directory at a time and other calls
come in between. Directories that are no longer reachable are empty and refuse
children. The scope of symbolic links, loop detection (`MaxLinks`) and the
virtual root (absolute paths that start with the output path's own) are the
library's. `RootName` stands for the whole path of the output path. A new
directory is one to which neither the output path nor a call refers (`Fresh`).

`PathReference` defines lstat() by recursion on the number of symbolic links
that may still be followed, and on the remaining components, with parents found
in the tree and not on a stack, and the places that staging a path visits by
normalizing it. These definitions have the tree as a parameter and use recursive
functions instead of RECURSIVE operators, so that they can be reasoned about. A
BatchStat call is compared if no other call has changed the output path since it
began. `StagedIsFound` excludes artifacts whose directories are the location of
an artifact, which may be the artifact itself: "a/../a" goes through the place
that it creates. Staging a file there replaces the directory "a" that was
created on the way, after which the path itself can no longer be resolved.

### StateFile

Directories are written after their children, so that references point
backwards. Offsets are integers of limited width that wrap around, like the
`int64` sum in readMessage. In a damaged file, the header, the references and the
children in a file are arbitrary at every step of the recursion. Files that
cannot be read for other reasons are `RestoreFails`. Writing errors are covered
by `DirectoryBackedStore`.

### ErrorRetryingBlobAccess

One operation. Get and GetFromComposite retry from an error handler, FindMissing
and GetCapabilities in a loop; the steps are the same. `slept` is the time spent
in sleeps, which is the delay that retrying adds.

### CASDirectory

The three lists hold names, as integers. Every request loads the message again.
The reply of a failed request is discarded, and the process tries again with the
same cookie. Lookup, open and handle resolution are operators; sort.Search is
modelled by the bisection it performs.

### CommandFile, CASNamespace and CASFileSystem

A script is the list of strings that ConvertCommandToShellScript (external)
writes, the same every time, as the message is addressed by its digest. A read
applies WriteString to one string after the other (`Written`).

A handle is a sequence of tokens: which allocator, instance name, digest, and
single bytes. Tokens of varying length are length-prefixed or self-delimiting in
the libraries that write them. In this form, `NodeHandle` is what the factories
compose, and `Resolve` is what they parse again. `message` is a history
variable: the Directory message that should be found, computed from the messages
alone. Files from the CAS, whose factory is not part of this repository, only
have handles here. A filename is reduced to whether it has a dash, whether a
number follows the last one, and what hash precedes it. Like NewDigest
(external), it accepts any hash of the right length (`LengthOf`, `HashLength`),
so that the same hash may appear below several digest functions. The counter for
handles below "blobs" is a byte; `NamespaceAssumption` says that there are too
few digest functions for it to overflow.

## Runs

| Run | Shows | Distinct states |
|---|---|---|
| `registry` | two calls, two output bases, two build IDs, two output paths, one process that lists the directory: consistency of the maps and the list, admission to the right build, cleaning, listings in several requests, no stale entries in the kernel, change ID, refinement of `BuildSessions`, StartBuild and Clean calls that fail included | 1 million |
| `progress` | two output bases: all calls and requests return (fair) | 33 thousand |
| `filter` | a file, a tree with three digests that does not fit in a batch of two, a file of another instance | 1.5 million |
| `persistency` | two output bases, two threads, one artifact, restarts | 0.5 million |
| `persistency_age` | one output base over two epochs, with restarts and power losses: state files are whole, restored state is recent | 0.9 million |
| `uploading` | two contents, two digest functions, a file and a status file in two directories, batches of one: what is saved was uploaded, what a build sees can be read and has the contents that were written, nothing stays frozen | 0.9 million |
| `paths` | paths of up to three components in several hundred trees with all kinds of symbolic links; two calls that stage three artifacts, for all combinations of seven paths in three trees | 0.3 million |
| `state_file` | five directories, message sizes 1 to 3, files up to and over the maximum size; damaged files with arbitrary regions, overflow included | 31 thousand |
| `retry` | all random intervals, interval capped at 5, maximum delay of 6 | 17 thousand |
| `cas_file_system` | all directories over five names with at most three per kind; scripts of up to four strings of up to three bytes, reads of up to four; two trees with three directories and symbolic links, three digest functions, two of which accept the same hashes, instance names of up to two components | 0.7 million |

Two runs end in a counterexample. They show where the code does not do what its
comments say (`PROJECT.json`, "findings"):

- `clean_overlap`: a Clean call that overlaps another call for the same output
  base leaves or restores old outputs. `persistency` shows that this takes
  overlapping calls.
- `filter_late_artifact`: a StageArtifacts call of a displaced build adds a file
  that the new build never verified. `KeptIsStored` in `filter` is what does
  hold: everything else that is kept was verified.

More observations came up in the modelling:

- `maximum_file_system_retry_delay` is documented as "the maximum delay that may
  be caused by performing these retries" (`bb_clientd.proto:85`), but maybeSleep
  looks at the deadline before it sleeps and not after, so that the delay may
  exceed it. `DelayBound` is the bound that holds: less than one interval more.
- An output base named "a.tmp" would read the temporary file of output base "a"
  as its state (`directory_backed_store.go:51`). The proof about the store
  assumes `NoCollision` for that reason.
- StartBuild with the ID of a running build but another output base or digest
  function (`bazel_output_service_directory.go:295`) filters the output path of
  the running build with the digest function of the request, and returns a path
  suffix that does not belong to it. `StartBuildResume` contains the step; no
  document says what should happen.
- A `maximumStateFileAge` of zero divides by zero (`maximum_age_store.go:33`);
  `PersistencyAssumption` excludes it. The size of a message is truncated to 32
  bits (`file_writer.go:65`), which takes a directory of 2 GiB to matter.

### Bounds

Two calls suffice for every pair of operations to interleave; two output paths
let a name be cleaned and started again while an earlier Clean is still in
progress. All properties of `registry` are also proved, for any number of calls,
output bases and output paths. In `filter` the limit is smaller than the tree,
and the tree shares a digest with the file, so that one digest is awaited by two
children. In
`persistency`, three inodes allow a state file, a temporary file and one left
over. In `state_file`, `Half = 10` makes the sum of offset and size
overflow for permitted offsets. In `uploading`, two contents let a file change between
its upload and the save, and a batch of one is full at the second file. In
`paths`, two names and two levels are enough for a link to lead from any place
to any other, and `OthersKept` compares everything up to that depth
(`MaxDepth`). With six directory objects there is always one in `Fresh` when a
call has to create a directory. In `cas_file_system`, strings
are shorter and longer than reads, and the two trees differ in nothing but
their digests. `MaxTime` in `retry` exceeds the maximum delay
plus one interval. `MaxTime` bounds the clock in the guards of `Tick`, `PathID`
the number of output paths, `MaxLength` the lists of a directory,
`MaxStrings`, `MaxRead` and `MaxComponents` what their names say.

Threads, build IDs, output bases, addresses, artifacts and inodes are only
compared for equality, which makes the symmetry sets sound; `progress`, which
checks liveness, uses none. The view in `persistency` drops the contents of
inodes to which nothing refers: WriteCreate overwrites them before they are
read.

Deadlock is checked, except in `retry`, `state_file` and `cas_file_system`, in
which one operation runs to its end. In `paths`, calls that are done stutter
(`Terminated`), so that a call that gets stuck is found.

### Fairness

`progress`: a thread that is not waiting continues (weak fairness). Waiting for
`d.lock` and for the inode lock is strongly fair: Go mutexes hand over to a
starving waiter, and so does the kernel's read-write semaphore. The initiation of
calls is not fair. `filter`: the walk continues; evictions, uploads and staging
are not fair. `retry`: the clock advances, timers fire, and attempts return, which
their gRPC deadlines and the network see to; cancellation is not fair.
`state_file`: the reader continues, the writer need not.

## Proofs

All for arbitrary values of the constants, from the assumptions stated with them.

- Registry. `TInv` is the type invariant with the facts about every pc that the
  other proofs need. `IInv` adds to `IndexConsistent` and `AdmittedToOwnBuild`
  that whoever is finalizing holds the lock and still owns its build, without
  which `FinalizeBuildEnd` could delete someone else's entry. `ListingCorrect`
  has `RInv`: the cursor of a listing is in the list, and everything that was
  there all along and has not been seen lies at or after the cookie.
  `KernelCacheFresh` has `DInv`: a reply on its way is as good as the cached
  entry, because the kernel cannot be notified before it has arrived.
  `CleaningCorrect` has `EInv`, which ties every pc of Clean to the state of
  the output path. `Refinement` maps StartBuild, its failure, the arrival of the
  error, the end of FinalizeBuild and CleanUnregister to the steps of
  `BuildSessions`, everything else to stuttering.
- Store. `SInv` says which inodes may be unsynchronized: the one being written,
  and those under temporary names. It needs `NoCollision`: no temporary name is
  an output base ID or the temporary name of another.
- Filter. `FInv` accounts for every child in the output path: it is yet to be
  visited, all its digests are queued, pinned or about to be removed, or it was
  staged late. `BInv` bounds the queue, with a finite number of digests.
- Persistent output paths. `ServiceInv` says that a thread that saves holds
  `d.lock`, and that every call on the store is for the output base of the call
  it is part of. From this, every step of the service is a step that the store's
  specification permits (`LockProtectsStore`), and what was proved about the
  store holds for the service (`SavedFilesWhole`, which needs `NoCollision` as
  well). `AgeInv` bounds the times of artifacts by the creation time that is
  carried along with them, in output paths, in the data of a save in progress
  and in every inode, those that a power loss brings back included; as two times
  in one epoch have everything between them in that epoch, `AgeBounded` needs
  neither the absence of overlapping calls nor that of power losses.
  `StateKept` needs both, and `NoCollision`: `clean_overlap` shows what happens
  otherwise, and a rename that a power loss undoes brings back an older state.
  Its `KeepInv` says that at most one call is in progress for an output base
  (`Exclusive`), that a save has exactly the contents of its output path
  (`SavingExact`), what is left at every step of Clean (`CleanedOK`), and that
  output path and state file are within what was staged.
- State file. `SInv` says that the limit of every level is the offset of a
  permitted region, which is why it is below that of the level above, even if
  the end of the region wraps around. For files that are not damaged,
  `OwnFileInv` adds that directories are written after all of their children
  and end where the next may begin, so that every reference is permitted, and
  that every child of a restored directory has been restored or is yet to be
  visited by some activation. When the last one has returned, the restored
  directories are closed under taking children. `TreeAssumption`, that a set of
  directories that has the root and is closed in this way has all of them, is
  how it is said that there is one tree; it takes the place of an induction over
  it.
- Retrying. `Inv` relates the time slept to the clock.
- Uploading. `UInv` accounts for every local file that nobody changed during
  FinalizeBuild: it is in a directory yet to be visited, or waits to be
  uploaded, or has the digest of its contents, which are stored or in the
  batch, or an error occurred that is going to be logged (`UploadAccounted`,
  `SaveAccounted`). `LeavesTrue` and `StatesTrue` say that a digest, in the
  output path, in the state file being written and in the one that was, has a
  hash of what was written last. Whether it was paired with the digest function
  that the hash was computed with is what the filter finds out (`KeptOK`), and
  `PinOK` keeps what it found from being lost. `ReadsAsWritten` follows.
- CAS directories. Children are numbered through all three lists. `ListInv` says
  that the children reported are those up to the cookie, in order, and that
  those in the reply being composed follow. Hence every one is reported once, for
  lists of any length and replies of any size. `SearchCorrect` says that the
  bisection of sort.Search finds the first name that is not smaller, in any
  sorted list: what remains after k halvings is bounded by names known to be
  smaller and not smaller (`HalvedOK`), and is empty after as many halvings as
  there are names. Together with names being unique (`Valid`, which the protocol
  requires of the messages) lookups and listings agree.
- Namespace. `NamespaceInv` says that the process is at a node of one of the
  known forms, of which the digests in a tree have the instance name of the
  tree, and that what the kernel holds is such a node with its handle.
  `HandlesInjective` shows that different nodes have different handles, by
  taking the sequences of tokens apart; it needs
  `NamespaceAssumption` to have the allocation counter fit in a byte. From
  `ResolvableResolves`, resolving a handle gives the node back. Instance names
  have any number of components; messages have any number of children, and may
  refer to each other in cycles.
- Command files. `WriterOK` says what regionExtractingWriter has after the
  strings written so far: either nothing, and the offset that remains, or the
  part of their concatenation from the offset on that fits. `WriteStep` shows
  that a string preserves it, `WrittenCorrect` that it holds for the whole
  script, and `SizeIsCounted` that LookupFile counts exactly as much. So a read
  that is bounded by the size fills its buffer, and `CopyInv`, that what was
  copied is the script up to the offset, is kept by every read.

- Paths. The type invariant says that the output path is a tree (`IsTree`): every
  directory is in one place, none of them contains the root directory, and the
  ones that are not reachable are empty. `ChangedTree` shows that replacing one
  entry, and pruning what became unreachable, keeps it that way. `LeadsTo` is the
  directory at a place; `LeadsToKept` and `AtPlaceKept` say which places survive
  a change elsewhere.
  `StatCorrect`: for a call that was not disturbed, `WalkStat` says that lstat()
  of what remains, from the top of the stack and with the links that remain, is
  the answer to the original path. `StatFromHead` unfolds the reference by one
  component, which is what each action does, and `StackUp` makes the stack agree
  with the parents in the tree.
  `StageCorrect`: the stack of a call that stages is that of the place which the
  components so far lead to (`Goes`), except for directories that have been
  removed, in which nothing can be created. Hence every change to the output
  path is at a place which the path visits, if there was no directory, or at its
  location (`TreeEffect`), and `OthersCorrect` follows for any depth.
  `FoundCorrect` has `FoundInv`: for an artifact that no other one contests, the
  directories up to the current component exist, and once it is stored, all of
  them and the artifact do. `StatFinds` turns this into the result of lstat() by
  induction on the components that remain.

The last four rest on recursive functions (`Search`, `SizeCounted`, `Written`,
`FlattenSeq`, `Place`, `EntryAt`, `StatLast`, `StatWithLinks`). That such a
function exists, and what it computes, is shown by induction in the form of
`SetInduction`: a set of natural numbers that has zero and the successors of its
members has all of them.

Only model-checked: liveness (`CallsReturn`, `RequestsReturn`,
`FilterTerminates`, `RestoreTerminates`, `OperationReturns`), which the prover
does not support. All other properties of the passing runs are proved.

## Not modelled

- VirtualGetAttributes, VirtualOpenChild and VirtualSetAttributes where they do
  no more than turn a lookup into a status code, and the refusals of read-only
  files.
- The in-memory factory and most of `main.go`, which connect other parts, and
  the generated configuration schema.
- The contents of messages, the syntax of digests and paths, error texts,
  logging.
- Process restarts in `CASNamespace`: whether handles survive them is up to the
  handle allocators, which are not part of this repository.
- Several instances of bb_clientd sharing one state directory.

## Plan

The system is modelled: registry, refinement, retrying, store, persistent output
paths, filter, state files, CAS directories, then uploading, path resolution,
command files and the namespace. Every safety property is proved. What remains
is a composition of the registry with `PersistentOutputPath` that proves that
the latter's use of `d.lock` is that of the former.
