-------------------- MODULE BazelOutputServiceDirectory --------------------
(***************************************************************************)
(* The bookkeeping of the Bazel Output Service: which output bases have an *)
(* output path, which build runs in which output path, and the directory   *)
(* listing through which the kernel sees the output paths.                 *)
(*                                                                         *)
(* gRPC calls (StartBuild, StageArtifacts, BatchStat, FinalizeBuild,       *)
(* Clean) and file system requests (lookup, readdir) run on threads of     *)
(* their own.  The bookkeeping is protected by d.lock, but Clean() gives   *)
(* the lock up between looking up an output path and unregistering it, and *)
(* FinalizeBuild() and VirtualReadDir() hold it for a long time.           *)
(*                                                                         *)
(* A critical section that does not call out is one action, enabled while  *)
(* nobody holds the lock.  The sections that call out take several actions *)
(* and keep the lock in between.                                           *)
(***************************************************************************)
EXTENDS Naturals, FiniteSets

CONSTANTS
    OutputBase,  \* output base IDs, the names in the directory
    BuildID,     \* build IDs chosen by clients
    PathID,      \* addresses of outputPathState objects, never reused
    Call,        \* gRPC server threads
    Reader,      \* file system request threads
    NULL,        \* nil
    ROOT         \* &d.outputPaths, the list head

ASSUME ConstantsAssumption ==
    /\ NULL \notin OutputBase \union BuildID \union PathID \union Call
                     \union Reader
    /\ ROOT \notin PathID \union {NULL}
    /\ Call \intersect Reader = {}

VARIABLES
    lock,           \* the holder of d.lock, or NULL
    changeID,       \* d.changeID
    outputBaseIDs,  \* d.outputBaseIDs
    buildIDs,       \* d.buildIDs
    allocated,      \* the outputPathState objects created so far
    outputBaseID,   \* outputPathState.outputBaseID
    cookie,         \* outputPathState.cookie
    buildState,     \* outputPathState.buildState.id, NULL if there is none
    previous,       \* outputPathState.previous, also of the list head
    next,           \* outputPathState.next, also of the list head
    emptied,        \* paths whose RemoveAllChildren(true) emptied them
    cleanFailed,    \* paths whose last RemoveAllChildren(true) failed
    call,           \* the progress of every gRPC call
    reader,         \* the progress of every file system request
    dentry          \* the kernel's cached entry of every name

index    == <<outputBaseIDs, buildIDs, buildState>>
list     == <<previous, next, cookie, outputBaseID, allocated, changeID>>
contents == <<emptied, cleanFailed>>
kernel   == <<reader, dentry>>
vars     == <<lock, index, list, contents, call, kernel>>

Node == PathID \union {ROOT}

(* The output paths that are part of the directory.                        *)
Registered == {outputBaseIDs[ob] : ob \in OutputBase} \ {NULL}

-----------------------------------------------------------------------------
(* gRPC calls.  "req" is the build ID in the request, "build" the build    *)
(* whose buildState the call obtained.                                     *)

CallState ==
    [pc    : {"idle", "filter", "error", "serving", "finalizing",
              "removing", "unregister", "notify", "factoryClean"},
     ob    : OutputBase \union {NULL},
     path  : PathID \union {NULL},
     req   : BuildID \union {NULL},
     build : BuildID \union {NULL}]

IdleCall == [pc |-> "idle", ob |-> NULL, path |-> NULL,
             req |-> NULL, build |-> NULL]

Return(c) == call' = [call EXCEPT ![c] = IdleCall]

At(c, pc) == call[c].pc = pc

(* File system requests.  "since" is the listing when the directory was    *)
(* opened, "seen" what was reported since then, "got" whether the current  *)
(* request has reported anything.                                          *)

ReaderState ==
    [pc          : {"idle", "lookup", "reply", "open", "readdir", "seek",
                    "report", "eof"},
     ob          : OutputBase \union {NULL},
     path        : PathID \union {NULL},
     firstCookie : Nat,
     cursor      : Node,
     got         : BOOLEAN,
     since       : SUBSET PathID,
     seen        : SUBSET PathID]

IdleReader == [pc |-> "idle", ob |-> NULL, path |-> NULL, firstCookie |-> 0,
               cursor |-> ROOT, got |-> FALSE, since |-> {}, seen |-> {}]

(* The kernel holds the directory's inode lock (shared) for the duration   *)
(* of a lookup or readdir request.                                         *)
KernelLockHolders ==
    {r \in Reader : reader[r].pc \in {"lookup", "reply", "readdir",
                                      "seek", "report"}}

-----------------------------------------------------------------------------
Init ==
    /\ lock = NULL
    /\ changeID = 0
    /\ outputBaseIDs = [ob \in OutputBase |-> NULL]
    /\ buildIDs = [b \in BuildID |-> NULL]
    /\ allocated = {}
    /\ outputBaseID = [p \in PathID |-> NULL]
    /\ cookie = [p \in PathID |-> 0]
    /\ buildState = [p \in PathID |-> NULL]
    /\ previous = [n \in Node |-> ROOT]
    /\ next = [n \in Node |-> ROOT]
    /\ emptied = {}
    /\ cleanFailed = {}
    /\ call = [c \in Call |-> IdleCall]
    /\ reader = [r \in Reader |-> IdleReader]
    /\ dentry = [ob \in OutputBase |-> NULL]

-----------------------------------------------------------------------------
(* StartBuild()                                                            *)

(* Mutant: the build ID of a displaced or cleaned build is kept.           *)
BuildIDsKept(p) == buildIDs

(* buildIDs without the build that occupies p, if there is one.            *)
WithoutBuildOf(p) ==
    [b \in BuildID |-> IF b = buildState[p] THEN NULL ELSE buildIDs[b]]

(* The build is already running: a retry of an earlier call.  The output   *)
(* base in the request is not looked at.                                   *)
StartBuildResume(c, b) ==
    /\ At(c, "idle")
    /\ lock = NULL
    /\ buildIDs[b] # NULL
    /\ call' = [call EXCEPT ![c] =
                  [IdleCall EXCEPT !.pc = "filter", !.req = b,
                                   !.path = buildIDs[b]]]
    /\ UNCHANGED <<lock, index, list, contents, kernel>>

(* The output path exists.  A build that was not finalized is displaced.   *)
StartBuildExisting(c, ob, b) ==
    LET p == outputBaseIDs[ob] IN
    /\ At(c, "idle")
    /\ lock = NULL
    /\ buildIDs[b] = NULL
    /\ p # NULL
    /\ buildIDs' = [WithoutBuildOf(p) EXCEPT ![b] = p]
    /\ buildState' = [buildState EXCEPT ![p] = b]
    /\ call' = [call EXCEPT ![c] =
                  [IdleCall EXCEPT !.pc = "filter", !.req = b, !.path = p]]
    /\ UNCHANGED <<lock, outputBaseIDs, list, contents, kernel>>

(* Mutant: p is inserted at the start of the list.                         *)
NextAfterPrepend(p) == [next EXCEPT ![ROOT] = p, ![p] = next[ROOT]]

(* Append p to the circular list.                                          *)
NextAfterInsert(p) ==
    [next EXCEPT ![previous[ROOT]] = p, ![p] = ROOT]

PreviousAfterInsert(p) ==
    [previous EXCEPT ![p] = previous[ROOT], ![ROOT] = p]

(* The first build in an output base: create the output path p.            *)
StartBuildInitial(c, ob, b, p) ==
    /\ At(c, "idle")
    /\ lock = NULL
    /\ buildIDs[b] = NULL
    /\ outputBaseIDs[ob] = NULL
    /\ p \notin allocated
    /\ allocated' = allocated \union {p}
    /\ outputBaseID' = [outputBaseID EXCEPT ![p] = ob]
    /\ cookie' = [cookie EXCEPT ![p] = changeID]
    /\ next' = NextAfterInsert(p)
    /\ previous' = PreviousAfterInsert(p)
    /\ changeID' = changeID + 1
    /\ outputBaseIDs' = [outputBaseIDs EXCEPT ![ob] = p]
    /\ buildState' = [buildState EXCEPT ![p] = b]
    /\ buildIDs' = [buildIDs EXCEPT ![b] = p]
    /\ call' = [call EXCEPT ![c] =
                  [IdleCall EXCEPT !.pc = "filter", !.req = b, !.path = p]]
    /\ UNCHANGED <<lock, contents, kernel>>

(* filterMissingChildren() succeeds.                                       *)
StartBuildReturn(c) ==
    /\ At(c, "filter")
    /\ Return(c)
    /\ UNCHANGED <<lock, index, list, contents, kernel>>

(* Mutant: the build of a call that fails is no longer accepted.           *)
StartBuildFailsUndone(c) ==
    /\ At(c, "filter")
    /\ buildIDs' = [buildIDs EXCEPT ![call[c].req] = NULL]
    /\ buildState' = [p \in PathID |-> IF buildState[p] = call[c].req
                                         THEN NULL ELSE buildState[p]]
    /\ call' = [call EXCEPT ![c].pc = "error"]
    /\ UNCHANGED <<lock, outputBaseIDs, list, contents, kernel>>

(* filterMissingChildren() fails.  An error is returned to the client, but *)
(* the build stays registered, also if it displaced another one.           *)
StartBuildFails(c) ==
    /\ At(c, "filter")
    /\ call' = [call EXCEPT ![c].pc = "error"]
    /\ UNCHANGED <<lock, index, list, contents, kernel>>

(* The error reaches the client.                                           *)
StartBuildError(c) ==
    /\ At(c, "error")
    /\ Return(c)
    /\ UNCHANGED <<lock, index, list, contents, kernel>>

-----------------------------------------------------------------------------
(* StageArtifacts() and BatchStat() obtain the output path and the state   *)
(* of their build under the lock, and use both after giving it up.         *)
GetOutputPathAndBuildState(c, b) ==
    /\ At(c, "idle")
    /\ lock = NULL
    /\ buildIDs[b] # NULL
    /\ call' = [call EXCEPT ![c] =
                  [IdleCall EXCEPT !.pc = "serving", !.req = b,
                                   !.path = buildIDs[b],
                                   !.build = buildState[buildIDs[b]]]]
    /\ UNCHANGED <<lock, index, list, contents, kernel>>

ServingReturn(c) ==
    /\ At(c, "serving")
    /\ Return(c)
    /\ UNCHANGED <<lock, index, list, contents, kernel>>

-----------------------------------------------------------------------------
(* FinalizeBuild() uploads and saves the output path while holding the     *)
(* lock, and only then forgets about the build.                            *)
FinalizeBuildBegin(c, b) ==
    /\ At(c, "idle")
    /\ lock = NULL
    /\ buildIDs[b] # NULL
    /\ lock' = c
    /\ call' = [call EXCEPT ![c] =
                  [IdleCall EXCEPT !.pc = "finalizing", !.req = b,
                                   !.path = buildIDs[b],
                                   !.build = buildState[buildIDs[b]]]]
    /\ UNCHANGED <<index, list, contents, kernel>>

(* Mutant: the build state is left behind.                                 *)
FinalizeBuildEndStale(c) ==
    /\ At(c, "finalizing")
    /\ buildIDs' = [b \in BuildID |->
                      IF b = call[c].build THEN NULL ELSE buildIDs[b]]
    /\ lock' = NULL
    /\ Return(c)
    /\ UNCHANGED <<outputBaseIDs, buildState, list, contents, kernel>>

(* Mutant: the lock is not released.                                       *)
FinalizeBuildEndLocked(c) ==
    /\ At(c, "finalizing")
    /\ buildIDs' = [b \in BuildID |->
                      IF b = call[c].build THEN NULL ELSE buildIDs[b]]
    /\ buildState' = [buildState EXCEPT ![call[c].path] = NULL]
    /\ Return(c)
    /\ UNCHANGED <<lock, outputBaseIDs, list, contents, kernel>>

FinalizeBuildEnd(c) ==
    /\ At(c, "finalizing")
    /\ buildIDs' = [b \in BuildID |->
                      IF b = call[c].build THEN NULL ELSE buildIDs[b]]
    /\ buildState' = [buildState EXCEPT ![call[c].path] = NULL]
    /\ lock' = NULL
    /\ Return(c)
    /\ UNCHANGED <<outputBaseIDs, list, contents, kernel>>

-----------------------------------------------------------------------------
(* Clean()                                                                 *)

(* Mutant: an output base without an output path is not told apart.        *)
CleanLookupUnchecked(c, ob) ==
    /\ At(c, "idle")
    /\ lock = NULL
    /\ call' = [call EXCEPT ![c] =
                  [IdleCall EXCEPT !.pc = "removing", !.ob = ob,
                                   !.path = outputBaseIDs[ob]]]
    /\ UNCHANGED <<lock, index, list, contents, kernel>>

CleanLookup(c, ob) ==
    LET p == outputBaseIDs[ob] IN
    /\ At(c, "idle")
    /\ lock = NULL
    /\ call' = [call EXCEPT ![c] =
                  [IdleCall EXCEPT !.pc = IF p # NULL THEN "removing"
                                                      ELSE "factoryClean",
                                   !.ob = ob, !.path = p]]
    /\ UNCHANGED <<lock, index, list, contents, kernel>>

(* RemoveAllChildren(true) runs without the lock.                          *)
CleanRemoveAllChildren(c) ==
    /\ At(c, "removing")
    /\ emptied' = emptied \union {call[c].path}
    /\ cleanFailed' = cleanFailed \ {call[c].path}
    /\ call' = [call EXCEPT ![c].pc = "unregister"]
    /\ UNCHANGED <<lock, index, list, kernel>>

(* It may also fail, before or after having emptied the output path: the   *)
(* persistent state is removed last.  The output path stays registered.    *)
CleanRemoveAllChildrenFails(c) ==
    /\ At(c, "removing")
    /\ emptied' \in {emptied, emptied \union {call[c].path}}
    /\ cleanFailed' = cleanFailed \union {call[c].path}
    /\ Return(c)
    /\ UNCHANGED <<lock, index, list, kernel>>

(* Remove p from the circular list.                                        *)
NextAfterRemove(p) == [next EXCEPT ![previous[p]] = next[p]]

PreviousAfterRemove(p) == [previous EXCEPT ![next[p]] = previous[p]]

(* Mutants: the output path is not compared with the one that was emptied, *)
(* or is only unregistered if no build runs in it, or the change ID does   *)
(* not advance.                                                            *)
MutantUnregister(c, found, step) ==
    LET p  == call[c].path
        ob == call[c].ob
    IN  /\ At(c, "unregister")
        /\ lock = NULL
        /\ IF found
             THEN /\ outputBaseIDs' = [outputBaseIDs EXCEPT ![ob] = NULL]
                  /\ next' = NextAfterRemove(p)
                  /\ previous' = PreviousAfterRemove(p)
                  /\ changeID' = changeID + step
                  /\ buildIDs' = WithoutBuildOf(p)
                  /\ buildState' = [buildState EXCEPT ![p] = NULL]
             ELSE UNCHANGED <<outputBaseIDs, next, previous, changeID,
                              buildIDs, buildState>>
        /\ call' = [call EXCEPT ![c].pc = "notify"]
        /\ UNCHANGED <<lock, cookie, outputBaseID, allocated, contents,
                       kernel>>

CleanUnregisterUnchecked(c) == MutantUnregister(c, TRUE, 1)

CleanUnregisterUnlessRunning(c) ==
    MutantUnregister(c, /\ outputBaseIDs[call[c].ob] = call[c].path
                        /\ buildState[call[c].path] = NULL, 1)

CleanUnregisterQuietly(c) ==
    MutantUnregister(c, outputBaseIDs[call[c].ob] = call[c].path, 0)

(* The lock is taken again.  Nothing is unregistered if the output base    *)
(* has been given another output path in the meantime.                     *)
CleanUnregister(c) ==
    LET p  == call[c].path
        ob == call[c].ob
    IN  /\ At(c, "unregister")
        /\ lock = NULL
        /\ IF outputBaseIDs[ob] = p
             THEN /\ outputBaseIDs' = [outputBaseIDs EXCEPT ![ob] = NULL]
                  /\ next' = NextAfterRemove(p)
                  /\ previous' = PreviousAfterRemove(p)
                  /\ changeID' = changeID + 1
                  /\ buildIDs' = WithoutBuildOf(p)
                  /\ buildState' = [buildState EXCEPT ![p] = NULL]
             ELSE UNCHANGED <<outputBaseIDs, next, previous, changeID,
                              buildIDs, buildState>>
        /\ call' = [call EXCEPT ![c].pc = "notify"]
        /\ UNCHANGED <<lock, cookie, outputBaseID, allocated, contents,
                       kernel>>

(* Mutant: the kernel is not notified.                                     *)
CleanNotifyForgotten(c) ==
    /\ At(c, "notify")
    /\ Return(c)
    /\ UNCHANGED <<lock, index, list, contents, kernel>>

(* NotifyRemoval() makes the kernel drop its cached entry, for which it    *)
(* needs the directory's inode lock exclusively.                           *)
CleanNotify(c) ==
    /\ At(c, "notify")
    /\ KernelLockHolders = {}
    /\ dentry' = [dentry EXCEPT ![call[c].ob] = NULL]
    /\ Return(c)
    /\ UNCHANGED <<lock, index, list, contents, reader>>

(* The output base had no output path: only persistent state is removed.   *)
CleanFactory(c) ==
    /\ At(c, "factoryClean")
    /\ Return(c)
    /\ UNCHANGED <<lock, index, list, contents, kernel>>

-----------------------------------------------------------------------------
(* VirtualLookup(): the reply is sent after the lock is given up.          *)

LookupRequest(r, ob) ==
    /\ reader[r].pc = "idle"
    /\ reader' = [reader EXCEPT ![r].pc = "lookup", ![r].ob = ob]
    /\ UNCHANGED <<lock, index, list, contents, call, dentry>>

VirtualLookup(r) ==
    /\ reader[r].pc = "lookup"
    /\ lock = NULL
    /\ reader' = [reader EXCEPT ![r].pc = "reply",
                                ![r].path = outputBaseIDs[reader[r].ob]]
    /\ UNCHANGED <<lock, index, list, contents, call, dentry>>

LookupReply(r) ==
    /\ reader[r].pc = "reply"
    /\ dentry' = [dentry EXCEPT ![reader[r].ob] = reader[r].path]
    /\ reader' = [reader EXCEPT ![r] = IdleReader]
    /\ UNCHANGED <<lock, index, list, contents, call>>

-----------------------------------------------------------------------------
(* VirtualReadDir(): a process lists the directory with any number of      *)
(* requests, each continuing at the cookie where the previous one stopped. *)

OpenDir(r) ==
    /\ reader[r].pc \in {"idle", "eof"}
    /\ reader' = [reader EXCEPT ![r] =
                    [IdleReader EXCEPT !.pc = "open", !.since = Registered]]
    /\ UNCHANGED <<lock, index, list, contents, call, dentry>>

ReadDirRequest(r) ==
    /\ reader[r].pc = "open"
    /\ reader' = [reader EXCEPT ![r].pc = "readdir", ![r].got = FALSE]
    /\ UNCHANGED <<lock, index, list, contents, call, dentry>>

VirtualReadDir(r) ==
    /\ reader[r].pc = "readdir"
    /\ lock = NULL
    /\ lock' = r
    /\ reader' = [reader EXCEPT ![r].pc = "seek", ![r].cursor = next[ROOT]]
    /\ UNCHANGED <<index, list, contents, call, dentry>>

(* Find the first output path past the provided cookie.                    *)
ReadDirSeek(r) ==
    LET p == reader[r].cursor IN
    /\ reader[r].pc = "seek"
    /\ p # ROOT
    /\ reader' = IF cookie[p] >= reader[r].firstCookie
                   THEN [reader EXCEPT ![r].pc = "report"]
                   ELSE [reader EXCEPT ![r].cursor = next[p]]
    /\ UNCHANGED <<lock, index, list, contents, call, dentry>>

(* Mutants: the next request repeats the entry, or skips one.              *)
MutantReport(r, step) ==
    LET p == reader[r].cursor IN
    /\ reader[r].pc = "report"
    /\ p # ROOT
    /\ reader' = [reader EXCEPT ![r].seen = @ \union {p},
                                ![r].firstCookie = cookie[p] + step,
                                ![r].got = TRUE,
                                ![r].cursor = next[p]]
    /\ UNCHANGED <<lock, index, list, contents, call, dentry>>

ReadDirReportRepeats(r) == MutantReport(r, 0)

ReadDirReportSkips(r) == MutantReport(r, 2)

(* ReportEntry() accepts the entry.                                        *)
ReadDirReport(r) ==
    LET p == reader[r].cursor IN
    /\ reader[r].pc = "report"
    /\ p # ROOT
    /\ reader' = [reader EXCEPT ![r].seen = @ \union {p},
                                ![r].firstCookie = cookie[p] + 1,
                                ![r].got = TRUE,
                                ![r].cursor = next[p]]
    /\ UNCHANGED <<lock, index, list, contents, call, dentry>>

(* ReportEntry() has no space left for the entry.                          *)
ReadDirFull(r) ==
    /\ reader[r].pc = "report"
    /\ reader[r].cursor # ROOT
    /\ reader[r].got
    /\ lock' = NULL
    /\ reader' = [reader EXCEPT ![r].pc = "open"]
    /\ UNCHANGED <<index, list, contents, call, dentry>>

(* Mutant: the lock is not released.                                       *)
ReadDirEndLocked(r) ==
    /\ reader[r].pc \in {"seek", "report"}
    /\ reader[r].cursor = ROOT
    /\ reader' = [reader EXCEPT ![r].pc = IF reader[r].got THEN "open"
                                                           ELSE "eof"]
    /\ UNCHANGED <<lock, index, list, contents, call, dentry>>

(* The end of the list.  A request that yields no entries tells the        *)
(* process that it has seen all of them.                                   *)
ReadDirEnd(r) ==
    /\ reader[r].pc \in {"seek", "report"}
    /\ reader[r].cursor = ROOT
    /\ lock' = NULL
    /\ reader' = [reader EXCEPT ![r].pc = IF reader[r].got THEN "open"
                                                           ELSE "eof"]
    /\ UNCHANGED <<index, list, contents, call, dentry>>

-----------------------------------------------------------------------------
StartBuild(c) ==
    \E b \in BuildID :
        \/ StartBuildResume(c, b)
        \/ \E ob \in OutputBase :
              \/ StartBuildExisting(c, ob, b)
              \/ \E p \in PathID : StartBuildInitial(c, ob, b, p)

CallNext(c) ==
    \/ StartBuild(c)
    \/ StartBuildReturn(c)
    \/ StartBuildFails(c)
    \/ StartBuildError(c)
    \/ \E b \in BuildID : \/ GetOutputPathAndBuildState(c, b)
                          \/ FinalizeBuildBegin(c, b)
    \/ ServingReturn(c)
    \/ FinalizeBuildEnd(c)
    \/ \E ob \in OutputBase : CleanLookup(c, ob)
    \/ CleanRemoveAllChildren(c)
    \/ CleanRemoveAllChildrenFails(c)
    \/ CleanUnregister(c)
    \/ CleanNotify(c)
    \/ CleanFactory(c)

ReaderNext(r) ==
    \/ \E ob \in OutputBase : LookupRequest(r, ob)
    \/ VirtualLookup(r)
    \/ LookupReply(r)
    \/ OpenDir(r)
    \/ ReadDirRequest(r)
    \/ VirtualReadDir(r)
    \/ ReadDirSeek(r)
    \/ ReadDirReport(r)
    \/ ReadDirFull(r)
    \/ ReadDirEnd(r)

Next ==
    \/ \E c \in Call : CallNext(c)
    \/ \E r \in Reader : ReaderNext(r)

Spec == Init /\ [][Next]_vars

(* Threads that do not wait for a lock make progress.  Go's mutexes and    *)
(* the kernel's inode locks hand the lock over to a waiter eventually.     *)
Fairness ==
    /\ \A c \in Call :
          /\ WF_vars(StartBuildReturn(c) \/ StartBuildFails(c))
          /\ WF_vars(StartBuildError(c))
          /\ WF_vars(ServingReturn(c))
          /\ WF_vars(FinalizeBuildEnd(c))
          /\ WF_vars(CleanRemoveAllChildren(c) \/ CleanRemoveAllChildrenFails(c))
          /\ SF_vars(CleanUnregister(c))
          /\ SF_vars(CleanNotify(c))
          /\ WF_vars(CleanFactory(c))
    /\ \A r \in Reader :
          /\ SF_vars(VirtualLookup(r))
          /\ WF_vars(LookupReply(r))
          /\ SF_vars(VirtualReadDir(r))
          /\ WF_vars(ReadDirSeek(r) \/ ReadDirReport(r) \/ ReadDirFull(r)
                       \/ ReadDirEnd(r))

FairSpec == Spec /\ Fairness

-----------------------------------------------------------------------------
(* Type invariant.                                                         *)
TypeOK ==
    /\ lock \in Call \union Reader \union {NULL}
    /\ changeID \in Nat
    /\ outputBaseIDs \in [OutputBase -> PathID \union {NULL}]
    /\ buildIDs \in [BuildID -> PathID \union {NULL}]
    /\ allocated \in SUBSET PathID
    /\ outputBaseID \in [PathID -> OutputBase \union {NULL}]
    /\ cookie \in [PathID -> Nat]
    /\ buildState \in [PathID -> BuildID \union {NULL}]
    /\ previous \in [Node -> Node]
    /\ next \in [Node -> Node]
    /\ emptied \in SUBSET PathID
    /\ cleanFailed \in SUBSET PathID
    /\ call \in [Call -> CallState]
    /\ reader \in [Reader -> ReaderState]
    /\ dentry \in [OutputBase -> PathID \union {NULL}]

(* The two maps and the fields of the output paths agree: a build ID leads *)
(* to the registered output path that runs the build, and the other way    *)
(* around.  Every insertion and deletion in StartBuild(), FinalizeBuild()  *)
(* and Clean() has to update both sides.                                   *)
IndexConsistent ==
    /\ \A ob \in OutputBase : outputBaseIDs[ob] # NULL =>
          /\ outputBaseIDs[ob] \in allocated
          /\ outputBaseID[outputBaseIDs[ob]] = ob
    /\ \A b \in BuildID : buildIDs[b] # NULL =>
          /\ buildIDs[b] \in Registered
          /\ buildState[buildIDs[b]] = b
    /\ \A p \in PathID : buildState[p] # NULL => buildIDs[buildState[p]] = p

(* A call that was admitted for a build holds the state of that very       *)
(* build: never nil, which StageArtifacts(), BatchStat() and               *)
(* FinalizeBuild() would dereference, and never that of another build,     *)
(* whose digest function would be used to interpret the digests.           *)
AdmittedToOwnBuild ==
    \A c \in Call : call[c].pc \in {"serving", "finalizing"} =>
        /\ call[c].path # NULL
        /\ call[c].build = call[c].req

(* The circular list holds exactly the registered output paths, in the     *)
(* order of cookies that are all smaller than the change ID.               *)
ListConsistent ==
    LET Linked == Registered \union {ROOT} IN
    /\ \A n \in Linked :
          /\ next[n] \in Linked
          /\ previous[n] \in Linked
          /\ previous[next[n]] = n
          /\ next[previous[n]] = n
    /\ \A p \in Registered :
          /\ cookie[p] < changeID
          /\ next[p] # ROOT => cookie[p] < cookie[next[p]]
    /\ \A p, q \in Registered : cookie[p] = cookie[q] => p = q
    /\ \A n \in Linked, p \in Registered :
          n = ROOT \/ cookie[n] < cookie[p] =>
              next[n] # ROOT /\ cookie[next[n]] <= cookie[p]

(* A process that lists the directory has, at the end, been told about     *)
(* every output path that was there all along, no matter which output      *)
(* paths were created and removed between its requests.                    *)
ReadDirComplete ==
    \A r \in Reader : reader[r].pc = "eof" =>
        reader[r].since \intersect Registered \subseteq reader[r].seen

(* No output path is reported twice to a process listing the directory.    *)
ReadDirNoDuplicates ==
    \A r \in Reader : reader[r].pc = "report" =>
        reader[r].cursor \notin reader[r].seen

(* Unless a Clean() is about to send a notification for it, the kernel's   *)
(* cached entry is the output path in the directory: a lookup that raced   *)
(* with Clean() does not leave a removed output path visible.              *)
DentryFresh ==
    \A ob \in OutputBase :
        \/ dentry[ob] \in {NULL, outputBaseIDs[ob]}
        \/ \E c \in Call : At(c, "notify") /\ call[c].ob = ob

(* An output path only leaves the directory after it was emptied: there is *)
(* no way for a concurrent StartBuild() or second Clean() to make Clean()  *)
(* drop an output path that still has contents.                            *)
UnregisteredEmptied == allocated \ Registered \subseteq emptied

(* An output path in the directory that refuses new children, because it   *)
(* was emptied for good, is about to be unregistered, unless the last      *)
(* attempt at it in Clean() failed: repeating a failed Clean() until it    *)
(* succeeds gets rid of the output path, whatever else is going on.        *)
SealedIsTransient ==
    \A p \in (emptied \ cleanFailed) \intersect Registered :
        \E c \in Call : At(c, "unregister") /\ call[c].path = p

(* Every change of the directory's listing changes its change ID, which    *)
(* NFS clients use to invalidate their caches, and the change ID is never  *)
(* reused.                                                                 *)
ChangeIDAdvances ==
    [][outputBaseIDs' # outputBaseIDs => changeID' > changeID]_vars

(* The bookkeeping implements the abstract service.                        *)
Session(ob) ==
    IF outputBaseIDs[ob] = NULL THEN NULL ELSE buildState[outputBaseIDs[ob]]

Failing == {call[c].req : c \in {d \in Call : At(d, "error")}}

Sessions ==
    INSTANCE BuildSessions
        WITH present <- {ob \in OutputBase : outputBaseIDs[ob] # NULL},
             session <- [ob \in OutputBase |-> Session(ob)],
             running <- {b \in BuildID : buildIDs[b] # NULL},
             failed  <- Failing

ImplementsBuildSessions == Sessions!Spec

(* Every gRPC call returns, and so does every file system request, even    *)
(* though Clean() waits for d.lock and for the kernel, requests hold the   *)
(* kernel's lock while they wait for d.lock, and FinalizeBuild() and       *)
(* VirtualReadDir() hold d.lock for long.                                  *)
CallsReturn == \A c \in Call : ~At(c, "idle") ~> At(c, "idle")

RequestsReturn ==
    \A r \in Reader : r \in KernelLockHolders ~> r \notin KernelLockHolders
=============================================================================
