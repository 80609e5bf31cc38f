------------------------ MODULE PersistentOutputPath ------------------------
(***************************************************************************)
(* Output paths whose contents are saved to a state file at the end of     *)
(* every build and restored when the output base is used for the first     *)
(* time after a restart, unless the saved state has become too old.        *)
(*                                                                         *)
(* The module composes the decorator persistentOutputPathFactory with      *)
(* DirectoryBackedStore, maximumAgeStore and the part of the Bazel Output  *)
(* Service that calls it: StartBuild() and FinalizeBuild() access the      *)
(* store while holding d.lock, Clean() accesses it without.                *)
(*                                                                         *)
(* An artifact in an output path is a pair of a name and the time at which *)
(* it was staged.                                                          *)
(***************************************************************************)
EXTENDS DirectoryBackedStore

CONSTANTS
    PathID,     \* addresses of output paths
    Artifact,   \* names of artifacts, each in a directory of its own
    MaxAge,     \* maximumStateFileAge
    MaxTime,    \* bound: the clock stops here
    Overlap,    \* whether clients issue calls for an output base in parallel
    PowerFails  \* whether the machine may stop, rather than just the process

Time  == 0 .. MaxTime
Items == Artifact \X Time

(* What is written to a state file: a RootDirectory message.               *)
RootDirectory == [contents : SUBSET Items, created : Time]

ASSUME PersistencyAssumption ==
    /\ MaxAge \in Nat \ {0}
    /\ MaxTime \in Nat
    /\ Overlap \in BOOLEAN
    /\ PowerFails \in BOOLEAN
    /\ State = RootDirectory
    /\ NULL \notin PathID \union RootDirectory

VARIABLES
    now,        \* clock.Now()
    lock,       \* the holder of d.lock, or NULL
    path,       \* the output path of every output base, or NULL
    running,    \* the output bases in which a build is running
    contents,   \* the artifacts in every output path
    created,    \* initialCreationTime of every output path
    sealed,     \* output paths whose RemoveAllChildren(true) was called
    call,       \* the progress of every gRPC call
    staged,     \* history: artifacts staged since an output base was cleaned
    before,     \* history: what had been staged when Clean() was called
    saved       \* history: what was saved last for every output base

serviceVars == <<now, lock, path, running, contents, created, sealed>>
history     == <<staged, before, saved>>
vars        == <<serviceVars, call, history, storeVars>>

(* The call of a thread: what it does next ("pc"), its output base and     *)
(* output path, the directories that still have to be saved ("todo") and   *)
(* what was found in the others ("data").                                  *)
IdleCall == [pc |-> "idle", base |-> NULL, path |-> NULL,
             todo |-> {}, data |-> {}]

Init ==
    /\ StoreInit
    /\ now = 0
    /\ lock = NULL
    /\ path = [b \in BaseName |-> NULL]
    /\ running = {}
    /\ contents = [p \in PathID |-> {}]
    /\ created = [p \in PathID |-> 0]
    /\ sealed = {}
    /\ call = [t \in Thread |-> IdleCall]
    /\ staged = [b \in BaseName |-> {}]
    /\ before = [t \in Thread |-> {}]
    /\ saved = [b \in BaseName |-> NULL]

At(t, pc) == call[t].pc = pc
Return(t) == call' = [call EXCEPT ![t] = IdleCall]
Goto(t, pc) == call' = [call EXCEPT ![t].pc = pc]

(* A client calls the service for b.  Bazel locks the output base, so that *)
(* it has one call in progress unless Overlap is set.                      *)
Begin(t, b, p, pc) ==
    /\ At(t, "idle")
    /\ Overlap \/ \A u \in Thread : call[u].base # b
    /\ lock = NULL
    /\ call' = [call EXCEPT ![t] = [pc |-> pc, base |-> b, path |-> p,
                                     todo |-> {}, data |-> {}]]

Named(S, a) == {item \in S : item[1] = a}
Names(S) == {item[1] : item \in S}

-----------------------------------------------------------------------------
(* maximumAgeStore.                                                        *)
TimeToEpoch(time) == time \div MaxAge

(* Read(): a state whose epoch has passed is rejected.                     *)
ReadRecent(b) ==
    IF Read(b) # NULL /\ TimeToEpoch(Read(b).created) = TimeToEpoch(now)
      THEN Read(b)
      ELSE NULL

(* Addresses that nothing refers to.                                       *)
FreePath == PathID \ ({path[b] : b \in BaseName} \union
                      {call[t].path : t \in Thread})

(* StartBuild() for an output base without an output path: StartInitial-   *)
(* Build() creates one, and restores as much as it can: what comes after   *)
(* an entry that cannot be restored is left out.                           *)
StartBuildInitial(t, b, p, restored) ==
    /\ path[b] = NULL
    /\ p \in FreePath
    /\ Begin(t, b, p, "filter")
    /\ LET root == ReadRecent(b)
       IN  /\ restored \subseteq (IF root = NULL THEN {} ELSE root.contents)
           /\ created' = [created EXCEPT ![p] =
                            IF root = NULL THEN now ELSE root.created]
    /\ path' = [path EXCEPT ![b] = p]
    /\ contents' = [contents EXCEPT ![p] = restored]
    /\ sealed' = sealed \ {p}
    /\ running' = running \union {b}
    /\ UNCHANGED <<now, lock, history, storeVars>>

StartBuildExisting(t, b) ==
    /\ path[b] # NULL
    /\ Begin(t, b, path[b], "filter")
    /\ running' = running \union {b}
    /\ UNCHANGED <<now, lock, path, contents, created, sealed, history,
                   storeVars>>

(* filterMissingChildren() removes artifacts, whether or not it succeeds.  *)
FilterMissingChildren(t, missing) ==
    /\ At(t, "filter")
    /\ contents' = [contents EXCEPT ![call[t].path] = @ \ missing]
    /\ Return(t)
    /\ UNCHANGED <<now, lock, path, running, created, sealed, history,
                   storeVars>>

-----------------------------------------------------------------------------
(* StageArtifacts(): look up the output path, then create the artifact,    *)
(* which fails if the output path has been sealed.                         *)
StageArtifactsLookup(t, b) ==
    /\ b \in running
    /\ Begin(t, b, path[b], "stage")
    /\ UNCHANGED <<serviceVars, history, storeVars>>

StageSingleArtifact(t, a) ==
    LET p == call[t].path
        b == call[t].base
    IN  /\ At(t, "stage")
        /\ p \notin sealed
        /\ contents' = [contents EXCEPT
                          ![p] = (@ \ Named(@, a)) \union {<<a, now>>}]
        /\ staged' = [staged EXCEPT ![b] = @ \union {a}]
        /\ before' = [u \in Thread |-> IF call[u].base = b
                                        THEN before[u] \ {a} ELSE before[u]]
        /\ Return(t)
        /\ UNCHANGED <<now, lock, path, running, created, sealed, saved,
                       storeVars>>

StageSingleArtifactFails(t) ==
    /\ At(t, "stage")
    /\ Return(t)
    /\ UNCHANGED <<serviceVars, history, storeVars>>

-----------------------------------------------------------------------------
(* Mutant: the output path is saved without holding d.lock.                *)
FinalizeBuildBeginUnlocked(t, b) ==
    /\ b \in running
    /\ Begin(t, b, path[b], "save")
    /\ WriteRemove(t, b) \/ UNCHANGED storeVars
    /\ UNCHANGED <<serviceVars, history>>

(* FinalizeBuild() holds d.lock while the output path is saved.  Store     *)
(* operations that fail are logged, and do not fail the call.              *)
FinalizeBuildBegin(t, b) ==
    /\ b \in running
    /\ Begin(t, b, path[b], "save")
    /\ lock' = t
    /\ WriteRemove(t, b) \/ UNCHANGED storeVars
    /\ UNCHANGED <<now, path, running, contents, created, sealed, history>>

(* The temporary file is created before the output path is traversed.      *)
SaveCreate(t, i) ==
    /\ At(t, "save")
    /\ WriteCreate(t, i)
    /\ call' = [call EXCEPT ![t].todo = Artifact]
    /\ UNCHANGED <<serviceVars, history>>

(* saveDirectoryRecursive() calls LookupAllChildren() for one directory at *)
(* a time.  Leaves that it leaves out, because Bazel needs to write to     *)
(* them or because their digest is not known, are not among the artifacts  *)
(* here.  LocalFileUploading has these.                                    *)
SaveDirectory(t, a) ==
    /\ At(t, "save")
    /\ io[t].pc = "writing"
    /\ a \in call[t].todo
    /\ call' = [call EXCEPT ![t].todo = @ \ {a},
                            ![t].data = @ \union
                                        Named(contents[call[t].path], a)]
    /\ UNCHANGED <<serviceVars, history, storeVars>>

(* Mutant: every save makes the state look new.                            *)
SaveRootDirectoryRenewed(t) ==
    /\ At(t, "save")
    /\ call[t].todo = {}
    /\ FinalizeWrite(t, [contents |-> call[t].data, created |-> now])
    /\ UNCHANGED <<serviceVars, call, history>>

SaveRootDirectory(t) ==
    /\ At(t, "save")
    /\ call[t].todo = {}
    /\ FinalizeWrite(t, [contents |-> call[t].data,
                         created |-> created[call[t].path]])
    /\ UNCHANGED <<serviceVars, call, history>>

SaveStep(t) ==
    /\ At(t, "save")
    /\ \/ WriteCreateFails(t)
       \/ FinalizeSync(t)
       \/ WriterFails(t)
       \/ WriterClose(t)
    /\ UNCHANGED <<serviceVars, call, history>>

SaveRename(t) ==
    /\ At(t, "save")
    /\ FinalizeRename(t)
    /\ saved' = [saved EXCEPT ![call[t].base] = contents[call[t].path]]
    /\ UNCHANGED <<serviceVars, call, staged, before>>

FinalizeBuildEnd(t) ==
    /\ At(t, "save")
    /\ io[t].pc = "idle"
    /\ running' = running \ {call[t].base}
    /\ lock' = NULL
    /\ Return(t)
    /\ UNCHANGED <<now, path, contents, created, sealed, history, storeVars>>

-----------------------------------------------------------------------------
(* Clean(): look up the output path.  If there is one, remove its children *)
(* and its state file, and unregister it.  If there is none, only remove   *)
(* the state file.  The lock is not held in between.                       *)
CleanLookup(t, b) ==
    /\ Begin(t, b, path[b], IF path[b] = NULL THEN "factoryClean"
                                              ELSE "removing")
    /\ before' = [before EXCEPT ![t] = staged[b]]
    /\ UNCHANGED <<serviceVars, staged, saved, storeVars>>

(* Mutant: the state file is not removed.                                  *)
RemoveAllChildrenOnly(t) ==
    /\ At(t, "removing")
    /\ contents' = [contents EXCEPT ![call[t].path] = {}]
    /\ sealed' = sealed \union {call[t].path}
    /\ Goto(t, "unregister")
    /\ UNCHANGED <<now, lock, path, running, created, history, storeVars>>

RemoveAllChildren(t) ==
    /\ At(t, "removing")
    /\ contents' = [contents EXCEPT ![call[t].path] = {}]
    /\ sealed' = sealed \union {call[t].path}
    /\ Goto(t, "cleaning")
    /\ UNCHANGED <<now, lock, path, running, created, history, storeVars>>

StoreClean(t) ==
    /\ call[t].pc \in {"cleaning", "factoryClean"}
    /\ CleanState(t, call[t].base)
    /\ saved' = [saved EXCEPT ![call[t].base] = NULL]
    /\ UNCHANGED <<serviceVars, call, staged, before>>

(* What had been staged before Clean() was called is gone.                 *)
CleanReturns(t) ==
    /\ staged' = [staged EXCEPT ![call[t].base] = @ \ before[t]]
    /\ before' = [before EXCEPT ![t] = {}]
    /\ Return(t)

StoreCleanEnd(t) ==
    /\ CleanTemporary(t)
    /\ \/ At(t, "cleaning") /\ Goto(t, "unregister") /\ UNCHANGED history
       \/ At(t, "factoryClean") /\ CleanReturns(t) /\ UNCHANGED saved
    /\ UNCHANGED serviceVars

(* Removing the children, the state file or the temporary file fails, and  *)
(* Clean() returns an error.                                               *)
CleanFails(t) ==
    /\ \/ /\ call[t].pc \in {"removing", "cleaning", "factoryClean"}
          /\ io[t].pc = "idle"
          /\ UNCHANGED storeVars
       \/ CleanTemporaryFails(t)
    /\ before' = [before EXCEPT ![t] = {}]
    /\ Return(t)
    /\ UNCHANGED <<serviceVars, staged, saved>>

CleanUnregister(t) ==
    LET b == call[t].base
    IN  /\ At(t, "unregister")
        /\ lock = NULL
        /\ IF path[b] = call[t].path
             THEN /\ path' = [path EXCEPT ![b] = NULL]
                  /\ running' = running \ {b}
             ELSE UNCHANGED <<path, running>>
        /\ CleanReturns(t)
        /\ UNCHANGED <<now, lock, contents, created, sealed, saved, storeVars>>

-----------------------------------------------------------------------------
(* The process is restarted, by itself or along with the machine.         *)
ServiceRestart ==
    /\ lock' = NULL
    /\ path' = [b \in BaseName |-> NULL]
    /\ running' = {}
    /\ contents' = [p \in PathID |-> {}]
    /\ created' = [p \in PathID |-> 0]
    /\ sealed' = {}
    /\ call' = [t \in Thread |-> IdleCall]
    /\ before' = [t \in Thread |-> {}]
    /\ UNCHANGED <<now, staged, saved>>

Restart == StoreRestart /\ ServiceRestart

Commit ==
    /\ PowerFails
    /\ JournalCommit
    /\ UNCHANGED <<serviceVars, call, history>>

PowerLoss(torn) ==
    /\ PowerFails
    /\ StorePowerLoss(torn)
    /\ ServiceRestart

Tick ==
    /\ now < MaxTime
    /\ now' = now + 1
    /\ UNCHANGED <<lock, path, running, contents, created, sealed, call,
                   history, storeVars>>

Next ==
    \/ \E t \in Thread :
          \/ \E b \in BaseName :
                \/ \E p \in PathID, restored \in SUBSET Items :
                      StartBuildInitial(t, b, p, restored)
                \/ StartBuildExisting(t, b)
                \/ StageArtifactsLookup(t, b)
                \/ FinalizeBuildBegin(t, b)
                \/ CleanLookup(t, b)
          \/ \E missing \in SUBSET Items : FilterMissingChildren(t, missing)
          \/ \E a \in Artifact :
                \/ StageSingleArtifact(t, a)
                \/ SaveDirectory(t, a)
          \/ StageSingleArtifactFails(t)
          \/ \E i \in Inode : SaveCreate(t, i)
          \/ SaveRootDirectory(t)
          \/ SaveStep(t)
          \/ SaveRename(t)
          \/ FinalizeBuildEnd(t)
          \/ RemoveAllChildren(t)
          \/ StoreClean(t)
          \/ StoreCleanEnd(t)
          \/ CleanFails(t)
          \/ CleanUnregister(t)
    \/ Restart
    \/ Commit
    \/ \E torn \in SUBSET Inode : PowerLoss(torn)
    \/ Tick

Spec == Init /\ [][Next]_vars

-----------------------------------------------------------------------------
(* The artifacts that an output base shows, or will show once it is used:  *)
(* the contents of its output path, or those of its state file.            *)
Shown(b) ==
    IF path[b] # NULL THEN Names(contents[path[b]])
    ELSE IF Read(b) # NULL THEN Names(Read(b).contents) ELSE {}

(* An output base only ever shows what was staged in it since it was last  *)
(* cleaned.  Neither a restart nor a save that is in progress brings back  *)
(* artifacts that "bazel clean" removed, and the state files of output     *)
(* bases are not mixed up.                                                 *)
OnlyStagedIsShown == \A b \in BaseName : Shown(b) \subseteq staged[b]

(* As long as clients do not make calls in parallel for an output base, a  *)
(* state file holds exactly the artifacts that were in the output path     *)
(* when it was saved: the files that are backed by the storage.  Saves     *)
(* that fail later on, and restarts at any time, leave it alone.           *)
SavedStateKept ==
    \A b \in BaseName :
        saved[b] = IF Read(b) = NULL THEN NULL ELSE Read(b).contents

(* Data is not carried along indefinitely: everything that an output path  *)
(* is populated with when it is created was staged in the current epoch of *)
(* maximumStateFileAge, no matter how often it was saved and restored.     *)
RestoredIsRecent ==
    [][\A b \in BaseName : path[b] = NULL /\ path'[b] # NULL =>
          \A item \in contents'[path'[b]] :
              TimeToEpoch(item[2]) = TimeToEpoch(now)]_vars

(* d.lock makes saving mutually exclusive, which the store relies on.      *)
UsesStoreCorrectly == StoreSpec
=============================================================================
