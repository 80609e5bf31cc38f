------------------------ MODULE DirectoryBackedStore ------------------------
(***************************************************************************)
(* The directory in which the state of output paths is persisted, one file *)
(* per output base.  A state file is written under a temporary name and    *)
(* renamed when it is complete; cleaning removes both names.               *)
(*                                                                         *)
(* Every file system operation is an action, because threads and crashes   *)
(* may come in between.  A crash of the process keeps the file system as   *)
(* it is.  After a power loss, names are as of the last journal commit and *)
(* data that was not synchronized may be torn.                             *)
(***************************************************************************)
EXTENDS Naturals

CONSTANTS
    BaseName,       \* output base IDs, which name the state files
    Name,           \* all file names
    TemporaryName,  \* getTemporaryName(), a function from BaseName to Name
    Inode,
    Thread,
    State,          \* what may be written to a state file
    NULL

ASSUME StoreAssumption ==
    /\ BaseName \subseteq Name
    /\ TemporaryName \in [BaseName -> Name]
    /\ NULL \notin Inode \union Thread \union BaseName \union Name

VARIABLES
    directory,  \* what every name refers to
    durable,    \* the same, as of the last journal commit
    inode,      \* the contents of every file
    io          \* the progress of every thread's operation

storeVars == <<directory, durable, inode, io>>

EmptyFile == [state |-> NULL, whole |-> FALSE, synced |-> FALSE]

IOState ==
    [pc   : {"idle", "create", "writing", "sync", "rename", "abort",
             "cleanTemporary"},
     base : BaseName \union {NULL},
     ino  : Inode \union {NULL}]

IdleIO == [pc |-> "idle", base |-> NULL, ino |-> NULL]

StoreInit ==
    /\ directory = [n \in Name |-> NULL]
    /\ durable = [n \in Name |-> NULL]
    /\ inode = [i \in Inode |-> EmptyFile]
    /\ io = [t \in Thread |-> IdleIO]

Temporary(t) == TemporaryName[io[t].base]

IODone(t) == io' = [io EXCEPT ![t] = IdleIO]

(* Inodes that no name refers to and no thread has open.                   *)
FreeInode ==
    Inode \ ({directory[n] : n \in Name} \union {durable[n] : n \in Name}
               \union {io[t].ino : t \in Thread})

-----------------------------------------------------------------------------
(* Write(): remove the temporary file, then create it exclusively.         *)
WriteRemove(t, b) ==
    /\ io[t].pc = "idle"
    /\ directory' = [directory EXCEPT ![TemporaryName[b]] = NULL]
    /\ io' = [io EXCEPT ![t] = [pc |-> "create", base |-> b, ino |-> NULL]]
    /\ UNCHANGED <<durable, inode>>

WriteCreate(t, i) ==
    /\ io[t].pc = "create"
    /\ directory[Temporary(t)] = NULL
    /\ i \in FreeInode
    /\ directory' = [directory EXCEPT ![Temporary(t)] = i]
    /\ inode' = [inode EXCEPT ![i] = EmptyFile]
    /\ io' = [io EXCEPT ![t].pc = "writing", ![t].ino = i]
    /\ UNCHANGED durable

(* Creating the file fails, for one if it exists.                          *)
WriteCreateFails(t) ==
    /\ io[t].pc = "create"
    /\ IODone(t)
    /\ UNCHANGED <<directory, durable, inode>>

(* Finalize(): write the root directory and the header, synchronize, close *)
(* and rename.  Any of these may fail, upon which the temporary file is    *)
(* removed.                                                                *)
FinalizeWrite(t, s) ==
    /\ io[t].pc = "writing"
    /\ inode' = [inode EXCEPT ![io[t].ino] =
                   [state |-> s, whole |-> TRUE, synced |-> FALSE]]
    /\ io' = [io EXCEPT ![t].pc = "sync"]
    /\ UNCHANGED <<directory, durable>>

(* Mutant: the file is renamed without being synchronized.                 *)
FinalizeSyncSkipped(t) ==
    /\ io[t].pc = "sync"
    /\ io' = [io EXCEPT ![t].pc = "rename"]
    /\ UNCHANGED <<directory, durable, inode>>

FinalizeSync(t) ==
    /\ io[t].pc = "sync"
    /\ inode' = [inode EXCEPT ![io[t].ino].synced = TRUE]
    /\ io' = [io EXCEPT ![t].pc = "rename"]
    /\ UNCHANGED <<directory, durable>>

FinalizeRename(t) ==
    /\ io[t].pc = "rename"
    /\ directory[Temporary(t)] # NULL
    /\ directory' = [directory EXCEPT
                       ![io[t].base] = directory[Temporary(t)],
                       ![Temporary(t)] = NULL]
    /\ IODone(t)
    /\ UNCHANGED <<durable, inode>>

(* A write, the synchronization or the rename fails, the latter for one if *)
(* Clean() has removed the temporary file.                                 *)
WriterFails(t) ==
    /\ io[t].pc \in {"writing", "sync", "rename"}
    /\ io' = [io EXCEPT ![t].pc = "abort"]
    /\ UNCHANGED <<directory, durable, inode>>

(* Mutant: the state file is removed instead of the temporary file.        *)
WriterCloseRemovesState(t) ==
    /\ io[t].pc = "abort"
    /\ directory' = [directory EXCEPT ![io[t].base] = NULL]
    /\ IODone(t)
    /\ UNCHANGED <<durable, inode>>

(* Removing the temporary file may fail too, upon which it stays behind.   *)
WriterClose(t) ==
    /\ io[t].pc = "abort"
    /\ \/ directory' = [directory EXCEPT ![Temporary(t)] = NULL]
       \/ UNCHANGED directory
    /\ IODone(t)
    /\ UNCHANGED <<durable, inode>>

-----------------------------------------------------------------------------
(* Clean(): remove the state file, then the temporary file.                *)
CleanState(t, b) ==
    /\ io[t].pc = "idle"
    /\ directory' = [directory EXCEPT ![b] = NULL]
    /\ io' = [io EXCEPT ![t] =
                [pc |-> "cleanTemporary", base |-> b, ino |-> NULL]]
    /\ UNCHANGED <<durable, inode>>

CleanTemporary(t) ==
    /\ io[t].pc = "cleanTemporary"
    /\ directory' = [directory EXCEPT ![Temporary(t)] = NULL]
    /\ IODone(t)
    /\ UNCHANGED <<durable, inode>>

CleanTemporaryFails(t) ==
    /\ io[t].pc = "cleanTemporary"
    /\ IODone(t)
    /\ UNCHANGED <<directory, durable, inode>>

-----------------------------------------------------------------------------
(* Read(): the state in the file of b, or NULL if there is no file or it   *)
(* cannot be parsed.                                                       *)
Read(b) ==
    IF directory[b] # NULL /\ inode[directory[b]].whole
      THEN inode[directory[b]].state
      ELSE NULL

-----------------------------------------------------------------------------
(* The file system commits its journal.                                    *)
JournalCommit ==
    /\ durable' = directory
    /\ UNCHANGED <<directory, inode, io>>

(* The process stops, and all open files are closed.                       *)
StoreRestart ==
    /\ io' = [t \in Thread |-> IdleIO]
    /\ UNCHANGED <<directory, durable, inode>>

(* The machine stops.  Of the files that were not synchronized, those in   *)
(* "torn" have lost data.                                                  *)
StorePowerLoss(torn) ==
    /\ \A i \in torn : ~inode[i].synced
    /\ directory' = durable
    /\ inode' = [i \in Inode |-> IF i \in torn
                                   THEN [inode[i] EXCEPT !.whole = FALSE]
                                   ELSE inode[i]]
    /\ io' = [t \in Thread |-> IdleIO]
    /\ UNCHANGED durable

-----------------------------------------------------------------------------
(* State files are only written by FinalizeBuild(), which holds the lock   *)
(* of the Bazel Output Service: there is one writer at a time.             *)
Writing(t) == io[t].pc \in {"create", "writing", "sync", "rename", "abort"}

StoreNext ==
    \/ \E t \in Thread :
          \/ \E b \in BaseName :
                \/ (\A u \in Thread : ~Writing(u)) /\ WriteRemove(t, b)
                \/ CleanState(t, b)
          \/ \E i \in Inode : WriteCreate(t, i)
          \/ WriteCreateFails(t)
          \/ \E s \in State : FinalizeWrite(t, s)
          \/ FinalizeSync(t)
          \/ FinalizeRename(t)
          \/ WriterFails(t)
          \/ WriterClose(t)
          \/ CleanTemporary(t)
          \/ CleanTemporaryFails(t)
    \/ JournalCommit
    \/ StoreRestart
    \/ \E torn \in SUBSET Inode : StorePowerLoss(torn)

StoreSpec == StoreInit /\ [][StoreNext]_storeVars

-----------------------------------------------------------------------------
(* Type invariant.                                                         *)
StoreTypeOK ==
    /\ directory \in [Name -> Inode \union {NULL}]
    /\ durable \in [Name -> Inode \union {NULL}]
    /\ inode \in [Inode -> [state : State \union {NULL},
                            whole : BOOLEAN, synced : BOOLEAN]]
    /\ io \in [Thread -> IOState]

(* A state file is complete and synchronized whenever it exists, be it now *)
(* or after a power loss: no interleaving of saving, cleaning, failures    *)
(* and crashes leaves half of a state behind under the name of an output   *)
(* base.                                                                   *)
StateFilesWhole ==
    \A b \in BaseName :
        /\ directory[b] # NULL => /\ inode[directory[b]].whole
                                  /\ inode[directory[b]].synced
        /\ durable[b] # NULL => /\ inode[durable[b]].whole
                                /\ inode[durable[b]].synced
=============================================================================
