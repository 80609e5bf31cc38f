--------------------- MODULE PersistentOutputPath_proofs ---------------------
(***************************************************************************)
(* The state file store and persistent output paths, for any number of     *)
(* threads, output bases, artifacts and files, and any maximum age.        *)
(***************************************************************************)
EXTENDS PersistentOutputPath, TLAPS

-----------------------------------------------------------------------------
(* The store.  State files are never torn.                                 *)
(* No output base ID is the temporary name of another: "x.tmp" is not used *)
(* as an output base ID.                                                   *)
NoCollision == \A b \in BaseName : TemporaryName[b] \notin BaseName

HasFile(t) == io[t].pc \in {"writing", "sync", "rename"}

IOArguments ==
    \A t \in Thread :
        /\ io[t].pc # "idle" => io[t].base \in BaseName
        /\ HasFile(t) => io[t].ino \in Inode

OneWriter == \A t, u \in Thread : Writing(t) /\ Writing(u) => t = u

(* The temporary name refers to the file of the writer, if to any: Clean() *)
(* may remove it, but nobody else can have created it.  The file does not  *)
(* have the name of an output base yet, so writing to it is harmless.      *)
WriterOwnsFile ==
    \A t \in Thread : HasFile(t) =>
        /\ directory[Temporary(t)] \in {NULL, io[t].ino}
        /\ \A b \in BaseName : directory[b] # io[t].ino /\ durable[b] # io[t].ino

WriterProgress ==
    \A t \in Thread :
        /\ io[t].pc \in {"sync", "rename"} => inode[io[t].ino].whole
        /\ io[t].pc = "rename" => inode[io[t].ino].synced

SInv == /\ StoreTypeOK
        /\ IOArguments
        /\ OneWriter
        /\ WriterOwnsFile
        /\ WriterProgress
        /\ StateFilesWhole

LEMMA SInvInit == StoreInit => SInv
  <1> SUFFICES ASSUME StoreInit PROVE SInv
    OBVIOUS
  <1> USE DEF StoreInit
  <1>1. StoreTypeOK
    BY DEF StoreTypeOK, EmptyFile, IdleIO, IOState
  <1>2. \A t \in Thread : io[t].pc = "idle"
    BY DEF IdleIO
  <1>3. StateFilesWhole
    BY StoreAssumption DEF StateFilesWhole
  <1>4. QED
    BY <1>1, <1>2, <1>3
       DEF SInv, IOArguments, OneWriter, WriterOwnsFile, WriterProgress,
           HasFile, Writing

(* Threads that stop have nothing to lose, and removing names of files is  *)
(* always safe.                                                            *)
LEMMA RemovingNames ==
    ASSUME SInv, StoreTypeOK',
           \A t \in Thread : io'[t] = io[t] \/ (~Writing(t)' /\ ~HasFile(t)'),
           IOArguments',
           \A n \in Name : directory'[n] \in {NULL, directory[n]},
           UNCHANGED <<durable, inode>>
    PROVE  SInv'
  <1>1. \A t \in Thread : HasFile(t)' =>
           io'[t] = io[t] /\ HasFile(t) /\ io[t].base \in BaseName
             /\ io[t].ino \in Inode
    BY DEF SInv, IOArguments, HasFile, Writing
  <1>2. OneWriter'
    BY DEF SInv, OneWriter, Writing
  <1>3. \A b \in BaseName : b \in Name /\ TemporaryName[b] \in Name
    BY StoreAssumption
  <1>4. WriterOwnsFile'
    BY <1>1, <1>3, StoreAssumption DEF SInv, WriterOwnsFile, Temporary
  <1>5. WriterProgress'
    BY <1>1 DEF SInv, WriterProgress, HasFile
  <1>6. StateFilesWhole'
    BY <1>3, StoreAssumption DEF SInv, StateFilesWhole
  <1>7. QED
    BY <1>2, <1>4, <1>5, <1>6 DEF SInv

LEMMA SInvNext ==
    ASSUME NoCollision, SInv, [StoreNext]_storeVars
    PROVE  SInv'
  <1> USE StoreAssumption
  <1>0. \A b \in BaseName : b \in Name /\ TemporaryName[b] \in Name
    OBVIOUS
  <1>1. ASSUME NEW t \in Thread, NEW b \in BaseName,
               \A u \in Thread : ~Writing(u), WriteRemove(t, b)
        PROVE  SInv'
    <2>1. /\ io'[t].pc = "create" /\ io'[t].base = b
          /\ \A u \in Thread \ {t} : io'[u] = io[u]
          /\ directory' = [directory EXCEPT ![TemporaryName[b]] = NULL]
          /\ UNCHANGED <<durable, inode>>
      BY <1>1 DEF WriteRemove, SInv, StoreTypeOK
    <2>2. StoreTypeOK'
      BY <1>1 DEF WriteRemove, SInv, StoreTypeOK, IOState
    <2>3. \A u \in Thread : HasFile(u)' => FALSE
      BY <1>1, <2>1 DEF HasFile, Writing
    <2>4. OneWriter' /\ WriterOwnsFile' /\ IOArguments'
      BY <1>1, <2>1, <2>3 DEF OneWriter, WriterOwnsFile, Writing, SInv,
                              IOArguments
    <2>5. WriterProgress'
      BY <2>3 DEF WriterProgress, HasFile
    <2>6. StateFilesWhole'
      BY <2>1 DEF SInv, StateFilesWhole, StoreTypeOK
    <2>7. QED
      BY <2>2, <2>4, <2>5, <2>6 DEF SInv
  <1>2. ASSUME NEW t \in Thread, NEW i \in Inode, WriteCreate(t, i)
        PROVE  SInv'
    <2> DEFINE tmp == Temporary(t)
    <2>1. /\ io[t].pc = "create" /\ io[t].base \in BaseName
          /\ io'[t].pc = "writing" /\ io'[t].ino = i
          /\ io'[t].base = io[t].base
          /\ \A u \in Thread \ {t} : io'[u] = io[u]
          /\ directory' = [directory EXCEPT ![tmp] = i]
          /\ inode' = [inode EXCEPT ![i] = EmptyFile]
          /\ UNCHANGED durable
      BY <1>2 DEF WriteCreate, SInv, StoreTypeOK, IOState, IOArguments
    <2>2. /\ \A n \in Name : directory[n] # i /\ durable[n] # i
          /\ tmp \in Name /\ tmp \notin BaseName
      BY <1>2, <2>1 DEF WriteCreate, FreeInode, Temporary, NoCollision
    <2>3. StoreTypeOK'
      <3>1. io' \in [Thread -> IOState]
        <4>1. io' = [io EXCEPT ![t] = [io[t] EXCEPT !.pc = "writing",
                                                    !.ino = i]]
          BY <1>2 DEF WriteCreate, SInv, StoreTypeOK
        <4>2. io[t] \in IOState
          BY DEF SInv, StoreTypeOK
        <4>3. [io[t] EXCEPT !.pc = "writing", !.ino = i] \in IOState
          BY <4>2 DEF IOState
        <4>4. QED
          BY <4>1, <4>3 DEF SInv, StoreTypeOK
      <3>2. EmptyFile \in [state : State \union {NULL}, whole : BOOLEAN,
                           synced : BOOLEAN]
        BY DEF EmptyFile
      <3>3. inode' \in [Inode -> [state : State \union {NULL}, whole : BOOLEAN,
                                  synced : BOOLEAN]]
        BY <2>1, <3>2 DEF SInv, StoreTypeOK
      <3>4. directory' \in [Name -> Inode \union {NULL}]
        BY <2>1, <2>2 DEF SInv, StoreTypeOK
      <3>5. QED
        BY <2>1, <3>1, <3>3, <3>4 DEF SInv, StoreTypeOK
    <2>4. \A u \in Thread \ {t} : ~Writing(u) /\ ~Writing(u)' /\ ~HasFile(u)'
      BY <2>1 DEF SInv, OneWriter, Writing, HasFile
    <2>5. IOArguments' /\ OneWriter' /\ WriterProgress'
      BY <2>1, <2>4 DEF SInv, IOArguments, OneWriter, WriterProgress,
                        HasFile, Writing
    <2>6. WriterOwnsFile'
      <3> SUFFICES /\ directory'[tmp] \in {NULL, i}
                   /\ \A b \in BaseName : directory'[b] # i /\ durable[b] # i
        BY <2>1, <2>4 DEF WriterOwnsFile, Temporary
      <3>1. QED
        BY <2>1, <2>2 DEF SInv, StoreTypeOK
    <2>7. StateFilesWhole'
      BY <2>1, <2>2 DEF SInv, StateFilesWhole, StoreTypeOK
    <2>8. QED
      BY <2>3, <2>5, <2>6, <2>7 DEF SInv
  <1>3. ASSUME NEW t \in Thread, NEW s \in State, FinalizeWrite(t, s)
        PROVE  SInv'
    <2> DEFINE i == io[t].ino
    <2>1. /\ io[t].pc = "writing" /\ i \in Inode
          /\ io'[t].pc = "sync" /\ io'[t].ino = i
          /\ io'[t].base = io[t].base
          /\ \A u \in Thread \ {t} : io'[u] = io[u]
          /\ inode' = [inode EXCEPT ![i] = [state |-> s, whole |-> TRUE,
                                            synced |-> FALSE]]
          /\ UNCHANGED <<directory, durable>>
      BY <1>3 DEF FinalizeWrite, SInv, StoreTypeOK, IOState, IOArguments,
                  HasFile
    <2>2. StoreTypeOK'
      <3>1. io' \in [Thread -> IOState]
        BY <1>3 DEF FinalizeWrite, SInv, StoreTypeOK, IOState
      <3>2. QED
        BY <2>1, <3>1 DEF SInv, StoreTypeOK
    <2>3. \A u \in Thread \ {t} : ~Writing(u) /\ ~Writing(u)' /\ ~HasFile(u)'
      BY <2>1 DEF SInv, OneWriter, Writing, HasFile
    <2>4. IOArguments' /\ OneWriter' /\ WriterOwnsFile'
      BY <2>1, <2>3 DEF SInv, IOArguments, OneWriter, WriterOwnsFile,
                        Temporary, HasFile, Writing
    <2>5. WriterProgress'
      BY <2>1, <2>3 DEF SInv, StoreTypeOK, WriterProgress, HasFile
    <2>6. \A b \in BaseName : directory[b] # i /\ durable[b] # i
      BY <2>1 DEF SInv, WriterOwnsFile, HasFile
    <2>7. StateFilesWhole'
      BY <2>1, <2>6 DEF SInv, StateFilesWhole, StoreTypeOK
    <2>8. QED
      BY <2>2, <2>4, <2>5, <2>7 DEF SInv
  <1>4. ASSUME NEW t \in Thread, FinalizeSync(t)
        PROVE  SInv'
    <2> DEFINE i == io[t].ino
    <2>1. /\ io[t].pc = "sync" /\ i \in Inode
          /\ io'[t].pc = "rename" /\ io'[t].ino = i
          /\ io'[t].base = io[t].base
          /\ \A u \in Thread \ {t} : io'[u] = io[u]
          /\ inode' = [inode EXCEPT ![i].synced = TRUE]
          /\ UNCHANGED <<directory, durable>>
      BY <1>4 DEF FinalizeSync, SInv, StoreTypeOK, IOState, IOArguments,
                  HasFile
    <2>2. StoreTypeOK'
      <3>1. io' \in [Thread -> IOState]
        BY <1>4 DEF FinalizeSync, SInv, StoreTypeOK, IOState
      <3>2. QED
        BY <2>1, <3>1 DEF SInv, StoreTypeOK
    <2>3. \A u \in Thread \ {t} : ~Writing(u) /\ ~Writing(u)' /\ ~HasFile(u)'
      BY <2>1 DEF SInv, OneWriter, Writing, HasFile
    <2>4. IOArguments' /\ OneWriter' /\ WriterOwnsFile'
      BY <2>1, <2>3 DEF SInv, IOArguments, OneWriter, WriterOwnsFile,
                        Temporary, HasFile, Writing
    <2>5. WriterProgress'
      BY <2>1, <2>3 DEF SInv, StoreTypeOK, WriterProgress, HasFile
    <2>6. \A b \in BaseName : directory[b] # i /\ durable[b] # i
      BY <2>1 DEF SInv, WriterOwnsFile, HasFile
    <2>7. StateFilesWhole'
      BY <2>1, <2>6 DEF SInv, StateFilesWhole, StoreTypeOK
    <2>8. QED
      BY <2>2, <2>4, <2>5, <2>7 DEF SInv
  <1>5. ASSUME NEW t \in Thread, FinalizeRename(t)
        PROVE  SInv'
    <2> DEFINE i   == io[t].ino
               tmp == Temporary(t)
    <2>1. /\ io[t].pc = "rename" /\ i \in Inode
          /\ io[t].base \in BaseName
          /\ io'[t].pc = "idle"
          /\ \A u \in Thread \ {t} : io'[u] = io[u]
          /\ directory' = [directory EXCEPT ![io[t].base] = directory[tmp],
                                            ![tmp] = NULL]
          /\ UNCHANGED <<durable, inode>>
      BY <1>5 DEF FinalizeRename, IODone, IdleIO, SInv, StoreTypeOK,
                  IOArguments, HasFile
    <2>2. /\ directory[tmp] = i
          /\ inode[i].whole /\ inode[i].synced
          /\ tmp \in Name /\ tmp \notin BaseName
      BY <1>5, <2>1 DEF FinalizeRename, SInv, WriterOwnsFile, WriterProgress,
                        HasFile, Temporary, NoCollision
    <2>3. StoreTypeOK'
      <3>1. io' \in [Thread -> IOState]
        BY <1>5 DEF FinalizeRename, IODone, IdleIO, SInv, StoreTypeOK, IOState
      <3>2. QED
        BY <2>1, <2>2, <3>1 DEF SInv, StoreTypeOK
    <2>4. \A u \in Thread : ~Writing(u)' /\ ~HasFile(u)'
      BY <2>1 DEF SInv, OneWriter, Writing, HasFile
    <2>5. IOArguments' /\ OneWriter' /\ WriterOwnsFile' /\ WriterProgress'
      BY <2>1, <2>4 DEF SInv, IOArguments, OneWriter, WriterOwnsFile,
                        WriterProgress, HasFile
    <2>6. StateFilesWhole'
      BY <2>1, <2>2 DEF SInv, StateFilesWhole, StoreTypeOK
    <2>7. QED
      BY <2>3, <2>5, <2>6 DEF SInv
  <1>6. ASSUME NEW t \in Thread, WriterFails(t)
        PROVE  SInv'
    <2>1. /\ io[t].pc \in {"writing", "sync", "rename"}
          /\ io'[t].pc = "abort" /\ io'[t].base = io[t].base
          /\ \A u \in Thread \ {t} : io'[u] = io[u]
          /\ UNCHANGED <<directory, durable, inode>>
      BY <1>6 DEF WriterFails, SInv, StoreTypeOK, IOState
    <2>2. StoreTypeOK'
      BY <1>6 DEF WriterFails, SInv, StoreTypeOK, IOState
    <2>3. \A u \in Thread \ {t} : ~Writing(u) /\ ~Writing(u)' /\ ~HasFile(u)'
      BY <2>1 DEF SInv, OneWriter, Writing, HasFile
    <2>4. IOArguments' /\ OneWriter' /\ WriterOwnsFile' /\ WriterProgress'
      BY <2>1, <2>3 DEF SInv, IOArguments, OneWriter, WriterOwnsFile,
                        WriterProgress, HasFile, Writing
    <2>5. StateFilesWhole'
      BY <2>1 DEF SInv, StateFilesWhole
    <2>6. QED
      BY <2>2, <2>4, <2>5 DEF SInv
  <1>7. ASSUME NEW t \in Thread,
               \/ WriteCreateFails(t) \/ WriterClose(t)
               \/ CleanTemporary(t) \/ CleanTemporaryFails(t)
               \/ \E b \in BaseName : CleanState(t, b)
        PROVE  SInv'
    <2>1. /\ \A u \in Thread \ {t} : io'[u] = io[u]
          /\ \/ io'[t].pc = "idle"
             \/ io'[t].pc = "cleanTemporary" /\ io'[t].base \in BaseName
          /\ \A n \in Name : directory'[n] \in {NULL, directory[n]}
          /\ UNCHANGED <<durable, inode>>
      <3>1. ASSUME NEW b \in BaseName, CleanState(t, b)
            PROVE  /\ \A u \in Thread \ {t} : io'[u] = io[u]
                   /\ io'[t].pc = "cleanTemporary" /\ io'[t].base \in BaseName
                   /\ \A n \in Name : directory'[n] \in {NULL, directory[n]}
                   /\ UNCHANGED <<durable, inode>>
        BY <3>1 DEF CleanState, SInv, StoreTypeOK
      <3>2. CASE \/ WriteCreateFails(t) \/ WriterClose(t)
                 \/ CleanTemporary(t) \/ CleanTemporaryFails(t)
        BY <3>2 DEF WriteCreateFails, WriterClose, CleanTemporary,
                    CleanTemporaryFails, IODone, IdleIO, SInv, StoreTypeOK
      <3>3. QED
        BY <1>7, <3>1, <3>2, Zenon
    <2>2. StoreTypeOK'
      <3>1. io' \in [Thread -> IOState]
        BY <1>7 DEF WriteCreateFails, WriterClose, CleanTemporary,
                    CleanTemporaryFails, CleanState, IODone, IdleIO, SInv,
                    StoreTypeOK, IOState
      <3>2. directory' \in [Name -> Inode \union {NULL}]
        BY <1>7 DEF WriteCreateFails, WriterClose, CleanTemporary,
                    CleanTemporaryFails, CleanState, SInv, StoreTypeOK
      <3>3. UNCHANGED <<durable, inode>>
        BY <2>1
      <3>4. QED
        BY <3>1, <3>2, <3>3 DEF SInv, StoreTypeOK
    <2>3. \A u \in Thread : io'[u] = io[u] \/ (~Writing(u)' /\ ~HasFile(u)')
      BY <2>1 DEF Writing, HasFile
    <2>4. IOArguments'
      BY <2>1 DEF SInv, IOArguments, HasFile
    <2>5. QED
      BY <2>1, <2>2, <2>3, <2>4, RemovingNames
  <1>8. CASE JournalCommit
    <2>1. durable' = directory /\ UNCHANGED <<directory, inode, io>>
      BY <1>8 DEF JournalCommit
    <2>2. StoreTypeOK' /\ IOArguments' /\ OneWriter'
      BY <2>1 DEF SInv, StoreTypeOK, IOArguments, OneWriter, HasFile, Writing
    <2>3. WriterOwnsFile' /\ WriterProgress' /\ StateFilesWhole'
      BY <2>1 DEF SInv, WriterOwnsFile, WriterProgress, StateFilesWhole,
                  Temporary, HasFile
    <2>4. QED
      BY <2>2, <2>3 DEF SInv
  <1>9. ASSUME StoreRestart \/ \E torn \in SUBSET Inode : StorePowerLoss(torn)
        PROVE  SInv'
    <2>1. io' = [t \in Thread |-> IdleIO] /\ UNCHANGED durable
      BY <1>9 DEF StoreRestart, StorePowerLoss
    <2>2. \A u \in Thread : io'[u].pc = "idle" /\ io'[u] \in IOState
      BY <2>1 DEF IdleIO, IOState
    <2>3. IOArguments' /\ OneWriter' /\ WriterOwnsFile' /\ WriterProgress'
      BY <2>2 DEF IOArguments, OneWriter, WriterOwnsFile, WriterProgress,
                  HasFile, Writing
    <2>4. CASE StoreRestart
      <3>1. StoreTypeOK' /\ StateFilesWhole'
        BY <2>1, <2>2, <2>4 DEF StoreRestart, SInv, StoreTypeOK,
                                StateFilesWhole
      <3>2. QED
        BY <2>3, <3>1 DEF SInv
    <2>5. ASSUME NEW torn \in SUBSET Inode, StorePowerLoss(torn)
          PROVE  SInv'
      <3>1. /\ directory' = durable
            /\ \A i \in Inode : inode[i].synced => inode'[i] = inode[i]
        BY <2>5 DEF StorePowerLoss
      <3>2. StoreTypeOK'
        <4>1. \A i \in Inode : inode'[i] \in [state : State \union {NULL},
                                   whole : BOOLEAN, synced : BOOLEAN]
          BY <2>5 DEF StorePowerLoss, SInv, StoreTypeOK
        <4>2. inode' = [i \in Inode |-> inode'[i]]
          BY <2>5 DEF StorePowerLoss
        <4>3. QED
          BY <2>1, <2>2, <3>1, <4>1, <4>2 DEF SInv, StoreTypeOK
      <3>3. StateFilesWhole'
        BY <2>1, <3>1 DEF SInv, StoreTypeOK, StateFilesWhole
      <3>4. QED
        BY <2>3, <3>2, <3>3 DEF SInv
    <2>6. QED
      BY <1>9, <2>4, <2>5
  <1>10. CASE UNCHANGED storeVars
    BY <1>10 DEF storeVars, SInv, StoreTypeOK, IOArguments, OneWriter,
                 WriterOwnsFile, WriterProgress, StateFilesWhole, Temporary,
                 HasFile, Writing
  <1>11. QED
    BY <1>1, <1>2, <1>3, <1>4, <1>5, <1>6, <1>7, <1>8, <1>9, <1>10
       DEF StoreNext

(* Types are kept even if names collide.                                   *)
LEMMA StoreTypeNext ==
    ASSUME StoreTypeOK, IOArguments, [StoreNext]_storeVars
    PROVE  StoreTypeOK' /\ IOArguments'
  <1> USE StoreAssumption
  <1> DEFINE File == [state : State \union {NULL}, whole : BOOLEAN,
                      synced : BOOLEAN]
  <1>0. /\ \A b \in BaseName : b \in Name /\ TemporaryName[b] \in Name
        /\ inode \in [Inode -> File]
    BY DEF StoreTypeOK
  <1>1. ASSUME NEW t \in Thread, NEW io2 \in IOState,
               io' = [io EXCEPT ![t] = io2],
               io2.pc # "idle" => io2.base \in BaseName,
               io2.pc \in {"writing", "sync", "rename"} => io2.ino \in Inode
        PROVE  io' \in [Thread -> IOState] /\ IOArguments'
    BY <1>1 DEF StoreTypeOK, IOArguments, HasFile
  <1>2. ASSUME NEW t \in Thread, NEW b \in BaseName,
               WriteRemove(t, b) \/ CleanState(t, b)
        PROVE  StoreTypeOK' /\ IOArguments'
    <2>1. /\ [pc |-> "create", base |-> b, ino |-> NULL] \in IOState
          /\ [pc |-> "cleanTemporary", base |-> b, ino |-> NULL] \in IOState
      BY DEF IOState
    <2>2. io' \in [Thread -> IOState] /\ IOArguments'
      BY <1>1, <1>2, <2>1 DEF WriteRemove, CleanState
    <2>3. QED
      BY <1>2, <2>2 DEF WriteRemove, CleanState, StoreTypeOK
  <1>3. ASSUME NEW t \in Thread, NEW i \in Inode, WriteCreate(t, i)
        PROVE  StoreTypeOK' /\ IOArguments'
    <2> DEFINE io2 == [io[t] EXCEPT !.pc = "writing", !.ino = i]
    <2>1. io[t] \in IOState /\ io[t].base \in BaseName
      BY <1>3 DEF WriteCreate, StoreTypeOK, IOArguments
    <2>2. /\ io2 \in IOState /\ io2.base \in BaseName /\ io2.ino \in Inode
          /\ io' = [io EXCEPT ![t] = io2]
      BY <1>3, <2>1 DEF WriteCreate, StoreTypeOK, IOState
    <2> HIDE DEF io2
    <2>3. io' \in [Thread -> IOState] /\ IOArguments'
      BY <1>1, <2>2
    <2>4. EmptyFile \in File
      BY DEF EmptyFile
    <2> HIDE DEF File
    <2>5. inode' \in [Inode -> File]
      BY <1>0, <1>3, <2>4 DEF WriteCreate
    <2>6. directory' \in [Name -> Inode \union {NULL}]
      BY <1>0, <1>3, <2>1 DEF WriteCreate, Temporary, StoreTypeOK
    <2>7. durable' = durable
      BY <1>3 DEF WriteCreate
    <2>8. QED
      BY <2>3, <2>5, <2>6, <2>7 DEF StoreTypeOK, File
  <1>4. ASSUME NEW t \in Thread, NEW s \in State, FinalizeWrite(t, s)
        PROVE  StoreTypeOK' /\ IOArguments'
    <2> DEFINE io2 == [io[t] EXCEPT !.pc = "sync"]
               file == [state |-> s, whole |-> TRUE, synced |-> FALSE]
    <2>1. /\ io[t] \in IOState /\ io[t].base \in BaseName
          /\ io[t].ino \in Inode
      BY <1>4 DEF FinalizeWrite, StoreTypeOK, IOArguments, HasFile
    <2>2. /\ io2 \in IOState /\ io2.base \in BaseName /\ io2.ino \in Inode
          /\ io' = [io EXCEPT ![t] = io2]
      BY <1>4, <2>1 DEF FinalizeWrite, StoreTypeOK, IOState
    <2>3. file \in File
      OBVIOUS
    <2> HIDE DEF io2, File, file
    <2>4. io' \in [Thread -> IOState] /\ IOArguments'
      BY <1>1, <2>2
    <2>5. inode' \in [Inode -> File]
      BY <1>0, <1>4, <2>1, <2>3 DEF FinalizeWrite, file
    <2>6. UNCHANGED <<directory, durable>>
      BY <1>4 DEF FinalizeWrite
    <2>7. QED
      BY <2>4, <2>5, <2>6 DEF StoreTypeOK, File
  <1>5. ASSUME NEW t \in Thread, FinalizeSync(t)
        PROVE  StoreTypeOK' /\ IOArguments'
    <2> DEFINE io2 == [io[t] EXCEPT !.pc = "rename"]
               file == [inode[io[t].ino] EXCEPT !.synced = TRUE]
    <2>1. /\ io[t] \in IOState /\ io[t].base \in BaseName
          /\ io[t].ino \in Inode
      BY <1>5 DEF FinalizeSync, StoreTypeOK, IOArguments, HasFile
    <2>2. /\ io2 \in IOState /\ io2.base \in BaseName /\ io2.ino \in Inode
          /\ io' = [io EXCEPT ![t] = io2]
      BY <1>5, <2>1 DEF FinalizeSync, StoreTypeOK, IOState
    <2>3. file \in File
      BY <1>0, <2>1
    <2>4. inode' = [inode EXCEPT ![io[t].ino] = file]
      BY <1>0, <1>5, <2>1 DEF FinalizeSync
    <2> HIDE DEF io2, File, file
    <2>5. io' \in [Thread -> IOState] /\ IOArguments'
      BY <1>1, <2>2
    <2>6. inode' \in [Inode -> File]
      BY <1>0, <2>1, <2>3, <2>4
    <2>7. UNCHANGED <<directory, durable>>
      BY <1>5 DEF FinalizeSync
    <2>8. QED
      BY <2>5, <2>6, <2>7 DEF StoreTypeOK, File
  <1>6. ASSUME NEW t \in Thread, WriterFails(t)
        PROVE  StoreTypeOK' /\ IOArguments'
    <2> DEFINE io2 == [io[t] EXCEPT !.pc = "abort"]
    <2>1. io[t] \in IOState /\ io[t].base \in BaseName
      BY <1>6 DEF WriterFails, StoreTypeOK, IOArguments
    <2>2. /\ io2 \in IOState /\ io2.base \in BaseName /\ io2.pc = "abort"
          /\ io' = [io EXCEPT ![t] = io2]
      BY <1>6, <2>1 DEF WriterFails, StoreTypeOK, IOState
    <2> HIDE DEF io2
    <2>3. io' \in [Thread -> IOState] /\ IOArguments'
      BY <1>1, <2>2
    <2>4. QED
      BY <1>6, <2>3 DEF WriterFails, StoreTypeOK
  <1>7. ASSUME NEW t \in Thread,
               \/ WriteCreateFails(t) \/ WriterClose(t) \/ FinalizeRename(t)
               \/ CleanTemporary(t) \/ CleanTemporaryFails(t)
        PROVE  StoreTypeOK' /\ IOArguments'
    <2>1. IdleIO \in IOState /\ IdleIO.pc = "idle"
      BY DEF IdleIO, IOState
    <2>2. io' = [io EXCEPT ![t] = IdleIO] /\ io[t].base \in BaseName
          /\ UNCHANGED <<durable, inode>>
      BY <1>7 DEF WriteCreateFails, WriterClose, FinalizeRename,
                  CleanTemporary, CleanTemporaryFails, IODone, IOArguments
    <2>3. io' \in [Thread -> IOState] /\ IOArguments'
      BY <1>1, <2>1, <2>2
    <2>4. directory' \in [Name -> Inode \union {NULL}]
      BY <1>0, <1>7, <2>2 DEF WriteCreateFails, WriterClose, FinalizeRename,
                  CleanTemporary, CleanTemporaryFails, StoreTypeOK, Temporary
    <2>5. QED
      BY <2>2, <2>3, <2>4 DEF StoreTypeOK
  <1>8. CASE JournalCommit \/ UNCHANGED storeVars
    BY <1>8 DEF JournalCommit, storeVars, StoreTypeOK, IOArguments, HasFile
  <1>9. ASSUME StoreRestart \/ \E torn \in SUBSET Inode : StorePowerLoss(torn)
        PROVE  StoreTypeOK' /\ IOArguments'
    <2>1. io' = [t \in Thread |-> IdleIO] /\ UNCHANGED durable
          /\ directory' \in {directory, durable}
      BY <1>9 DEF StoreRestart, StorePowerLoss
    <2>2. /\ io' \in [Thread -> IOState]
          /\ \A t \in Thread : io'[t].pc = "idle"
      BY <2>1 DEF IdleIO, IOState
    <2>3. inode' \in [Inode -> File]
      <3>1. CASE StoreRestart
        BY <1>0, <3>1 DEF StoreRestart
      <3>2. ASSUME NEW torn \in SUBSET Inode, StorePowerLoss(torn)
            PROVE  inode' \in [Inode -> File]
        <4>1. \A i \in Inode : [inode[i] EXCEPT !.whole = FALSE] \in File
          BY <1>0
        <4>2. QED
          BY <1>0, <3>2, <4>1 DEF StorePowerLoss
      <3>3. QED
        BY <1>9, <3>1, <3>2
    <2>4. QED
      BY <2>1, <2>2, <2>3 DEF StoreTypeOK, IOArguments, HasFile
  <1>10. QED
    BY <1>2, <1>3, <1>4, <1>5, <1>6, <1>7, <1>8, <1>9, Zenon DEF StoreNext

(* Whatever is saved and cleaned, and whatever fails or crashes meanwhile, *)
(* no state file is ever incomplete, unless an output base ID collides     *)
(* with the temporary name of another.                                     *)
THEOREM StateFilesCorrect ==
    NoCollision => (StoreSpec => [](StoreTypeOK /\ StateFilesWhole))
  <1> SUFFICES ASSUME NoCollision
               PROVE  StoreSpec => [](StoreTypeOK /\ StateFilesWhole)
    OBVIOUS
  <1>1. StoreInit => SInv
    BY SInvInit
  <1>2. SInv /\ [StoreNext]_storeVars => SInv'
    BY SInvNext
  <1>3. SInv => StoreTypeOK /\ StateFilesWhole
    BY DEF SInv
  <1>4. QED
    BY <1>1, <1>2, <1>3, PTL DEF StoreSpec

-----------------------------------------------------------------------------
(* Persistent output paths.                                                *)
PC == {"idle", "filter", "stage", "save", "removing", "cleaning",
       "factoryClean", "unregister"}

CallState ==
    [pc   : PC,
     base : BaseName \union {NULL},
     path : PathID \union {NULL},
     todo : SUBSET Artifact,
     data : SUBSET Items]

ServiceTypeOK ==
    /\ now \in Time
    /\ lock \in Thread \union {NULL}
    /\ path \in [BaseName -> PathID \union {NULL}]
    /\ running \in SUBSET BaseName
    /\ contents \in [PathID -> SUBSET Items]
    /\ created \in [PathID -> Time]
    /\ call \in [Thread -> CallState]

(* Only a call that finalizes a build writes to the store, and it holds    *)
(* the lock.                                                               *)
CallOK(t) ==
    /\ At(t, "idle") => call[t] = IdleCall
    /\ ~At(t, "idle") => call[t].base \in BaseName
    /\ ~At(t, "idle") /\ ~At(t, "factoryClean") => call[t].path \in PathID
    /\ At(t, "save") => lock = t
    /\ Writing(t) => At(t, "save")
    /\ io[t].pc = "cleanTemporary" => At(t, "cleaning") \/ At(t, "factoryClean")
    /\ io[t].pc # "idle" => io[t].base = call[t].base

ServiceInv ==
    /\ StoreTypeOK /\ IOArguments
    /\ ServiceTypeOK
    /\ \A t \in Thread : CallOK(t)
    /\ \A b \in running : path[b] # NULL

-----------------------------------------------------------------------------
(* What the operators for calls do.                                        *)
OtherCallsKept(t) == \A u \in Thread : u # t => call'[u] = call[u]

LEMMA BeginCall ==
    ASSUME ServiceTypeOK, NEW t \in Thread, NEW b \in BaseName,
           NEW p \in PathID \union {NULL}, NEW pc \in PC, Begin(t, b, p, pc)
    PROVE  /\ call' \in [Thread -> CallState]
           /\ call'[t] = [pc |-> pc, base |-> b, path |-> p,
                          todo |-> {}, data |-> {}]
           /\ OtherCallsKept(t)
           /\ lock = NULL /\ At(t, "idle")
  <1> DEFINE c == [pc |-> pc, base |-> b, path |-> p, todo |-> {}, data |-> {}]
  <1>1. c \in CallState
    BY DEF CallState
  <1>2. call' = [call EXCEPT ![t] = c]
    BY DEF Begin
  <1>3. call \in [Thread -> CallState]
    BY DEF ServiceTypeOK
  <1> HIDE DEF c
  <1>4. QED
    BY <1>1, <1>2, <1>3 DEF Begin, OtherCallsKept, c

LEMMA ReturnCall ==
    ASSUME ServiceTypeOK, NEW t \in Thread, Return(t)
    PROVE  /\ call' \in [Thread -> CallState]
           /\ call'[t] = IdleCall
           /\ OtherCallsKept(t)
  <1>1. IdleCall \in CallState
    BY DEF CallState, IdleCall, PC
  <1>2. call \in [Thread -> CallState]
    BY DEF ServiceTypeOK
  <1>3. QED
    BY <1>1, <1>2 DEF Return, OtherCallsKept

LEMMA GotoCall ==
    ASSUME ServiceTypeOK, NEW t \in Thread, NEW pc \in PC, Goto(t, pc)
    PROVE  /\ call' \in [Thread -> CallState]
           /\ call'[t].pc = pc
           /\ call'[t].base = call[t].base /\ call'[t].path = call[t].path
           /\ OtherCallsKept(t)
  <1> DEFINE c == [call[t] EXCEPT !.pc = pc]
  <1>1. call \in [Thread -> CallState] /\ call[t] \in CallState
    BY DEF ServiceTypeOK
  <1>2. /\ c \in CallState /\ c.pc = pc
        /\ c.base = call[t].base /\ c.path = call[t].path
    BY <1>1 DEF CallState
  <1>3. call' = [call EXCEPT ![t] = c]
    BY <1>1 DEF Goto
  <1> HIDE DEF c
  <1>4. QED
    BY <1>1, <1>2, <1>3 DEF OtherCallsKept

(* A step of one thread cannot disturb the calls of the others.            *)
LEMMA OneThread ==
    ASSUME ServiceInv, NEW t \in Thread, OtherCallsKept(t),
           \A u \in Thread : u # t => io'[u] = io[u],
           lock' = lock \/ lock \in {NULL, t},
           CallOK(t)'
    PROVE  \A u \in Thread : CallOK(u)'
  <1> SUFFICES ASSUME NEW u \in Thread, u # t PROVE CallOK(u)'
    OBVIOUS
  <1>1. call'[u] = call[u] /\ io'[u] = io[u] /\ CallOK(u)
    BY DEF OtherCallsKept, ServiceInv
  <1>2. At(u, "save") => lock' = u
    BY <1>1, StoreAssumption DEF CallOK
  <1>3. QED
    BY <1>1, <1>2 DEF CallOK, At, Writing

-----------------------------------------------------------------------------
(* FinalizeBuild() holds the lock while it writes, so that every step is a *)
(* step of the store or leaves it alone.                                   *)
LEMMA NobodyWrites ==
    ASSUME ServiceInv, lock = NULL
    PROVE  \A u \in Thread : ~Writing(u)
  BY StoreAssumption DEF ServiceInv, CallOK

LEMMA StoreStep ==
    ASSUME ServiceInv, [Next]_vars
    PROVE  [StoreNext]_storeVars
  <1>1. ASSUME NEW t \in Thread, NEW b \in BaseName, FinalizeBuildBegin(t, b)
        PROVE  [StoreNext]_storeVars
    <2>1. \A u \in Thread : ~Writing(u)
      BY <1>1, NobodyWrites DEF FinalizeBuildBegin, Begin
    <2>2. CASE WriteRemove(t, b)
      BY <2>1, <2>2 DEF StoreNext
    <2>3. QED
      BY <1>1, <2>2 DEF FinalizeBuildBegin
  <1>2. ASSUME NEW t \in Thread, NEW i \in Inode, SaveCreate(t, i)
        PROVE  [StoreNext]_storeVars
    BY <1>2 DEF SaveCreate, StoreNext
  <1>3. ASSUME NEW t \in Thread, SaveRootDirectory(t)
        PROVE  [StoreNext]_storeVars
    <2> DEFINE s == [contents |-> call[t].data,
                     created |-> created[call[t].path]]
    <2>1. call[t] \in CallState /\ call[t].path \in PathID
      BY <1>3 DEF SaveRootDirectory, ServiceInv, ServiceTypeOK, CallOK, At
    <2>2. call[t].data \in SUBSET Items /\ created[call[t].path] \in Time
      BY <2>1 DEF CallState, ServiceInv, ServiceTypeOK
    <2>3. s \in State
      BY <2>2, PersistencyAssumption DEF RootDirectory
    <2>4. FinalizeWrite(t, s)
      BY <1>3 DEF SaveRootDirectory
    <2> HIDE DEF s
    <2>5. QED
      BY <2>3, <2>4 DEF StoreNext
  <1>4. ASSUME NEW t \in Thread, SaveStep(t) PROVE [StoreNext]_storeVars
    BY <1>4 DEF SaveStep, StoreNext
  <1>5. ASSUME NEW t \in Thread, SaveRename(t) PROVE [StoreNext]_storeVars
    BY <1>5 DEF SaveRename, StoreNext
  <1>6. ASSUME NEW t \in Thread, StoreClean(t) PROVE [StoreNext]_storeVars
    <2>1. call[t].base \in BaseName
      BY <1>6 DEF StoreClean, ServiceInv, CallOK, At
    <2>2. QED
      BY <1>6, <2>1 DEF StoreClean, StoreNext
  <1>7. ASSUME NEW t \in Thread, StoreCleanEnd(t) \/ CleanFails(t)
        PROVE  [StoreNext]_storeVars
    BY <1>7 DEF StoreCleanEnd, CleanFails, StoreNext
  <1>8. CASE Restart \/ Commit \/ (\E torn \in SUBSET Inode : PowerLoss(torn))
    BY <1>8 DEF Restart, Commit, PowerLoss, StoreNext
  <1>9. ASSUME NEW t \in Thread, NEW b \in BaseName,
               \/ \E p \in PathID, restored \in SUBSET Items :
                     StartBuildInitial(t, b, p, restored)
               \/ StartBuildExisting(t, b)
               \/ StageArtifactsLookup(t, b)
               \/ CleanLookup(t, b)
        PROVE  UNCHANGED storeVars
    BY <1>9 DEF StartBuildInitial, StartBuildExisting, StageArtifactsLookup,
                CleanLookup
  <1>10. ASSUME NEW t \in Thread,
                \/ \E missing \in SUBSET Items :
                      FilterMissingChildren(t, missing)
                \/ \E a \in Artifact : \/ StageSingleArtifact(t, a)
                                       \/ SaveDirectory(t, a)
                \/ StageSingleArtifactFails(t)
                \/ FinalizeBuildEnd(t)
                \/ RemoveAllChildren(t)
                \/ CleanUnregister(t)
         PROVE  UNCHANGED storeVars
    BY <1>10, Zenon
       DEF FilterMissingChildren, StageSingleArtifact, SaveDirectory,
           StageSingleArtifactFails, FinalizeBuildEnd, RemoveAllChildren,
           CleanUnregister
  <1>11. CASE Tick \/ UNCHANGED vars
    BY <1>11 DEF Tick, vars
  <1>12. QED
    BY <1>1, <1>2, <1>3, <1>4, <1>5, <1>6, <1>7, <1>8, <1>9, <1>10, <1>11,
       Zenon
       DEF Next

-----------------------------------------------------------------------------
LEMMA ReadType ==
    ASSUME StoreTypeOK, NEW b \in BaseName
    PROVE  /\ Read(b) \in RootDirectory \union {NULL}
           /\ ReadRecent(b) \in {Read(b), NULL}
  BY StoreAssumption, PersistencyAssumption DEF StoreTypeOK, Read, ReadRecent

LEMMA FileIdle ==
    ASSUME ServiceInv, NEW t \in Thread,
           ~At(t, "save"), ~At(t, "cleaning"), ~At(t, "factoryClean")
    PROVE  io[t].pc = "idle"
  <1>1. io[t] \in IOState /\ CallOK(t)
    BY DEF ServiceInv, StoreTypeOK
  <1>2. QED
    BY <1>1 DEF IOState, CallOK, Writing

ServiceStep ==
    /\ ServiceTypeOK'
    /\ \A u \in Thread : CallOK(u)'
    /\ \A b \in running' : path'[b] # NULL

(* A call begins, and nothing is written yet.                              *)
LEMMA BeginStep ==
    ASSUME ServiceInv, NEW t \in Thread, NEW b \in BaseName,
           NEW p \in PathID \union {NULL}, NEW pc \in PC \ {"idle", "save"},
           Begin(t, b, p, pc), p = NULL => pc = "factoryClean",
           UNCHANGED <<lock, io>>
    PROVE  call' \in [Thread -> CallState] /\ \A u \in Thread : CallOK(u)'
  <1>0. ServiceTypeOK
    BY DEF ServiceInv
  <1>1. /\ call' \in [Thread -> CallState]
        /\ call'[t] = [pc |-> pc, base |-> b, path |-> p,
                       todo |-> {}, data |-> {}]
        /\ OtherCallsKept(t) /\ At(t, "idle")
    BY <1>0, BeginCall
  <1>2. io[t].pc = "idle"
    BY <1>1, FileIdle DEF At
  <1>3. CallOK(t)'
    BY <1>1, <1>2 DEF CallOK, At, Writing
  <1>4. QED
    BY <1>1, <1>3, OneThread

(* A call ends that is not writing.                                        *)
LEMMA ReturnStep ==
    ASSUME ServiceInv, NEW t \in Thread, Return(t),
           \A u \in Thread : u # t => io'[u] = io[u],
           io'[t].pc = "idle", lock' = lock \/ lock = t
    PROVE  call' \in [Thread -> CallState] /\ \A u \in Thread : CallOK(u)'
  <1>0. ServiceTypeOK
    BY DEF ServiceInv
  <1>1. call' \in [Thread -> CallState] /\ call'[t] = IdleCall /\ OtherCallsKept(t)
    BY <1>0, ReturnCall
  <1>2. CallOK(t)'
    BY <1>1 DEF CallOK, At, Writing, IdleCall
  <1>3. QED
    BY <1>1, <1>2, OneThread

LEMMA StartStep ==
    ASSUME ServiceInv, NEW t \in Thread, NEW b \in BaseName,
           \/ \E p \in PathID, restored \in SUBSET Items :
                 StartBuildInitial(t, b, p, restored)
           \/ StartBuildExisting(t, b)
           \/ StageArtifactsLookup(t, b)
           \/ CleanLookup(t, b)
    PROVE  ServiceStep
  <1>0. ServiceTypeOK /\ StoreTypeOK /\ \A c \in running : path[c] # NULL
    BY DEF ServiceInv
  <1>1. ASSUME NEW p \in PathID, NEW restored \in SUBSET Items,
               StartBuildInitial(t, b, p, restored)
        PROVE  ServiceStep
    <2>1. /\ Begin(t, b, p, "filter")
          /\ path' = [path EXCEPT ![b] = p]
          /\ contents' = [contents EXCEPT ![p] = restored]
          /\ running' = running \union {b}
          /\ UNCHANGED <<now, lock, io>>
      BY <1>1 DEF StartBuildInitial, storeVars
    <2>2. call' \in [Thread -> CallState] /\ \A u \in Thread : CallOK(u)'
      BY <2>1, BeginStep, PersistencyAssumption DEF PC
    <2>3. created' \in [PathID -> Time]
      <3> DEFINE root == ReadRecent(b)
                 at == IF root = NULL THEN now ELSE root.created
      <3>1. created' = [created EXCEPT ![p] = at]
        BY <1>1 DEF StartBuildInitial
      <3>2. root \in RootDirectory \union {NULL}
        BY <1>0, ReadType
      <3> HIDE DEF root
      <3>3. at \in Time
        BY <1>0, <3>2 DEF RootDirectory, ServiceTypeOK
      <3> HIDE DEF at
      <3>4. QED
        BY <1>0, <3>1, <3>3 DEF ServiceTypeOK
    <2>4. path'[b] # NULL /\ \A c \in BaseName : c # b => path'[c] = path[c]
      BY <1>0, <2>1, PersistencyAssumption DEF ServiceTypeOK
    <2>5. ServiceTypeOK'
      BY <1>0, <2>1, <2>2, <2>3 DEF ServiceTypeOK
    <2>6. \A c \in running' : path'[c] # NULL
      BY <1>0, <2>1, <2>4 DEF ServiceTypeOK
    <2>7. QED
      BY <2>2, <2>5, <2>6 DEF ServiceStep
  <1>2. CASE StartBuildExisting(t, b)
    <2>1. /\ Begin(t, b, path[b], "filter") /\ path[b] # NULL
          /\ running' = running \union {b}
          /\ UNCHANGED <<now, lock, path, contents, created, io>>
      BY <1>2 DEF StartBuildExisting, storeVars
    <2>2. path[b] \in PathID \union {NULL}
      BY <1>0 DEF ServiceTypeOK
    <2>3. call' \in [Thread -> CallState] /\ \A u \in Thread : CallOK(u)'
      BY <2>1, <2>2, BeginStep DEF PC
    <2>4. QED
      BY <1>0, <2>1, <2>3 DEF ServiceStep, ServiceTypeOK
  <1>3. CASE StageArtifactsLookup(t, b)
    <2>1. /\ Begin(t, b, path[b], "stage") /\ path[b] # NULL
          /\ UNCHANGED <<now, lock, path, running, contents, created, io>>
      BY <1>0, <1>3 DEF StageArtifactsLookup, storeVars, serviceVars
    <2>2. path[b] \in PathID \union {NULL}
      BY <1>0 DEF ServiceTypeOK
    <2>3. call' \in [Thread -> CallState] /\ \A u \in Thread : CallOK(u)'
      BY <2>1, <2>2, BeginStep DEF PC
    <2>4. QED
      BY <1>0, <2>1, <2>3 DEF ServiceStep, ServiceTypeOK
  <1>4. CASE CleanLookup(t, b)
    <2> DEFINE pc == IF path[b] = NULL THEN "factoryClean" ELSE "removing"
    <2>1. /\ Begin(t, b, path[b], pc)
          /\ UNCHANGED <<now, lock, path, running, contents, created, io>>
      BY <1>4 DEF CleanLookup, storeVars, serviceVars
    <2>2. path[b] \in PathID \union {NULL}
      BY <1>0 DEF ServiceTypeOK
    <2>3. pc \in PC \ {"idle", "save"} /\ (path[b] = NULL => pc = "factoryClean")
      BY DEF PC
    <2> HIDE DEF pc
    <2>4. call' \in [Thread -> CallState] /\ \A u \in Thread : CallOK(u)'
      BY <2>1, <2>2, <2>3, BeginStep
    <2>5. QED
      BY <1>0, <2>1, <2>4 DEF ServiceStep, ServiceTypeOK
  <1>5. QED
    BY <1>1, <1>2, <1>3, <1>4

LEMMA NamedSubset == \A S, a : Named(S, a) \subseteq S
  BY DEF Named

LEMMA ContentsStep ==
    ASSUME ServiceInv, NEW t \in Thread,
           \/ \E missing \in SUBSET Items : FilterMissingChildren(t, missing)
           \/ \E a \in Artifact : StageSingleArtifact(t, a)
           \/ StageSingleArtifactFails(t)
           \/ RemoveAllChildren(t)
    PROVE  ServiceStep
  <1>0. /\ ServiceTypeOK /\ StoreTypeOK /\ CallOK(t)
        /\ \A c \in running : path[c] # NULL
    BY DEF ServiceInv
  <1>1. ASSUME Return(t), At(t, "filter") \/ At(t, "stage"),
               contents' \in [PathID -> SUBSET Items],
               UNCHANGED <<now, lock, path, running, created, io>>
        PROVE  ServiceStep
    <2>1. io[t].pc = "idle"
      BY <1>1, FileIdle DEF At
    <2>2. call' \in [Thread -> CallState] /\ \A u \in Thread : CallOK(u)'
      BY <1>1, <2>1, ReturnStep
    <2>3. QED
      BY <1>0, <1>1, <2>2 DEF ServiceStep, ServiceTypeOK
  <1>2. ASSUME NEW missing \in SUBSET Items, FilterMissingChildren(t, missing)
        PROVE  ServiceStep
    <2>1. contents' \in [PathID -> SUBSET Items]
      BY <1>0, <1>2 DEF FilterMissingChildren, ServiceTypeOK
    <2>2. QED
      BY <1>1, <1>2, <2>1 DEF FilterMissingChildren, storeVars
  <1>3. ASSUME NEW a \in Artifact, StageSingleArtifact(t, a)
        PROVE  ServiceStep
    <2> DEFINE p == call[t].path
               new == (contents[p] \ Named(contents[p], a)) \union {<<a, now>>}
    <2>1. p \in PathID
      BY <1>0, <1>3 DEF StageSingleArtifact, CallOK, At
    <2>2. new \in SUBSET Items
      BY <1>0, <2>1 DEF ServiceTypeOK, Items
    <2>3. contents' = [contents EXCEPT ![p] = new]
      BY <1>3, Zenon DEF StageSingleArtifact
    <2> HIDE DEF new
    <2>4. contents' \in [PathID -> SUBSET Items]
      BY <1>0, <2>2, <2>3 DEF ServiceTypeOK
    <2>5. QED
      BY <1>1, <1>3, <2>4 DEF StageSingleArtifact, storeVars
  <1>4. CASE StageSingleArtifactFails(t)
    <2>1. contents' \in [PathID -> SUBSET Items]
      BY <1>0, <1>4 DEF StageSingleArtifactFails, serviceVars, ServiceTypeOK
    <2>2. QED
      BY <1>1, <1>4, <2>1 DEF StageSingleArtifactFails, serviceVars, storeVars
  <1>5. CASE RemoveAllChildren(t)
    <2>1. /\ Goto(t, "cleaning") /\ At(t, "removing")
          /\ UNCHANGED <<now, lock, path, running, created, io>>
      BY <1>5 DEF RemoveAllChildren, storeVars
    <2>2. contents' \in [PathID -> SUBSET Items]
      BY <1>0, <1>5 DEF RemoveAllChildren, ServiceTypeOK
    <2>3. /\ call' \in [Thread -> CallState]
          /\ call'[t].pc = "cleaning"
          /\ call'[t].base = call[t].base /\ call'[t].path = call[t].path
          /\ OtherCallsKept(t)
      BY <1>0, <2>1, GotoCall DEF PC
    <2>4. io[t].pc = "idle"
      BY <2>1, FileIdle DEF At
    <2>5. CallOK(t)'
      BY <1>0, <2>1, <2>3, <2>4 DEF CallOK, At, Writing
    <2>6. \A u \in Thread : CallOK(u)'
      BY <2>1, <2>3, <2>5, OneThread
    <2>7. QED
      BY <1>0, <2>1, <2>2, <2>3, <2>6 DEF ServiceStep, ServiceTypeOK
  <1>6. QED
    BY <1>2, <1>3, <1>4, <1>5

LEMMA SaveSteps ==
    ASSUME ServiceInv, NEW t \in Thread,
           \/ \E b \in BaseName : FinalizeBuildBegin(t, b)
           \/ \E i \in Inode : SaveCreate(t, i)
           \/ \E a \in Artifact : SaveDirectory(t, a)
           \/ SaveRootDirectory(t)
           \/ SaveStep(t)
           \/ SaveRename(t)
           \/ FinalizeBuildEnd(t)
    PROVE  ServiceStep
  <1>0. /\ ServiceTypeOK /\ StoreTypeOK /\ CallOK(t) /\ IOArguments
        /\ io \in [Thread -> IOState] /\ call \in [Thread -> CallState]
        /\ call[t] \in CallState
        /\ \A c \in running : path[c] # NULL
    BY DEF ServiceInv, StoreTypeOK, ServiceTypeOK
  <1>1. ASSUME NEW b \in BaseName, FinalizeBuildBegin(t, b)
        PROVE  ServiceStep
    <2>1. /\ Begin(t, b, path[b], "save") /\ b \in running
          /\ lock' = t
          /\ UNCHANGED <<now, path, running, contents, created>>
      BY <1>1 DEF FinalizeBuildBegin
    <2>2. path[b] \in PathID
      BY <1>0, <2>1 DEF ServiceTypeOK
    <2>3. /\ call' \in [Thread -> CallState]
          /\ call'[t] = [pc |-> "save", base |-> b, path |-> path[b],
                         todo |-> {}, data |-> {}]
          /\ OtherCallsKept(t) /\ At(t, "idle") /\ lock = NULL
      BY <1>0, <2>1, <2>2, BeginCall DEF PC
    <2>4. io[t].pc = "idle"
      BY <2>3, FileIdle DEF At
    <2>5. /\ \A u \in Thread : u # t => io'[u] = io[u]
          /\ io'[t].pc = "idle" \/ (io'[t].pc = "create" /\ io'[t].base = b)
      <3>1. CASE WriteRemove(t, b)
        BY <1>0, <3>1 DEF WriteRemove
      <3>2. CASE UNCHANGED storeVars
        BY <2>4, <3>2 DEF storeVars
      <3>3. QED
        BY <1>1, <3>1, <3>2 DEF FinalizeBuildBegin
    <2>6. CallOK(t)'
      BY <2>1, <2>2, <2>3, <2>5 DEF CallOK, At, Writing
    <2>7. \A u \in Thread : CallOK(u)'
      BY <2>3, <2>5, <2>6, OneThread
    <2>8. QED
      BY <1>0, <2>1, <2>3, <2>7 DEF ServiceStep, ServiceTypeOK
  <1>2. ASSUME At(t, "save"), UNCHANGED serviceVars,
               call' \in [Thread -> CallState], OtherCallsKept(t),
               call'[t].pc = "save", call'[t].base = call[t].base,
               call'[t].path = call[t].path,
               \A u \in Thread : u # t => io'[u] = io[u],
               io'[t].pc # "cleanTemporary",
               io'[t].pc # "idle" => io'[t].base = io[t].base
                                       /\ io[t].pc # "idle"
        PROVE  ServiceStep
    <2>1. CallOK(t)'
      BY <1>0, <1>2 DEF CallOK, At, Writing, serviceVars
    <2>2. \A u \in Thread : CallOK(u)'
      BY <1>2, <2>1, OneThread DEF serviceVars
    <2>3. QED
      BY <1>0, <1>2, <2>2 DEF ServiceStep, ServiceTypeOK, serviceVars
  <1>3. ASSUME NEW i \in Inode, SaveCreate(t, i) PROVE ServiceStep
    <2> DEFINE c == [call[t] EXCEPT !.todo = Artifact]
    <2>1. /\ c \in CallState /\ c.pc = call[t].pc
          /\ c.base = call[t].base /\ c.path = call[t].path
      BY <1>0 DEF CallState
    <2>2. call' = [call EXCEPT ![t] = c]
      BY <1>0, <1>3 DEF SaveCreate
    <2> HIDE DEF c
    <2>3. /\ call' \in [Thread -> CallState] /\ OtherCallsKept(t)
          /\ call'[t] = c
      BY <1>0, <2>1, <2>2 DEF OtherCallsKept
    <2>4. /\ \A u \in Thread : u # t => io'[u] = io[u]
          /\ io'[t].pc = "writing" /\ io'[t].base = io[t].base
          /\ io[t].pc # "idle"
      BY <1>0, <1>3 DEF SaveCreate, WriteCreate, IOState
    <2>5. QED
      BY <1>2, <1>3, <2>1, <2>3, <2>4 DEF SaveCreate, At
  <1>4. ASSUME NEW a \in Artifact, SaveDirectory(t, a) PROVE ServiceStep
    <2> DEFINE todo == call[t].todo \ {a}
               data == call[t].data \union Named(contents[call[t].path], a)
               c == [call[t] EXCEPT !.todo = todo, !.data = data]
    <2>1. todo \in SUBSET Artifact
      BY <1>0 DEF CallState
    <2>2. data \in SUBSET Items
      <3>1. call[t].path \in PathID
        BY <1>0, <1>4 DEF SaveDirectory, CallOK, At
      <3>2. contents[call[t].path] \in SUBSET Items
        BY <1>0, <3>1 DEF ServiceTypeOK
      <3>3. QED
        BY <1>0, <3>2, NamedSubset DEF CallState
    <2>3. call' = [call EXCEPT ![t] = c]
      <3>1. call' = [call EXCEPT ![t].todo = call[t].todo \ {a},
                                 ![t].data = data]
        BY <1>4 DEF SaveDirectory
      <3> HIDE DEF data
      <3>2. QED
        BY <1>0, <3>1
    <2> HIDE DEF todo, data
    <2>4. /\ c \in CallState /\ c.pc = call[t].pc
          /\ c.base = call[t].base /\ c.path = call[t].path
      BY <1>0, <2>1, <2>2 DEF CallState
    <2> HIDE DEF c
    <2>5. /\ call' \in [Thread -> CallState] /\ OtherCallsKept(t)
          /\ call'[t] = c
      BY <1>0, <2>3, <2>4 DEF OtherCallsKept
    <2>6. QED
      BY <1>2, <1>4, <2>4, <2>5 DEF SaveDirectory, At, storeVars
  <1>5. CASE SaveRootDirectory(t) \/ SaveStep(t) \/ SaveRename(t)
    <2>1. /\ At(t, "save") /\ UNCHANGED <<serviceVars, call>>
      BY <1>5 DEF SaveRootDirectory, SaveStep, SaveRename
    <2>2. /\ \A u \in Thread : u # t => io'[u] = io[u]
          /\ io'[t].pc # "cleanTemporary"
          /\ io'[t].pc # "idle" => io'[t].base = io[t].base
                                     /\ io[t].pc # "idle"
      BY <1>0, <1>5
         DEF SaveRootDirectory, SaveStep, SaveRename, FinalizeWrite,
             WriteCreateFails, FinalizeSync, WriterFails, WriterClose,
             FinalizeRename, IODone, IdleIO, IOState
    <2>3. QED
      BY <1>0, <1>2, <2>1, <2>2 DEF OtherCallsKept, At
  <1>6. CASE FinalizeBuildEnd(t)
    <2>1. /\ Return(t) /\ lock = t /\ io[t].pc = "idle"
          /\ lock' = NULL /\ running' \subseteq running
          /\ UNCHANGED <<now, path, contents, created, io>>
      BY <1>0, <1>6 DEF FinalizeBuildEnd, CallOK, storeVars
    <2>2. call' \in [Thread -> CallState] /\ \A u \in Thread : CallOK(u)'
      BY <2>1, ReturnStep
    <2>3. QED
      BY <1>0, <2>1, <2>2 DEF ServiceStep, ServiceTypeOK
  <1>7. QED
    BY <1>1, <1>3, <1>4, <1>5, <1>6

LEMMA CleanSteps ==
    ASSUME ServiceInv, NEW t \in Thread,
           \/ StoreClean(t)
           \/ StoreCleanEnd(t)
           \/ CleanFails(t)
           \/ CleanUnregister(t)
    PROVE  ServiceStep
  <1>0. /\ ServiceTypeOK /\ StoreTypeOK /\ CallOK(t)
        /\ io \in [Thread -> IOState] /\ call \in [Thread -> CallState]
        /\ call[t] \in CallState
        /\ \A c \in running : path[c] # NULL
    BY DEF ServiceInv, StoreTypeOK, ServiceTypeOK
  <1>1. ASSUME Return(t), UNCHANGED serviceVars,
               \A u \in Thread : u # t => io'[u] = io[u], io'[t].pc = "idle"
        PROVE  ServiceStep
    <2>1. call' \in [Thread -> CallState] /\ \A u \in Thread : CallOK(u)'
      BY <1>1, ReturnStep DEF serviceVars
    <2>2. QED
      BY <1>0, <1>1, <2>1 DEF ServiceStep, ServiceTypeOK, serviceVars
  <1>2. CASE StoreClean(t)
    <2>1. /\ \A u \in Thread : u # t => io'[u] = io[u]
          /\ io'[t].pc = "cleanTemporary" /\ io'[t].base = call[t].base
          /\ UNCHANGED <<serviceVars, call>>
          /\ call[t].pc \in {"cleaning", "factoryClean"}
      BY <1>0, <1>2 DEF StoreClean, CleanState
    <2>2. CallOK(t)'
      BY <1>0, <2>1 DEF CallOK, At, Writing, serviceVars
    <2>3. \A u \in Thread : CallOK(u)'
      BY <2>1, <2>2, OneThread DEF OtherCallsKept, serviceVars
    <2>4. QED
      BY <1>0, <2>1, <2>3 DEF ServiceStep, ServiceTypeOK, serviceVars
  <1>3. CASE StoreCleanEnd(t)
    <2>1. /\ \A u \in Thread : u # t => io'[u] = io[u]
          /\ io'[t].pc = "idle"
          /\ UNCHANGED serviceVars
      BY <1>0, <1>3 DEF StoreCleanEnd, CleanTemporary, IODone, IdleIO
    <2>2. CASE At(t, "cleaning") /\ Goto(t, "unregister")
      <3>1. /\ call' \in [Thread -> CallState]
            /\ call'[t].pc = "unregister"
            /\ call'[t].base = call[t].base /\ call'[t].path = call[t].path
            /\ OtherCallsKept(t)
        BY <1>0, <2>2, GotoCall DEF PC
      <3>2. CallOK(t)'
        BY <1>0, <2>1, <2>2, <3>1 DEF CallOK, At, Writing
      <3>3. \A u \in Thread : CallOK(u)'
        BY <2>1, <3>1, <3>2, OneThread DEF serviceVars
      <3>4. QED
        BY <1>0, <2>1, <3>1, <3>3 DEF ServiceStep, ServiceTypeOK, serviceVars
    <2>3. CASE CleanReturns(t)
      BY <1>1, <2>1, <2>3 DEF CleanReturns
    <2>4. QED
      BY <1>3, <2>2, <2>3 DEF StoreCleanEnd
  <1>4. CASE CleanFails(t)
    <2>1. Return(t) /\ UNCHANGED serviceVars
      BY <1>4 DEF CleanFails
    <2>2. /\ \A u \in Thread : u # t => io'[u] = io[u]
          /\ io'[t].pc = "idle"
      BY <1>0, <1>4 DEF CleanFails, CleanTemporaryFails, IODone, IdleIO,
                        storeVars
    <2>3. QED
      BY <1>1, <2>1, <2>2
  <1>5. CASE CleanUnregister(t)
    <2>1. /\ Return(t) /\ At(t, "unregister")
          /\ UNCHANGED <<now, lock, contents, created, io>>
      BY <1>5 DEF CleanUnregister, CleanReturns, storeVars
    <2>2. io[t].pc = "idle"
      BY <2>1, FileIdle DEF At
    <2>3. call' \in [Thread -> CallState] /\ \A u \in Thread : CallOK(u)'
      BY <2>1, <2>2, ReturnStep
    <2>4. /\ path' \in [BaseName -> PathID \union {NULL}]
          /\ running' \in SUBSET BaseName
          /\ \A c \in running' : path'[c] # NULL
      BY <1>0, <1>5 DEF CleanUnregister, ServiceTypeOK
    <2>5. QED
      BY <1>0, <2>1, <2>3, <2>4 DEF ServiceStep, ServiceTypeOK
  <1>6. QED
    BY <1>2, <1>3, <1>4, <1>5

LEMMA ServiceInvInit == Init => ServiceInv
  <1> SUFFICES ASSUME Init PROVE ServiceInv
    OBVIOUS
  <1>1. StoreTypeOK /\ IOArguments
    BY SInvInit DEF Init, SInv
  <1>2. \A t \in Thread : io[t].pc = "idle" /\ call[t] = IdleCall
    BY DEF Init, StoreInit, IdleIO
  <1>3. \A t \in Thread : CallOK(t)
    BY <1>2 DEF CallOK, At, IdleCall, Writing
  <1>4. ServiceTypeOK
    <2>1. IdleCall \in CallState
      BY DEF IdleCall, CallState, PC
    <2>2. 0 \in Time
      BY PersistencyAssumption DEF Time
    <2>3. QED
      BY <2>1, <2>2 DEF Init, ServiceTypeOK
  <1>5. QED
    BY <1>1, <1>3, <1>4 DEF ServiceInv, Init

LEMMA RestartStep ==
    ASSUME ServiceInv, ServiceRestart, io' = [t \in Thread |-> IdleIO]
    PROVE  ServiceStep
  <1>1. IdleCall \in CallState
    BY DEF IdleCall, CallState, PC
  <1>2. 0 \in Time
    BY PersistencyAssumption DEF Time
  <1>3. ServiceTypeOK'
    BY <1>1, <1>2 DEF ServiceInv, ServiceRestart, ServiceTypeOK
  <1>4. \A t \in Thread : io'[t].pc = "idle" /\ call'[t] = IdleCall
    BY DEF ServiceRestart, IdleIO
  <1>5. \A t \in Thread : CallOK(t)'
    BY <1>4 DEF CallOK, At, IdleCall, Writing
  <1>6. QED
    BY <1>3, <1>5 DEF ServiceStep, ServiceRestart

LEMMA ServiceInvNext == ServiceInv /\ [Next]_vars => ServiceInv'
  <1> SUFFICES ASSUME ServiceInv, [Next]_vars PROVE ServiceInv'
    OBVIOUS
  <1>1. StoreTypeOK' /\ IOArguments'
    BY StoreStep, StoreTypeNext DEF ServiceInv
  <1>2. ServiceStep => ServiceInv'
    BY <1>1 DEF ServiceStep, ServiceInv
  <1>3. CASE Restart \/ \E torn \in SUBSET Inode : PowerLoss(torn)
    BY <1>2, <1>3, RestartStep
       DEF Restart, PowerLoss, StoreRestart, StorePowerLoss
  <1>4. CASE Commit \/ UNCHANGED vars
    <2>1. UNCHANGED <<serviceVars, call, io>>
      BY <1>4 DEF Commit, JournalCommit, vars, storeVars
    <2>2. \A t \in Thread : CallOK(t)'
      BY <2>1 DEF ServiceInv, CallOK, At, Writing, serviceVars
    <2>3. ServiceStep
      BY <2>1, <2>2 DEF ServiceInv, ServiceStep, ServiceTypeOK, serviceVars
    <2>4. QED
      BY <1>2, <2>3
  <1>5. CASE Tick
    <2>1. /\ UNCHANGED <<lock, path, running, contents, created, call, io>>
          /\ now' \in Time
      BY <1>5, PersistencyAssumption
         DEF Tick, ServiceInv, ServiceTypeOK, Time, storeVars
    <2>2. \A t \in Thread : CallOK(t)'
      BY <2>1 DEF ServiceInv, CallOK, At, Writing
    <2>3. ServiceStep
      BY <2>1, <2>2 DEF ServiceInv, ServiceStep, ServiceTypeOK
    <2>4. QED
      BY <1>2, <2>3
  <1>6. ASSUME NEW t \in Thread, NEW b \in BaseName,
               \/ \E p \in PathID, restored \in SUBSET Items :
                     StartBuildInitial(t, b, p, restored)
               \/ StartBuildExisting(t, b)
               \/ StageArtifactsLookup(t, b)
               \/ CleanLookup(t, b)
        PROVE  ServiceInv'
    BY <1>2, <1>6, StartStep
  <1>7. ASSUME NEW t \in Thread,
               \/ \E missing \in SUBSET Items :
                     FilterMissingChildren(t, missing)
               \/ \E a \in Artifact : StageSingleArtifact(t, a)
               \/ StageSingleArtifactFails(t)
               \/ RemoveAllChildren(t)
        PROVE  ServiceInv'
    BY <1>2, <1>7, ContentsStep
  <1>8. ASSUME NEW t \in Thread,
               \/ \E b \in BaseName : FinalizeBuildBegin(t, b)
               \/ \E i \in Inode : SaveCreate(t, i)
               \/ \E a \in Artifact : SaveDirectory(t, a)
               \/ SaveRootDirectory(t)
               \/ SaveStep(t)
               \/ SaveRename(t)
               \/ FinalizeBuildEnd(t)
        PROVE  ServiceInv'
    BY <1>2, <1>8, SaveSteps
  <1>9. ASSUME NEW t \in Thread,
               \/ StoreClean(t)
               \/ StoreCleanEnd(t)
               \/ CleanFails(t)
               \/ CleanUnregister(t)
        PROVE  ServiceInv'
    BY <1>2, <1>9, CleanSteps
  <1>10. QED
    BY <1>3, <1>4, <1>5, <1>6, <1>7, <1>8, <1>9, Zenon DEF Next

(* FinalizeBuild() holds d.lock for as long as it writes, so that the      *)
(* service implements what the store relies on: one writer at a time.      *)
THEOREM LockProtectsStore == Spec => UsesStoreCorrectly
  <1>1. Init => StoreInit
    BY DEF Init
  <1>2. ServiceInv /\ [Next]_vars => [StoreNext]_storeVars
    BY StoreStep
  <1>3. QED
    BY <1>1, <1>2, ServiceInvInit, ServiceInvNext, PTL
       DEF Spec, StoreSpec, UsesStoreCorrectly

(* Hence no state file of the service is ever torn, whatever its clients   *)
(* do and whenever the process or the machine stops.                       *)
THEOREM SavedFilesWhole == NoCollision => (Spec => []StateFilesWhole)
  <1>1. NoCollision => (StoreSpec => [](StoreTypeOK /\ StateFilesWhole))
    BY StateFilesCorrect
  <1>2. Spec => StoreSpec
    BY LockProtectsStore DEF UsesStoreCorrectly
  <1>3. SUFFICES ASSUME NoCollision PROVE Spec => []StateFilesWhole
    OBVIOUS
  <1>4. StoreSpec => [](StoreTypeOK /\ StateFilesWhole)
    BY <1>1, <1>3
  <1>5. QED
    BY <1>2, <1>4, PTL

-----------------------------------------------------------------------------
(* Everything in an output path was staged after its creation time, which  *)
(* is carried along with its contents.                                     *)
StagedBetween(items, from, to) ==
    from <= to /\ \A item \in items : from <= item[2] /\ item[2] <= to

AgeInv ==
    /\ \A p \in PathID : StagedBetween(contents[p], created[p], now)
    /\ \A t \in Thread : At(t, "save") =>
          StagedBetween(call[t].data, created[call[t].path], now)
    /\ \A i \in Inode : inode[i].state # NULL =>
          StagedBetween(inode[i].state.contents, inode[i].state.created, now)

LEMMA BetweenSubset ==
    ASSUME NEW S, NEW T, S \subseteq T, NEW from, NEW to,
           StagedBetween(T, from, to)
    PROVE  StagedBetween(S, from, to)
  BY DEF StagedBetween

LEMMA BetweenLater ==
    ASSUME NEW S \in SUBSET Items, NEW from \in Time, NEW to \in Time,
           StagedBetween(S, from, to)
    PROVE  StagedBetween(S, from, to + 1)
  <1>1. from \in Nat /\ to \in Nat /\ \A item \in S : item[2] \in Nat
    BY PersistencyAssumption DEF Time, Items
  <1>2. QED
    BY <1>1 DEF StagedBetween

LEMMA TimeInt == \A x \in Time : x \in Nat
  BY PersistencyAssumption DEF Time

(* The conjuncts of the invariant, for states in which it was now.         *)
PathsAged(at) == \A p \in PathID : StagedBetween(contents[p], created[p], at)

CallsAged(at) ==
    \A t \in Thread : At(t, "save") =>
        StagedBetween(call[t].data, created[call[t].path], at)

FilesAged(at) ==
    \A i \in Inode : inode[i].state # NULL =>
        StagedBetween(inode[i].state.contents, inode[i].state.created, at)

LEMMA AgeParts == AgeInv <=> PathsAged(now) /\ CallsAged(now) /\ FilesAged(now)
  BY DEF AgeInv, PathsAged, CallsAged, FilesAged

(* Creating an output path: what is restored is as old as its state file   *)
(* says.                                                                   *)
LEMMA AgeStartInitial ==
    ASSUME ServiceInv, AgeInv, NEW t \in Thread, NEW b \in BaseName,
           NEW p \in PathID, NEW restored \in SUBSET Items,
           StartBuildInitial(t, b, p, restored)
    PROVE  AgeInv'
  <1> DEFINE root == ReadRecent(b)
             at == IF root = NULL THEN now ELSE root.created
  <1>0. ServiceTypeOK /\ StoreTypeOK /\ now \in Nat
    BY TimeInt DEF ServiceInv, ServiceTypeOK
  <1>1. /\ contents' = [contents EXCEPT ![p] = restored]
        /\ created' = [created EXCEPT ![p] = at]
        /\ Begin(t, b, p, "filter") /\ p \in FreePath
        /\ now' = now /\ inode' = inode
        /\ restored \subseteq (IF root = NULL THEN {} ELSE root.contents)
    BY DEF StartBuildInitial, storeVars
  <1>2. root # NULL => /\ root = inode[directory[b]].state
                       /\ directory[b] \in Inode
    BY <1>0, StoreAssumption DEF ReadRecent, Read, StoreTypeOK
  <1>3. root # NULL => StagedBetween(root.contents, root.created, now)
    BY <1>2 DEF AgeInv
  <1> HIDE DEF root
  <1>4. StagedBetween(restored, at, now)
    <2>1. CASE root = NULL
      BY <1>0, <1>1, <2>1 DEF StagedBetween
    <2>2. CASE root # NULL
      BY <1>1, <1>3, <2>2, BetweenSubset
    <2>3. QED
      BY <2>1, <2>2
  <1> HIDE DEF at
  <1>5. PathsAged(now)'
    BY <1>0, <1>1, <1>4 DEF AgeInv, PathsAged, ServiceTypeOK
  <1>6. CallsAged(now)'
    <2>0. /\ call'[t] = [pc |-> "filter", base |-> b, path |-> p,
                         todo |-> {}, data |-> {}]
          /\ OtherCallsKept(t)
      BY <1>0, <1>1, BeginCall DEF PC
    <2>1. call'[t].pc = "filter" /\ OtherCallsKept(t)
      BY <2>0
    <2>2. ASSUME NEW u \in Thread, At(u, "save")'
          PROVE  StagedBetween(call'[u].data, created'[call'[u].path], now)
      <3>1. u # t /\ call'[u] = call[u] /\ At(u, "save")
        BY <2>1, <2>2 DEF OtherCallsKept, At
      <3>2. call[u].path # p /\ call[u].path \in PathID
        BY <1>1, <3>1 DEF FreePath, ServiceInv, CallOK, At
      <3>3. created'[call[u].path] = created[call[u].path]
        BY <1>0, <1>1, <3>2 DEF ServiceTypeOK
      <3>4. QED
        BY <3>1, <3>3 DEF AgeInv
    <2>3. QED
      BY <1>1, <2>2 DEF CallsAged
  <1>7. FilesAged(now)'
    BY <1>1 DEF AgeInv, FilesAged
  <1>8. QED
    BY <1>5, <1>6, <1>7 DEF AgeInv, PathsAged, CallsAged, FilesAged

(* What changes in an output path was staged before, or is staged now.     *)
LEMMA AgeContents ==
    ASSUME ServiceInv, AgeInv, NEW t \in Thread, OtherCallsKept(t),
           ~At(t, "save")', NEW p \in PathID, NEW items,
           contents' = [contents EXCEPT ![p] = items],
           StagedBetween(items, created[p], now),
           UNCHANGED <<now, created, inode>>
    PROVE  AgeInv'
  <1>1. PathsAged(now)'
    BY DEF AgeInv, PathsAged, ServiceInv, ServiceTypeOK
  <1>2. CallsAged(now)'
    BY DEF AgeInv, CallsAged, OtherCallsKept, At
  <1>3. FilesAged(now)'
    BY DEF AgeInv, FilesAged
  <1>4. QED
    BY <1>1, <1>2, <1>3 DEF AgeInv, PathsAged, CallsAged, FilesAged

(* Steps that keep output paths and files, and do not start saving.        *)
LEMMA AgeKept ==
    ASSUME AgeInv, UNCHANGED <<now, contents, created>>,
           \A i \in Inode : inode'[i].state \in {inode[i].state, NULL},
           \A t \in Thread : At(t, "save")' =>
              call'[t].path = call[t].path /\ call'[t].data = call[t].data
                /\ At(t, "save")
    PROVE  AgeInv'
  <1>1. PathsAged(now)'
    BY DEF AgeInv, PathsAged
  <1>2. CallsAged(now)'
    BY DEF AgeInv, CallsAged
  <1>3. FilesAged(now)'
    BY DEF AgeInv, FilesAged
  <1>4. QED
    BY <1>1, <1>2, <1>3 DEF AgeInv, PathsAged, CallsAged, FilesAged

LEMMA AgeBegin ==
    ASSUME ServiceInv, AgeInv, NEW t \in Thread, NEW b \in BaseName,
           StartBuildExisting(t, b) \/ StageArtifactsLookup(t, b)
             \/ CleanLookup(t, b)
    PROVE  AgeInv'
  <1>0. ServiceTypeOK /\ path[b] \in PathID \union {NULL}
    BY DEF ServiceInv, ServiceTypeOK
  <1>1. PICK pc \in PC \ {"save"} : Begin(t, b, path[b], pc)
    BY DEF StartBuildExisting, StageArtifactsLookup, CleanLookup, PC
  <1>2. /\ call'[t] = [pc |-> pc, base |-> b, path |-> path[b],
                       todo |-> {}, data |-> {}]
        /\ OtherCallsKept(t)
    BY <1>0, <1>1, BeginCall
  <1>3. call'[t].pc # "save"
    BY <1>2
  <1>4. UNCHANGED <<now, contents, created, inode>>
    BY DEF StartBuildExisting, StageArtifactsLookup, CleanLookup, storeVars,
           serviceVars
  <1>5. QED
    BY <1>2, <1>3, <1>4, AgeKept DEF OtherCallsKept, At

LEMMA AgeContentsSteps ==
    ASSUME ServiceInv, AgeInv, NEW t \in Thread,
           \/ \E missing \in SUBSET Items : FilterMissingChildren(t, missing)
           \/ \E a \in Artifact : StageSingleArtifact(t, a)
           \/ StageSingleArtifactFails(t)
           \/ RemoveAllChildren(t)
    PROVE  AgeInv'
  <1> DEFINE p == call[t].path
  <1>0. ServiceTypeOK /\ CallOK(t) /\ now \in Nat
    BY TimeInt DEF ServiceInv, ServiceTypeOK
  <1>1. ASSUME NEW missing \in SUBSET Items, FilterMissingChildren(t, missing)
        PROVE  AgeInv'
    <2> DEFINE items == contents[p] \ missing
    <2>1. /\ p \in PathID /\ Return(t)
          /\ contents' = [contents EXCEPT ![p] = items]
          /\ UNCHANGED <<now, created, inode>>
      BY <1>0, <1>1 DEF FilterMissingChildren, CallOK, At, storeVars
    <2>2. StagedBetween(items, created[p], now)
      BY <2>1, BetweenSubset DEF AgeInv
    <2>3. call'[t] = IdleCall /\ OtherCallsKept(t)
      BY <1>0, <2>1, ReturnCall
    <2>4. ~At(t, "save")'
      BY <2>3 DEF At, IdleCall
    <2> HIDE DEF items, p
    <2>5. QED
      BY <2>1, <2>2, <2>3, <2>4, AgeContents
  <1>2. ASSUME NEW a \in Artifact, StageSingleArtifact(t, a)
        PROVE  AgeInv'
    <2> DEFINE items ==
                 (contents[p] \ Named(contents[p], a)) \union {<<a, now>>}
    <2>1. p \in PathID /\ Return(t) /\ UNCHANGED <<now, created, inode>>
      BY <1>0, <1>2 DEF StageSingleArtifact, CallOK, At, storeVars
    <2>2. contents' = [contents EXCEPT ![p] = items]
      BY <1>2, Zenon DEF StageSingleArtifact
    <2>3. StagedBetween(contents[p], created[p], now)
      BY <2>1 DEF AgeInv
    <2>4. StagedBetween(items, created[p], now)
      <3>1. \A item \in items : item \in contents[p] \/ item = <<a, now>>
        OBVIOUS
      <3> HIDE DEF items
      <3>2. QED
        BY <1>0, <2>3, <3>1 DEF StagedBetween
    <2>5. call'[t] = IdleCall /\ OtherCallsKept(t)
      BY <1>0, <2>1, ReturnCall
    <2>6. ~At(t, "save")'
      BY <2>5 DEF At, IdleCall
    <2> HIDE DEF items, p
    <2>7. QED
      BY <2>1, <2>2, <2>4, <2>5, <2>6, AgeContents
  <1>3. CASE StageSingleArtifactFails(t)
    <2>1. Return(t) /\ UNCHANGED <<now, contents, created, inode>>
      BY <1>3 DEF StageSingleArtifactFails, serviceVars, storeVars
    <2>2. call'[t] = IdleCall /\ OtherCallsKept(t)
      BY <1>0, <2>1, ReturnCall
    <2>3. QED
      BY <2>1, <2>2, AgeKept DEF OtherCallsKept, At, IdleCall
  <1>4. CASE RemoveAllChildren(t)
    <2>1. /\ p \in PathID /\ Goto(t, "cleaning")
          /\ contents' = [contents EXCEPT ![p] = {}]
          /\ UNCHANGED <<now, created, inode>>
      BY <1>0, <1>4 DEF RemoveAllChildren, CallOK, At, storeVars
    <2>2. StagedBetween({}, created[p], now)
      BY <2>1 DEF AgeInv, StagedBetween
    <2>3. call'[t].pc = "cleaning" /\ OtherCallsKept(t)
      BY <1>0, <2>1, GotoCall DEF PC
    <2>4. ~At(t, "save")'
      BY <2>3 DEF At
    <2> HIDE DEF p
    <2>5. QED
      BY <2>1, <2>2, <2>3, <2>4, AgeContents
  <1>5. QED
    BY <1>1, <1>2, <1>3, <1>4

LEMMA AgeSaveSteps ==
    ASSUME ServiceInv, AgeInv, NEW t \in Thread,
           \/ \E b \in BaseName : FinalizeBuildBegin(t, b)
           \/ \E i \in Inode : SaveCreate(t, i)
           \/ \E a \in Artifact : SaveDirectory(t, a)
           \/ SaveRootDirectory(t)
           \/ SaveStep(t)
           \/ SaveRename(t)
           \/ FinalizeBuildEnd(t)
    PROVE  AgeInv'
  <1> DEFINE p == call[t].path
  <1>0. /\ ServiceTypeOK /\ CallOK(t) /\ StoreTypeOK /\ IOArguments
        /\ call \in [Thread -> CallState] /\ call[t] \in CallState
    BY DEF ServiceInv, ServiceTypeOK
  <1>1. ASSUME NEW b \in BaseName, FinalizeBuildBegin(t, b) PROVE AgeInv'
    <2>1. /\ Begin(t, b, path[b], "save") /\ path[b] \in PathID
          /\ UNCHANGED <<now, contents, created, inode>>
      BY <1>0, <1>1 DEF FinalizeBuildBegin, WriteRemove, ServiceInv,
                        ServiceTypeOK, storeVars
    <2>2. /\ call'[t] = [pc |-> "save", base |-> b, path |-> path[b],
                         todo |-> {}, data |-> {}]
          /\ OtherCallsKept(t)
      BY <1>0, <2>1, BeginCall DEF PC
    <2>3. call'[t].data = {} /\ call'[t].path = path[b]
      BY <2>2
    <2>4. StagedBetween({}, created[path[b]], now)
      BY <2>1 DEF AgeInv, StagedBetween
    <2>5. CallsAged(now)'
      BY <2>1, <2>2, <2>3, <2>4 DEF AgeInv, CallsAged, OtherCallsKept, At
    <2>6. PathsAged(now)' /\ FilesAged(now)'
      BY <2>1 DEF AgeInv, PathsAged, FilesAged
    <2>7. QED
      BY <2>5, <2>6 DEF AgeInv, PathsAged, CallsAged, FilesAged
  <1>2. ASSUME NEW i \in Inode, SaveCreate(t, i) PROVE AgeInv'
    <2>1. /\ At(t, "save") /\ UNCHANGED <<now, contents, created>>
          /\ inode' = [inode EXCEPT ![i] = EmptyFile]
          /\ call' = [call EXCEPT ![t].todo = Artifact]
      BY <1>2 DEF SaveCreate, WriteCreate, serviceVars
    <2>2. /\ OtherCallsKept(t)
          /\ call'[t].path = p /\ call'[t].data = call[t].data
      BY <1>0, <2>1 DEF OtherCallsKept, CallState
    <2>3. \A j \in Inode : inode'[j].state \in {inode[j].state, NULL}
      BY <1>0, <2>1 DEF StoreTypeOK, EmptyFile
    <2>4. QED
      BY <2>1, <2>2, <2>3, AgeKept DEF OtherCallsKept, At
  <1>3. ASSUME NEW a \in Artifact, SaveDirectory(t, a) PROVE AgeInv'
    <2> DEFINE new == Named(contents[p], a)
               data == call[t].data \union new
    <2>1. /\ p \in PathID /\ At(t, "save")
          /\ UNCHANGED <<now, contents, created, inode>>
      BY <1>0, <1>3 DEF SaveDirectory, CallOK, At, serviceVars, storeVars
    <2>2. call' = [call EXCEPT ![t].todo = call[t].todo \ {a},
                               ![t].data = data]
      BY <1>3 DEF SaveDirectory
    <2>3. StagedBetween(new, created[p], now)
      BY <2>1, BetweenSubset, NamedSubset DEF AgeInv
    <2>4. StagedBetween(data, created[p], now)
      <3>1. StagedBetween(call[t].data, created[p], now)
        BY <2>1 DEF AgeInv
      <3> HIDE DEF new
      <3>2. QED
        BY <2>3, <3>1 DEF StagedBetween
    <2> HIDE DEF data
    <2>5. call'[t].data = data /\ call'[t].path = p /\ OtherCallsKept(t)
      BY <1>0, <2>2 DEF OtherCallsKept, CallState
    <2>6. CallsAged(now)'
      BY <2>1, <2>4, <2>5 DEF AgeInv, CallsAged, OtherCallsKept, At
    <2>7. PathsAged(now)' /\ FilesAged(now)'
      BY <2>1 DEF AgeInv, PathsAged, FilesAged
    <2>8. QED
      BY <2>6, <2>7 DEF AgeInv, PathsAged, CallsAged, FilesAged
  <1>4. CASE SaveRootDirectory(t)
    <2> DEFINE s == [contents |-> call[t].data, created |-> created[p]]
               file == [state |-> s, whole |-> TRUE, synced |-> FALSE]
    <2>1. /\ At(t, "save") /\ io[t].ino \in Inode
          /\ inode' = [inode EXCEPT ![io[t].ino] = file]
          /\ UNCHANGED <<now, contents, created, call>>
      BY <1>0, <1>4 DEF SaveRootDirectory, FinalizeWrite, IOArguments,
                        HasFile, serviceVars
    <2>2. StagedBetween(s.contents, s.created, now)
      BY <2>1 DEF AgeInv
    <2>3. file.state = s
      OBVIOUS
    <2> HIDE DEF s, file
    <2>4. FilesAged(now)'
      <3>1. \A i \in Inode : inode'[i] = IF i = io[t].ino THEN file
                                                          ELSE inode[i]
        BY <1>0, <2>1 DEF StoreTypeOK
      <3>2. QED
        BY <2>1, <2>2, <2>3, <3>1 DEF AgeInv, FilesAged
    <2>5. PathsAged(now)' /\ CallsAged(now)'
      BY <2>1 DEF AgeInv, PathsAged, CallsAged, At
    <2>6. QED
      BY <2>4, <2>5 DEF AgeInv, PathsAged, CallsAged, FilesAged
  <1>5. CASE SaveStep(t) \/ SaveRename(t)
    <2>1. UNCHANGED <<now, contents, created, call>>
      BY <1>5 DEF SaveStep, SaveRename, serviceVars
    <2>2. \A i \in Inode : inode'[i].state = inode[i].state
      <3>1. CASE FinalizeSync(t)
        BY <1>0, <3>1 DEF FinalizeSync, StoreTypeOK
      <3>2. CASE inode' = inode
        BY <3>2
      <3>3. QED
        BY <1>5, <3>1, <3>2 DEF SaveStep, SaveRename, WriteCreateFails,
                                WriterFails, WriterClose, FinalizeRename
    <2>3. QED
      BY <2>1, <2>2, AgeKept DEF At
  <1>6. CASE FinalizeBuildEnd(t)
    <2>1. Return(t) /\ UNCHANGED <<now, contents, created, inode>>
      BY <1>6 DEF FinalizeBuildEnd, storeVars
    <2>2. call'[t] = IdleCall /\ OtherCallsKept(t)
      BY <1>0, <2>1, ReturnCall
    <2>3. QED
      BY <2>1, <2>2, AgeKept DEF OtherCallsKept, At, IdleCall
  <1>7. QED
    BY <1>1, <1>2, <1>3, <1>4, <1>5, <1>6

LEMMA AgeCleanSteps ==
    ASSUME ServiceInv, AgeInv, NEW t \in Thread,
           \/ StoreClean(t)
           \/ StoreCleanEnd(t)
           \/ CleanFails(t)
           \/ CleanUnregister(t)
    PROVE  AgeInv'
  <1>0. ServiceTypeOK
    BY DEF ServiceInv
  <1>1. UNCHANGED <<now, contents, created, inode>>
    BY DEF StoreClean, StoreCleanEnd, CleanFails, CleanUnregister, CleanState,
           CleanTemporary, CleanTemporaryFails, serviceVars, storeVars
  <1>2. \/ UNCHANGED call
        \/ Return(t)
        \/ Goto(t, "unregister")
    BY DEF StoreClean, StoreCleanEnd, CleanFails, CleanUnregister,
           CleanReturns
  <1>3. CASE UNCHANGED call
    BY <1>1, <1>3, AgeKept DEF At
  <1>4. CASE Return(t)
    <2>1. call'[t] = IdleCall /\ OtherCallsKept(t)
      BY <1>0, <1>4, ReturnCall
    <2>2. QED
      BY <1>1, <2>1, AgeKept DEF OtherCallsKept, At, IdleCall
  <1>5. CASE Goto(t, "unregister")
    <2>1. call'[t].pc = "unregister" /\ OtherCallsKept(t)
      BY <1>0, <1>5, GotoCall DEF PC
    <2>2. QED
      BY <1>1, <2>1, AgeKept DEF OtherCallsKept, At
  <1>6. QED
    BY <1>2, <1>3, <1>4, <1>5

LEMMA AgeRestart ==
    ASSUME ServiceInv, AgeInv, ServiceRestart,
           \A i \in Inode : inode'[i].state = inode[i].state
    PROVE  AgeInv'
  <1>1. now' = now /\ now \in Nat
    BY TimeInt DEF ServiceRestart, ServiceInv, ServiceTypeOK
  <1>2. PathsAged(now)'
    BY <1>1 DEF ServiceRestart, PathsAged, StagedBetween
  <1>3. CallsAged(now)'
    BY DEF ServiceRestart, CallsAged, At, IdleCall
  <1>4. FilesAged(now)'
    BY <1>1 DEF AgeInv, FilesAged
  <1>5. QED
    BY <1>2, <1>3, <1>4 DEF AgeInv, PathsAged, CallsAged, FilesAged

LEMMA AgeTick ==
    ASSUME ServiceInv, AgeInv, Tick
    PROVE  AgeInv'
  <1>1. /\ now' = now + 1 /\ now \in Time
        /\ UNCHANGED <<contents, created, call, inode>>
    BY DEF Tick, storeVars, ServiceInv, ServiceTypeOK
  <1>2. PathsAged(now + 1)
    <2>1. ASSUME NEW p \in PathID
          PROVE  StagedBetween(contents[p], created[p], now + 1)
      <3>1. contents[p] \in SUBSET Items /\ created[p] \in Time
        BY DEF ServiceInv, ServiceTypeOK
      <3>2. QED
        BY <1>1, <3>1, BetweenLater DEF AgeInv
    <2>2. QED
      BY <2>1 DEF PathsAged
  <1>3. CallsAged(now + 1)
    <2>1. ASSUME NEW t \in Thread, At(t, "save")
          PROVE  StagedBetween(call[t].data, created[call[t].path], now + 1)
      <3>1. call[t] \in CallState /\ call[t].path \in PathID
        BY <2>1 DEF ServiceInv, ServiceTypeOK, CallOK, At
      <3>2. call[t].data \in SUBSET Items /\ created[call[t].path] \in Time
        BY <3>1 DEF ServiceInv, ServiceTypeOK, CallState
      <3>3. QED
        BY <1>1, <2>1, <3>2, BetweenLater DEF AgeInv
    <2>2. QED
      BY <2>1 DEF CallsAged
  <1>4. FilesAged(now + 1)
    <2>1. ASSUME NEW i \in Inode, inode[i].state # NULL
          PROVE  StagedBetween(inode[i].state.contents,
                               inode[i].state.created, now + 1)
      <3>1. inode[i].state \in RootDirectory
        BY <2>1, PersistencyAssumption DEF ServiceInv, StoreTypeOK
      <3>2. /\ inode[i].state.contents \in SUBSET Items
            /\ inode[i].state.created \in Time
        BY <3>1 DEF RootDirectory
      <3>3. QED
        BY <1>1, <2>1, <3>2, BetweenLater DEF AgeInv
    <2>2. QED
      BY <2>1 DEF FilesAged
  <1>5. QED
    BY <1>1, <1>2, <1>3, <1>4 DEF AgeInv, PathsAged, CallsAged, FilesAged, At

LEMMA AgeInvNext == ServiceInv /\ AgeInv /\ [Next]_vars => AgeInv'
  <1> SUFFICES ASSUME ServiceInv, AgeInv, [Next]_vars PROVE AgeInv'
    OBVIOUS
  <1>1. ASSUME NEW t \in Thread, NEW b \in BaseName,
               \/ \E p \in PathID, restored \in SUBSET Items :
                     StartBuildInitial(t, b, p, restored)
               \/ StartBuildExisting(t, b)
               \/ StageArtifactsLookup(t, b)
               \/ CleanLookup(t, b)
        PROVE  AgeInv'
    BY <1>1, AgeStartInitial, AgeBegin
  <1>2. ASSUME NEW t \in Thread,
               \/ \E missing \in SUBSET Items :
                     FilterMissingChildren(t, missing)
               \/ \E a \in Artifact : StageSingleArtifact(t, a)
               \/ StageSingleArtifactFails(t)
               \/ RemoveAllChildren(t)
        PROVE  AgeInv'
    BY <1>2, AgeContentsSteps
  <1>3. ASSUME NEW t \in Thread,
               \/ \E b \in BaseName : FinalizeBuildBegin(t, b)
               \/ \E i \in Inode : SaveCreate(t, i)
               \/ \E a \in Artifact : SaveDirectory(t, a)
               \/ SaveRootDirectory(t)
               \/ SaveStep(t)
               \/ SaveRename(t)
               \/ FinalizeBuildEnd(t)
        PROVE  AgeInv'
    BY <1>3, AgeSaveSteps
  <1>4. ASSUME NEW t \in Thread,
               \/ StoreClean(t)
               \/ StoreCleanEnd(t)
               \/ CleanFails(t)
               \/ CleanUnregister(t)
        PROVE  AgeInv'
    BY <1>4, AgeCleanSteps
  <1>5. CASE Restart \/ \E torn \in SUBSET Inode : PowerLoss(torn)
    <2>1. ServiceRestart
      BY <1>5 DEF Restart, PowerLoss
    <2>2. \A i \in Inode : inode'[i].state = inode[i].state
      <3>1. \A i \in Inode : [inode[i] EXCEPT !.whole = FALSE].state
                               = inode[i].state
        BY DEF ServiceInv, StoreTypeOK
      <3>2. QED
        BY <1>5, <3>1 DEF Restart, PowerLoss, StoreRestart, StorePowerLoss
    <2>3. QED
      BY <2>1, <2>2, AgeRestart
  <1>6. CASE Commit \/ UNCHANGED vars
    <2>1. UNCHANGED <<now, contents, created, call, inode>>
      BY <1>6 DEF Commit, JournalCommit, vars, serviceVars, storeVars
    <2>2. QED
      BY <2>1, AgeKept DEF At
  <1>7. CASE Tick
    BY <1>7, AgeTick
  <1>8. QED
    BY <1>1, <1>2, <1>3, <1>4, <1>5, <1>6, <1>7, Zenon DEF Next

(* Times between two times of an epoch are in that epoch.                  *)
LEMMA SameEpoch ==
    ASSUME NEW x \in Nat, NEW y \in Nat, NEW z \in Nat, x <= y, y <= z,
           TimeToEpoch(x) = TimeToEpoch(z)
    PROVE  TimeToEpoch(y) = TimeToEpoch(z)
  <1> DEFINE k == x \div MaxAge
             l == y \div MaxAge
  <1>0. MaxAge \in Nat /\ MaxAge > 0
    BY PersistencyAssumption
  <1>1. ASSUME NEW a \in Nat
        PROVE  /\ a \div MaxAge \in Nat
               /\ MaxAge * (a \div MaxAge) <= a
               /\ a < MaxAge * (a \div MaxAge) + MaxAge
    BY <1>0
  <1>2. ASSUME NEW a \in Nat, NEW b \in Nat, a < b
        PROVE  MaxAge * a + MaxAge <= MaxAge * b
    <2>1. PICK d \in Nat : b = a + 1 + d
      <3>1. b - (a + 1) \in Nat /\ b = a + 1 + (b - (a + 1))
        BY <1>2
      <3>2. QED
        BY <3>1
    <2>2. MaxAge * b = MaxAge * a + MaxAge + MaxAge * d /\ MaxAge * d >= 0
      BY <1>0, <2>1
    <2>3. MaxAge * a \in Nat /\ MaxAge * d \in Nat
      BY <1>0
    <2>4. QED
      BY <1>0, <2>2, <2>3
  <1>3. k \in Nat /\ l \in Nat /\ k = z \div MaxAge
    BY <1>1 DEF TimeToEpoch
  <1>4. /\ MaxAge * k <= x /\ z < MaxAge * k + MaxAge
        /\ MaxAge * l <= y /\ y < MaxAge * l + MaxAge
    BY <1>1, <1>3
  <1>5. MaxAge * k \in Nat /\ MaxAge * l \in Nat
    BY <1>0, <1>3
  <1> HIDE DEF k, l
  <1>6. ~(l < k) /\ ~(k < l)
    <2>1. l < k => MaxAge * l + MaxAge <= MaxAge * k
      BY <1>2, <1>3
    <2>2. k < l => MaxAge * k + MaxAge <= MaxAge * l
      BY <1>2, <1>3
    <2>3. QED
      BY <1>0, <1>4, <1>5, <2>1, <2>2
  <1>7. QED
    BY <1>3, <1>6 DEF TimeToEpoch, l

LEMMA RestoredIsRecentStep ==
    ASSUME ServiceInv, AgeInv, [Next]_vars, NEW b \in BaseName,
           path[b] = NULL, path'[b] # NULL, NEW item \in contents'[path'[b]]
    PROVE  TimeToEpoch(item[2]) = TimeToEpoch(now)
  <1>1. \E t \in Thread, p \in PathID, restored \in SUBSET Items :
           StartBuildInitial(t, b, p, restored)
    <2>1. path' # path
      OBVIOUS
    <2>2. ~(\E t \in Thread : CleanUnregister(t)) /\ ~Restart
          /\ ~(\E torn \in SUBSET Inode : PowerLoss(torn))
      <3>1. path \in [BaseName -> PathID \union {NULL}]
        BY DEF ServiceInv, ServiceTypeOK
      <3>2. ASSUME NEW t \in Thread, CleanUnregister(t) PROVE FALSE
        BY <3>1, <3>2 DEF CleanUnregister
      <3>3. QED
        BY <3>2 DEF Restart, PowerLoss, ServiceRestart
    <2>3. \E t \in Thread, c \in BaseName, p \in PathID,
             restored \in SUBSET Items : StartBuildInitial(t, c, p, restored)
      <3>1. ASSUME NEW t \in Thread, NEW c \in BaseName,
                   \/ StartBuildExisting(t, c)
                   \/ StageArtifactsLookup(t, c)
                   \/ FinalizeBuildBegin(t, c)
                   \/ CleanLookup(t, c)
            PROVE  FALSE
        BY <2>1, <3>1 DEF StartBuildExisting, StageArtifactsLookup,
                          FinalizeBuildBegin, CleanLookup, serviceVars
      <3>2. ASSUME NEW t \in Thread,
                   \/ \E missing \in SUBSET Items :
                         FilterMissingChildren(t, missing)
                   \/ \E a \in Artifact : \/ StageSingleArtifact(t, a)
                                          \/ SaveDirectory(t, a)
                   \/ StageSingleArtifactFails(t)
                   \/ \E i \in Inode : SaveCreate(t, i)
            PROVE  FALSE
        BY <2>1, <3>2, Zenon
           DEF FilterMissingChildren, StageSingleArtifact, SaveDirectory,
               StageSingleArtifactFails, SaveCreate, serviceVars
      <3>3. ASSUME NEW t \in Thread,
                   \/ SaveRootDirectory(t)
                   \/ SaveStep(t)
                   \/ SaveRename(t)
                   \/ FinalizeBuildEnd(t)
                   \/ RemoveAllChildren(t)
                   \/ StoreClean(t)
                   \/ StoreCleanEnd(t)
                   \/ CleanFails(t)
            PROVE  FALSE
        BY <2>1, <3>3, Zenon
           DEF SaveRootDirectory, SaveStep, SaveRename, FinalizeBuildEnd,
               RemoveAllChildren, StoreClean, StoreCleanEnd, CleanFails,
               serviceVars
      <3>4. ~Commit /\ ~Tick /\ ~UNCHANGED vars
        BY <2>1 DEF Commit, Tick, vars, serviceVars
      <3>5. QED
        BY <2>2, <3>1, <3>2, <3>3, <3>4, Zenon DEF Next
    <2>4. PICK t \in Thread, c \in BaseName, p \in PathID,
               restored \in SUBSET Items : StartBuildInitial(t, c, p, restored)
      BY <2>3
    <2>5. path' = [path EXCEPT ![c] = p]
      BY <2>4 DEF StartBuildInitial
    <2>6. b = c
      BY <2>5 DEF ServiceInv, ServiceTypeOK
    <2>7. QED
      BY <2>4, <2>6
  <1>2. PICK t \in Thread, p \in PathID, restored \in SUBSET Items :
           StartBuildInitial(t, b, p, restored)
    BY <1>1
  <1>3. /\ path' = [path EXCEPT ![b] = p]
        /\ contents' = [contents EXCEPT ![p] = restored]
        /\ restored \subseteq (IF ReadRecent(b) = NULL
                                 THEN {} ELSE ReadRecent(b).contents)
    BY <1>2 DEF StartBuildInitial
  <1>4. item \in restored
    BY <1>3 DEF ServiceInv, ServiceTypeOK
  <1>5. /\ ReadRecent(b) # NULL /\ ReadRecent(b) = Read(b)
        /\ item \in Read(b).contents
        /\ TimeToEpoch(Read(b).created) = TimeToEpoch(now)
    BY <1>3, <1>4 DEF ReadRecent
  <1>6. Read(b) \in RootDirectory
    BY <1>5, ReadType DEF ServiceInv
  <1>7. Read(b).created \in Nat /\ item[2] \in Nat /\ now \in Nat
    BY <1>5, <1>6, TimeInt DEF RootDirectory, Items, ServiceInv, ServiceTypeOK
  <1>8. Read(b).created <= item[2] /\ item[2] <= now
    <2>1. /\ directory[b] \in Inode
          /\ Read(b) = inode[directory[b]].state
      BY <1>5, StoreAssumption DEF Read, ServiceInv, StoreTypeOK
    <2>2. StagedBetween(Read(b).contents, Read(b).created, now)
      BY <1>5, <2>1 DEF AgeInv
    <2>3. QED
      BY <1>5, <2>2 DEF StagedBetween
  <1>9. QED
    BY <1>5, <1>7, <1>8, SameEpoch

(* Whatever an output path starts out with was staged in the current epoch *)
(* of maximumStateFileAge, no matter how often it was saved and restored,  *)
(* and even if calls overlap and the machine loses power.                  *)
THEOREM AgeBounded == Spec => RestoredIsRecent
  <1>1. Init => AgeInv
    <2> SUFFICES ASSUME Init PROVE AgeInv
      OBVIOUS
    <2>1. PathsAged(now)
      BY DEF Init, PathsAged, StagedBetween
    <2>2. CallsAged(now) /\ FilesAged(now)
      BY DEF Init, StoreInit, CallsAged, FilesAged, At, IdleCall, EmptyFile
    <2>3. QED
      BY <2>1, <2>2, AgeParts
  <1>2. ServiceInv /\ AgeInv /\ [Next]_vars =>
           [\A b \in BaseName : path[b] = NULL /\ path'[b] # NULL =>
               \A item \in contents'[path'[b]] :
                   TimeToEpoch(item[2]) = TimeToEpoch(now)]_vars
    BY RestoredIsRecentStep
  <1>3. QED
    BY <1>1, <1>2, ServiceInvInit, ServiceInvNext, AgeInvNext, PTL
       DEF Spec, RestoredIsRecent

-----------------------------------------------------------------------------
(* Without parallel calls, an output base is used by one call, which has   *)
(* its current output path.                                                *)
Exclusive ==
    /\ \A t, u \in Thread : ~At(t, "idle") /\ call[t].base = call[u].base
                              => t = u
    /\ \A t \in Thread : ~At(t, "idle") => path[call[t].base] = call[t].path
    /\ \A b, c \in BaseName : path[b] = path[c] => b = c \/ path[b] = NULL

(* The data that was gathered so far is what the output path contains.     *)
Exact(t) ==
    At(t, "save") =>
        /\ io[t].pc = "create" => call[t].data = {}
        /\ io[t].pc = "writing" =>
              call[t].data = {item \in contents[call[t].path] :
                                 item[1] \notin call[t].todo}
        /\ io[t].pc \in {"sync", "rename"} =>
              /\ inode[io[t].ino].state # NULL
              /\ inode[io[t].ino].state.contents = contents[call[t].path]

SavingExact == \A t \in Thread : Exact(t)

(* Clean() has removed the state file.                                     *)
CleanedOK ==
    \A t \in Thread :
        /\ At(t, "unregister") \/ io[t].pc = "cleanTemporary" =>
              directory[call[t].base] = NULL
        /\ At(t, "factoryClean") => call[t].path = NULL

StagedInv ==
    /\ staged \in [BaseName -> SUBSET Artifact]
    /\ \A b \in BaseName :
          /\ path[b] # NULL => Names(contents[path[b]]) \subseteq staged[b]
          /\ Read(b) # NULL => Names(Read(b).contents) \subseteq staged[b]

SavedInv ==
    /\ saved \in [BaseName -> (SUBSET Items) \union {NULL}]
    /\ SavedStateKept

KeepInv == Exclusive /\ SavingExact /\ CleanedOK /\ StagedInv /\ SavedInv

(* Steps that keep the output paths and do not begin calls.                *)
LEMMA ExclusiveKept ==
    ASSUME ServiceInv, Exclusive, path' = path,
           \A u \in Thread :
              \/ call'[u] = IdleCall
              \/ /\ call'[u].base = call[u].base
                 /\ call'[u].path = call[u].path
                 /\ At(u, "idle") => At(u, "idle")'
    PROVE  Exclusive'
  <1>0. ASSUME NEW u \in Thread, ~At(u, "idle")'
        PROVE  /\ ~At(u, "idle")
               /\ call'[u].base = call[u].base /\ call'[u].path = call[u].path
               /\ call[u].base \in BaseName /\ call[u].base # NULL
    BY <1>0, StoreAssumption DEF IdleCall, At, ServiceInv, CallOK
  <1>1. ASSUME NEW t \in Thread, NEW u \in Thread, ~At(t, "idle")',
               call'[t].base = call'[u].base
        PROVE  t = u
    <2>1. call'[t].base = call[t].base /\ call[t].base # NULL
          /\ ~At(t, "idle")
      BY <1>0, <1>1
    <2>2. call'[u].base = call[u].base
      <3>1. IdleCall.base = NULL
        BY DEF IdleCall
      <3>2. call'[u] # IdleCall
        BY <1>1, <2>1, <3>1
      <3>3. QED
        BY <3>2
    <2>3. QED
      BY <1>1, <2>1, <2>2 DEF Exclusive
  <1>2. \A t \in Thread : ~At(t, "idle")' => path'[call'[t].base] = call'[t].path
    BY <1>0 DEF Exclusive
  <1>3. QED
    BY <1>1, <1>2 DEF Exclusive, At

LEMMA ExclusiveBegin ==
    ASSUME ~Overlap, ServiceInv, Exclusive,
           NEW t \in Thread, NEW b \in BaseName,
           NEW p \in PathID \union {NULL}, NEW pc \in PC, Begin(t, b, p, pc),
           path' = [path EXCEPT ![b] = p],
           p = path[b] \/ p \in FreePath
    PROVE  Exclusive'
  <1>0. /\ ServiceTypeOK /\ path \in [BaseName -> PathID \union {NULL}]
        /\ path'[b] = p
        /\ \A c \in BaseName : c # b => path'[c] = path[c]
    BY DEF ServiceInv, ServiceTypeOK
  <1>1. /\ call'[t] = [pc |-> pc, base |-> b, path |-> p,
                       todo |-> {}, data |-> {}]
        /\ OtherCallsKept(t)
    BY <1>0, BeginCall
  <1>2. call'[t].base = b /\ call'[t].path = p
    BY <1>1
  <1>3. \A u \in Thread : call[u].base # b
    BY DEF Begin
  <1>4. ASSUME NEW u \in Thread, NEW v \in Thread, ~At(u, "idle")',
               call'[u].base = call'[v].base
        PROVE  u = v
    <2>1. CASE u = t \/ v = t
      BY <1>1, <1>2, <1>3, <1>4, <2>1 DEF OtherCallsKept
    <2>2. CASE u # t /\ v # t
      BY <1>1, <1>4, <2>2 DEF OtherCallsKept, Exclusive, At
    <2>3. QED
      BY <2>1, <2>2
  <1>5. ASSUME NEW u \in Thread, ~At(u, "idle")'
        PROVE  path'[call'[u].base] = call'[u].path
    <2>1. CASE u = t
      BY <1>0, <1>2, <2>1
    <2>2. CASE u # t
      <3>1. call'[u] = call[u] /\ ~At(u, "idle")
        BY <1>1, <1>5, <2>2 DEF OtherCallsKept, At
      <3>2. call[u].base \in BaseName /\ call[u].base # b
        BY <1>3, <3>1 DEF ServiceInv, CallOK
      <3>3. QED
        BY <1>0, <3>1, <3>2 DEF Exclusive
    <2>3. QED
      BY <2>1, <2>2
  <1>6. ASSUME NEW c \in BaseName, NEW d \in BaseName, path'[c] = path'[d]
        PROVE  c = d \/ path'[c] = NULL
    <2>1. CASE p = path[b]
      BY <1>0, <1>6, <2>1 DEF Exclusive
    <2>2. CASE p \in FreePath
      <3>1. \A e \in BaseName : path[e] # p
        BY <2>2 DEF FreePath
      <3>2. QED
        BY <1>0, <1>6, <3>1 DEF Exclusive
    <2>3. QED
      BY <2>1, <2>2
  <1>7. QED
    BY <1>4, <1>5, <1>6 DEF Exclusive, At

LEMMA ExclusiveUnregister ==
    ASSUME ServiceInv, Exclusive, NEW t \in Thread, CleanUnregister(t)
    PROVE  /\ Exclusive'
           /\ path[call[t].base] = call[t].path
           /\ path' = [path EXCEPT ![call[t].base] = NULL]
  <1> DEFINE b == call[t].base
  <1>0. ServiceTypeOK /\ path \in [BaseName -> PathID \union {NULL}]
    BY DEF ServiceInv, ServiceTypeOK
  <1>1. /\ ~At(t, "idle") /\ b \in BaseName /\ Return(t)
        /\ path[b] = call[t].path
    BY DEF CleanUnregister, CleanReturns, At, ServiceInv, CallOK, Exclusive
  <1>2. path' = [path EXCEPT ![b] = NULL]
    BY <1>1 DEF CleanUnregister
  <1>3. call'[t] = IdleCall /\ OtherCallsKept(t)
    BY <1>0, <1>1, ReturnCall
  <1>4. ASSUME NEW u \in Thread, ~At(u, "idle")'
        PROVE  /\ u # t /\ call'[u] = call[u] /\ ~At(u, "idle")
               /\ call[u].base \in BaseName /\ call[u].base # b
    <2>1. u # t /\ call'[u] = call[u] /\ ~At(u, "idle")
      BY <1>3, <1>4 DEF OtherCallsKept, At, IdleCall
    <2>2. QED
      BY <1>1, <2>1 DEF ServiceInv, CallOK, Exclusive
  <1>5. ASSUME NEW u \in Thread, NEW v \in Thread, ~At(u, "idle")',
               call'[u].base = call'[v].base
        PROVE  u = v
    <2>1. /\ call'[u] = call[u] /\ ~At(u, "idle") /\ call[u].base # NULL
      BY <1>4, <1>5, StoreAssumption
    <2>2. v # t /\ call'[v] = call[v]
      BY <1>3, <1>5, <2>1 DEF OtherCallsKept, IdleCall
    <2>3. QED
      BY <1>5, <2>1, <2>2 DEF Exclusive
  <1>6. ASSUME NEW u \in Thread, ~At(u, "idle")'
        PROVE  path'[call'[u].base] = call'[u].path
    <2>1. path'[call[u].base] = path[call[u].base]
      BY <1>0, <1>2, <1>4, <1>6
    <2>2. QED
      BY <1>4, <1>6, <2>1 DEF Exclusive
  <1>7. \A c, d \in BaseName : path'[c] = path'[d] => c = d \/ path'[c] = NULL
    BY <1>0, <1>2 DEF Exclusive
  <1>8. Exclusive'
    BY <1>5, <1>6, <1>7 DEF Exclusive, At
  <1>9. QED
    BY <1>1, <1>2, <1>8

(* How steps that do not begin calls change the calls.                     *)
CallsKept ==
    \A u \in Thread :
        \/ call'[u] = IdleCall
        \/ /\ call'[u].base = call[u].base
           /\ call'[u].path = call[u].path
           /\ At(u, "idle") => At(u, "idle")'

LEMMA StepKeepsCalls ==
    ASSUME ServiceInv, NEW t \in Thread,
           \/ \E missing \in SUBSET Items : FilterMissingChildren(t, missing)
           \/ \E a \in Artifact : \/ StageSingleArtifact(t, a)
                                  \/ SaveDirectory(t, a)
           \/ StageSingleArtifactFails(t)
           \/ \E i \in Inode : SaveCreate(t, i)
           \/ SaveRootDirectory(t)
           \/ SaveStep(t)
           \/ SaveRename(t)
           \/ FinalizeBuildEnd(t)
           \/ RemoveAllChildren(t)
           \/ StoreClean(t)
           \/ StoreCleanEnd(t)
           \/ CleanFails(t)
    PROVE  path' = path /\ CallsKept /\ OtherCallsKept(t)
  <1>0. ServiceTypeOK /\ call \in [Thread -> CallState] /\ call[t] \in CallState
    BY DEF ServiceInv, ServiceTypeOK
  <1>1. CASE Return(t)
    <2>1. CallsKept /\ OtherCallsKept(t)
      BY <1>0, <1>1, ReturnCall DEF CallsKept, OtherCallsKept, At
    <2>2. path' = path
      BY <1>1, Zenon
         DEF FilterMissingChildren, StageSingleArtifact, SaveDirectory,
             StageSingleArtifactFails, SaveCreate, SaveRootDirectory, SaveStep,
             SaveRename, FinalizeBuildEnd, RemoveAllChildren, StoreClean,
             StoreCleanEnd, CleanFails, serviceVars
    <2>3. QED
      BY <2>1, <2>2
  <1>2. CASE UNCHANGED <<serviceVars, call>>
    BY <1>2 DEF CallsKept, OtherCallsKept, At, serviceVars
  <1>3. ASSUME NEW pc \in PC, Goto(t, pc), path' = path, ~At(t, "idle")
        PROVE  path' = path /\ CallsKept /\ OtherCallsKept(t)
    <2>1. /\ call'[t].base = call[t].base /\ call'[t].path = call[t].path
          /\ OtherCallsKept(t)
      BY <1>0, <1>3, GotoCall
    <2>2. QED
      BY <1>3, <2>1 DEF CallsKept, OtherCallsKept, At
  <1>4. ASSUME NEW a \in Artifact, SaveDirectory(t, a)
        PROVE  path' = path /\ CallsKept /\ OtherCallsKept(t)
    <2> DEFINE data == call[t].data \union Named(contents[call[t].path], a)
    <2>1. /\ call' = [call EXCEPT ![t].todo = call[t].todo \ {a},
                                  ![t].data = data]
          /\ path' = path /\ At(t, "save")
      BY <1>4 DEF SaveDirectory, serviceVars
    <2> HIDE DEF data
    <2>2. /\ call'[t].base = call[t].base /\ call'[t].path = call[t].path
          /\ OtherCallsKept(t)
      BY <1>0, <2>1 DEF CallState, OtherCallsKept
    <2>3. QED
      BY <2>1, <2>2 DEF CallsKept, OtherCallsKept, At
  <1>5. ASSUME NEW i \in Inode, SaveCreate(t, i)
        PROVE  path' = path /\ CallsKept /\ OtherCallsKept(t)
    <2>1. /\ call' = [call EXCEPT ![t].todo = Artifact]
          /\ path' = path /\ At(t, "save")
      BY <1>5 DEF SaveCreate, serviceVars
    <2>2. /\ call'[t].base = call[t].base /\ call'[t].path = call[t].path
          /\ OtherCallsKept(t)
      BY <1>0, <2>1 DEF CallState, OtherCallsKept
    <2>3. QED
      BY <2>1, <2>2 DEF CallsKept, OtherCallsKept, At
  <1>6. CASE RemoveAllChildren(t)
    <2>1. Goto(t, "cleaning") /\ path' = path /\ ~At(t, "idle")
      BY <1>6 DEF RemoveAllChildren, At
    <2>2. QED
      BY <1>3, <2>1 DEF PC
  <1>7. CASE StoreCleanEnd(t)
    <2>1. CASE Goto(t, "unregister") /\ At(t, "cleaning")
      <3>1. path' = path /\ ~At(t, "idle")
        BY <1>7, <2>1 DEF StoreCleanEnd, serviceVars, At
      <3>2. QED
        BY <1>3, <2>1, <3>1 DEF PC
    <2>2. QED
      BY <1>1, <1>7, <2>1 DEF StoreCleanEnd, CleanReturns
  <1>8. CASE \/ SaveRootDirectory(t) \/ SaveStep(t) \/ SaveRename(t)
             \/ StoreClean(t)
    BY <1>2, <1>8 DEF SaveRootDirectory, SaveStep, SaveRename, StoreClean
  <1>9. CASE \/ \E missing \in SUBSET Items : FilterMissingChildren(t, missing)
             \/ \E a \in Artifact : StageSingleArtifact(t, a)
             \/ StageSingleArtifactFails(t)
             \/ FinalizeBuildEnd(t)
             \/ CleanFails(t)
    <2>1. Return(t)
      BY <1>9, Zenon
         DEF FilterMissingChildren, StageSingleArtifact,
             StageSingleArtifactFails, FinalizeBuildEnd, CleanFails
    <2>2. QED
      BY <1>1, <2>1
  <1>10. QED
    BY <1>4, <1>5, <1>6, <1>7, <1>8, <1>9, Zenon

LEMMA ExclusiveNext ==
    ASSUME ~Overlap, ~PowerFails, ServiceInv, Exclusive, [Next]_vars
    PROVE  Exclusive'
  <1>0. path \in [BaseName -> PathID \union {NULL}]
    BY DEF ServiceInv, ServiceTypeOK
  <1>1. ASSUME NEW t \in Thread, NEW b \in BaseName,
               NEW p \in PathID, NEW restored \in SUBSET Items,
               StartBuildInitial(t, b, p, restored)
        PROVE  Exclusive'
    <2>1. /\ Begin(t, b, p, "filter") /\ p \in FreePath
          /\ path' = [path EXCEPT ![b] = p]
      BY <1>1 DEF StartBuildInitial
    <2>2. QED
      BY <2>1, ExclusiveBegin DEF PC
  <1>2. ASSUME NEW t \in Thread, NEW b \in BaseName,
               \/ StartBuildExisting(t, b)
               \/ StageArtifactsLookup(t, b)
               \/ FinalizeBuildBegin(t, b)
               \/ CleanLookup(t, b)
        PROVE  Exclusive'
    <2>1. PICK pc \in PC : Begin(t, b, path[b], pc)
      BY <1>2 DEF StartBuildExisting, StageArtifactsLookup, FinalizeBuildBegin,
                  CleanLookup, PC
    <2>2. path' = path
      BY <1>2 DEF StartBuildExisting, StageArtifactsLookup, FinalizeBuildBegin,
                  CleanLookup, serviceVars
    <2>3. path' = [path EXCEPT ![b] = path[b]] /\ path[b] \in PathID \union {NULL}
      BY <1>0, <2>2
    <2>4. QED
      BY <2>1, <2>3, ExclusiveBegin
  <1>3. ASSUME NEW t \in Thread,
               \/ \E missing \in SUBSET Items :
                     FilterMissingChildren(t, missing)
               \/ \E a \in Artifact : \/ StageSingleArtifact(t, a)
                                      \/ SaveDirectory(t, a)
               \/ StageSingleArtifactFails(t)
               \/ \E i \in Inode : SaveCreate(t, i)
               \/ SaveRootDirectory(t)
               \/ SaveStep(t)
               \/ SaveRename(t)
               \/ FinalizeBuildEnd(t)
               \/ RemoveAllChildren(t)
               \/ StoreClean(t)
               \/ StoreCleanEnd(t)
               \/ CleanFails(t)
        PROVE  Exclusive'
    <2>1. path' = path /\ CallsKept
      BY <1>3, StepKeepsCalls
    <2>2. QED
      BY <2>1, ExclusiveKept DEF CallsKept
  <1>4. ASSUME NEW t \in Thread, CleanUnregister(t) PROVE Exclusive'
    BY <1>4, ExclusiveUnregister
  <1>5. CASE Restart
    BY <1>5 DEF Restart, ServiceRestart, Exclusive, At, IdleCall
  <1>6. CASE Tick \/ UNCHANGED vars
    <2>1. path' = path /\ CallsKept
      BY <1>6 DEF Tick, vars, serviceVars, CallsKept, At
    <2>2. QED
      BY <2>1, ExclusiveKept DEF CallsKept
  <1>7. ~Commit /\ \A torn \in SUBSET Inode : ~PowerLoss(torn)
    BY DEF Commit, PowerLoss
  <1>8. QED
    BY <1>1, <1>2, <1>3, <1>4, <1>5, <1>6, <1>7, Zenon DEF Next

-----------------------------------------------------------------------------
(* What is read for an output base only changes when its state file is     *)
(* removed or replaced: temporary files and files that are being written   *)
(* do not matter.                                                          *)
FileKept(b) ==
    /\ directory'[b] = directory[b]
    /\ Read(b)' = Read(b)
    /\ saved'[b] = saved[b]

FileRemoved(b) ==
    \E t \in Thread :
        StoreClean(t) /\ call[t].base = b /\ directory'[b] = NULL

FileReplaced(b) ==
    \E t \in Thread :
        /\ SaveRename(t) /\ call[t].base = b
        /\ directory'[b] = io[t].ino /\ io[t].ino \in Inode
        /\ inode' = inode /\ inode[io[t].ino].whole

LEMMA ReadStep ==
    ASSUME NoCollision, ~PowerFails, ServiceInv, SInv, [Next]_vars,
           saved \in [BaseName -> (SUBSET Items) \union {NULL}],
           NEW b \in BaseName
    PROVE  FileKept(b) \/ FileRemoved(b) \/ FileReplaced(b)
  <1>0. /\ StoreTypeOK /\ IOArguments /\ b \in Name
        /\ directory \in [Name -> Inode \union {NULL}]
        /\ io \in [Thread -> IOState]
        /\ \A c \in BaseName : /\ c \in Name /\ TemporaryName[c] \in Name
                               /\ TemporaryName[c] # b
    BY StoreAssumption DEF ServiceInv, StoreTypeOK, NoCollision
  <1>a. ASSUME directory'[b] = directory[b], saved'[b] = saved[b],
               directory[b] # NULL =>
                  /\ inode'[directory[b]].whole = inode[directory[b]].whole
                  /\ inode'[directory[b]].state = inode[directory[b]].state
        PROVE  FileKept(b)
    BY <1>a DEF FileKept, Read
  <1>1. CASE UNCHANGED <<directory, inode, saved>>
    BY <1>1, <1>a
  <1>2. ASSUME NEW t \in Thread, NEW c \in BaseName,
               directory' = [directory EXCEPT ![TemporaryName[c]] = NULL],
               UNCHANGED <<inode, saved>>
        PROVE  FileKept(b)
    BY <1>0, <1>2, <1>a
  <1>3. ASSUME NEW t \in Thread, NEW c \in BaseName, FinalizeBuildBegin(t, c)
        PROVE  FileKept(b)
    <2>1. CASE WriteRemove(t, c)
      BY <1>2, <1>3, <2>1 DEF FinalizeBuildBegin, WriteRemove, history
    <2>2. QED
      BY <1>1, <1>3, <1>a, <2>1 DEF FinalizeBuildBegin, storeVars, history
  <1>4. ASSUME NEW t \in Thread, NEW i \in Inode, SaveCreate(t, i)
        PROVE  FileKept(b)
    <2>1. /\ io[t].base \in BaseName
          /\ i \in FreeInode
          /\ directory' = [directory EXCEPT ![TemporaryName[io[t].base]] = i]
          /\ inode' = [inode EXCEPT ![i] = EmptyFile]
          /\ saved' = saved
      BY <1>0, <1>4 DEF SaveCreate, WriteCreate, IOArguments, Temporary,
                        history
    <2>2. directory'[b] = directory[b]
      BY <1>0, <2>1
    <2>3. directory[b] # i
      BY <1>0, <2>1 DEF FreeInode
    <2>4. directory[b] # NULL => inode'[directory[b]] = inode[directory[b]]
      BY <1>0, <2>1, <2>3 DEF StoreTypeOK
    <2>5. QED
      BY <1>a, <2>1, <2>2, <2>4
  <1>5. ASSUME NEW t \in Thread, NEW file, HasFile(t),
               inode' = [inode EXCEPT ![io[t].ino] = file],
               UNCHANGED <<directory, saved>>
        PROVE  FileKept(b)
    <2>1. directory[b] # io[t].ino
      BY <1>5 DEF SInv, WriterOwnsFile
    <2>2. directory[b] # NULL => inode'[directory[b]] = inode[directory[b]]
      BY <1>0, <1>5, <2>1 DEF StoreTypeOK
    <2>3. QED
      BY <1>a, <1>5, <2>2
  <1>6. ASSUME NEW t \in Thread, SaveRootDirectory(t) PROVE FileKept(b)
    <2> DEFINE file == [state |-> [contents |-> call[t].data,
                                   created |-> created[call[t].path]],
                        whole |-> TRUE, synced |-> FALSE]
    <2>1. /\ HasFile(t)
          /\ inode' = [inode EXCEPT ![io[t].ino] = file]
          /\ UNCHANGED <<directory, saved>>
      BY <1>6 DEF SaveRootDirectory, FinalizeWrite, HasFile, history
    <2> HIDE DEF file
    <2>2. QED
      BY <1>5, <2>1
  <1>7. ASSUME NEW t \in Thread, SaveStep(t) PROVE FileKept(b)
    <2>0. saved' = saved
      BY <1>7 DEF SaveStep, history
    <2>1. CASE FinalizeSync(t)
      <3> DEFINE file == [inode[io[t].ino] EXCEPT !.synced = TRUE]
      <3>1. /\ HasFile(t)
            /\ inode' = [inode EXCEPT ![io[t].ino] = file]
            /\ directory' = directory
        BY <1>0, <2>1 DEF FinalizeSync, HasFile, StoreTypeOK, IOArguments
      <3> HIDE DEF file
      <3>2. QED
        BY <1>5, <2>0, <3>1
    <2>2. CASE WriterClose(t)
      <3>1. io[t].base \in BaseName
        BY <1>0, <2>2 DEF WriterClose, IOArguments
      <3>2. QED
        BY <1>1, <1>2, <1>a, <2>0, <2>2, <3>1 DEF WriterClose, Temporary
    <2>3. CASE WriteCreateFails(t) \/ WriterFails(t)
      BY <1>1, <1>a, <2>0, <2>3 DEF WriteCreateFails, WriterFails
    <2>4. QED
      BY <1>7, <2>1, <2>2, <2>3 DEF SaveStep
  <1>8. ASSUME NEW t \in Thread, SaveRename(t)
        PROVE  FileKept(b) \/ FileReplaced(b)
    <2> DEFINE tmp == TemporaryName[io[t].base]
    <2>1. /\ io[t].pc = "rename" /\ HasFile(t)
          /\ directory[tmp] # NULL
          /\ directory' = [directory EXCEPT ![io[t].base] = directory[tmp],
                                            ![tmp] = NULL]
          /\ inode' = inode
          /\ saved' = [saved EXCEPT ![call[t].base] = contents[call[t].path]]
      BY <1>8 DEF SaveRename, FinalizeRename, HasFile, Temporary
    <2>2. /\ io[t].base = call[t].base /\ io[t].base \in BaseName
          /\ io[t].ino \in Inode
          /\ inode[io[t].ino].whole
          /\ directory[tmp] = io[t].ino
      BY <1>0, <2>1 DEF ServiceInv, CallOK, SInv, IOArguments, WriterProgress,
                        WriterOwnsFile, HasFile, Temporary
    <2>3. CASE b = io[t].base
      <3>1. directory'[b] = io[t].ino
        BY <1>0, <2>1, <2>2, <2>3
      <3>2. QED
        BY <1>8, <2>1, <2>2, <2>3, <3>1 DEF FileReplaced
    <2>4. CASE b # io[t].base
      <3>1. directory'[b] = directory[b]
        BY <1>0, <2>1, <2>2, <2>4
      <3>2. saved'[b] = saved[b]
        BY <2>1, <2>2, <2>4
      <3>3. QED
        BY <1>a, <2>1, <3>1, <3>2
    <2>5. QED
      BY <2>3, <2>4
  <1>9. ASSUME NEW t \in Thread, StoreClean(t)
        PROVE  FileKept(b) \/ FileRemoved(b)
    <2>1. /\ directory' = [directory EXCEPT ![call[t].base] = NULL]
          /\ inode' = inode
          /\ saved' = [saved EXCEPT ![call[t].base] = NULL]
      BY <1>9 DEF StoreClean, CleanState
    <2>2. CASE call[t].base = b
      BY <1>0, <1>9, <2>1, <2>2 DEF FileRemoved
    <2>3. CASE call[t].base # b
      BY <1>0, <1>a, <2>1, <2>3
    <2>4. QED
      BY <2>2, <2>3
  <1>10. ASSUME NEW t \in Thread, StoreCleanEnd(t) PROVE FileKept(b)
    <2>1. /\ directory' = [directory EXCEPT ![TemporaryName[io[t].base]] = NULL]
          /\ inode' = inode /\ io[t].base \in BaseName
          /\ saved' = saved
      BY <1>0, <1>10 DEF StoreCleanEnd, CleanTemporary, Temporary, IOArguments,
                         history
    <2>2. QED
      BY <1>2, <2>1
  <1>11. ASSUME NEW t \in Thread, CleanFails(t) PROVE FileKept(b)
    BY <1>1, <1>a, <1>11 DEF CleanFails, CleanTemporaryFails, storeVars
  <1>12. ASSUME NEW t \in Thread, NEW c \in BaseName,
                \/ \E p \in PathID, restored \in SUBSET Items :
                      StartBuildInitial(t, c, p, restored)
                \/ StartBuildExisting(t, c)
                \/ StageArtifactsLookup(t, c)
                \/ CleanLookup(t, c)
         PROVE  FileKept(b)
    <2>1. UNCHANGED <<storeVars, saved>>
      BY <1>12 DEF StartBuildInitial, StartBuildExisting,
                   StageArtifactsLookup, CleanLookup, history
    <2>2. QED
      BY <1>a, <2>1 DEF storeVars
  <1>13. ASSUME NEW t \in Thread,
                \/ \E missing \in SUBSET Items :
                      FilterMissingChildren(t, missing)
                \/ \E a \in Artifact : \/ StageSingleArtifact(t, a)
                                       \/ SaveDirectory(t, a)
                \/ StageSingleArtifactFails(t)
                \/ FinalizeBuildEnd(t)
                \/ RemoveAllChildren(t)
                \/ CleanUnregister(t)
         PROVE  FileKept(b)
    <2>1. UNCHANGED <<storeVars, saved>>
      BY <1>13, Zenon
         DEF FilterMissingChildren, StageSingleArtifact, SaveDirectory,
             StageSingleArtifactFails, FinalizeBuildEnd, RemoveAllChildren,
             CleanUnregister, history
    <2>2. QED
      BY <1>a, <2>1 DEF storeVars
  <1>14. CASE Restart \/ Tick \/ UNCHANGED vars
    BY <1>a, <1>14 DEF Restart, StoreRestart, ServiceRestart, Tick, vars,
                       storeVars, history
  <1>15. ~Commit /\ \A torn \in SUBSET Inode : ~PowerLoss(torn)
    BY DEF Commit, PowerLoss
  <1>16. QED
    BY <1>3, <1>4, <1>6, <1>7, <1>8, <1>9, <1>10, <1>11, <1>12, <1>13, <1>14,
       <1>15, Zenon
       DEF Next

-----------------------------------------------------------------------------
(* The output path of a call that saves is only changed by that call.      *)
LEMMA OneSaver ==
    ASSUME ServiceInv, NEW t \in Thread, NEW u \in Thread,
           At(t, "save"), At(u, "save")
    PROVE  t = u
  BY DEF ServiceInv, CallOK

LEMMA OtherPath ==
    ASSUME ServiceInv, Exclusive, NEW t \in Thread, NEW u \in Thread, t # u,
           ~At(t, "idle"), At(u, "save")
    PROVE  call[u].path \in PathID /\ call[u].path # call[t].path
  <1>1. /\ call[u].path \in PathID /\ ~At(u, "idle")
        /\ call[u].base \in BaseName /\ call[t].base \in BaseName
    BY DEF ServiceInv, CallOK, At
  <1>2. call[u].base # call[t].base
    BY <1>1 DEF Exclusive
  <1>3. path[call[u].base] = call[u].path /\ path[call[t].base] = call[t].path
    BY <1>1 DEF Exclusive
  <1>4. QED
    BY <1>1, <1>2, <1>3, PersistencyAssumption DEF Exclusive

LEMMA ExactOthers ==
    ASSUME ServiceInv, SavingExact, NEW t \in Thread, OtherCallsKept(t),
           \A u \in Thread : u # t => io'[u] = io[u],
           inode' = inode \/ At(t, "save"),
           \A u \in Thread : u # t /\ At(u, "save") =>
              contents'[call[u].path] = contents[call[u].path],
           Exact(t)'
    PROVE  SavingExact'
  <1> SUFFICES ASSUME NEW u \in Thread, u # t, At(u, "save")'
               PROVE  Exact(u)'
    BY DEF SavingExact, Exact
  <1>1. call'[u] = call[u] /\ io'[u] = io[u] /\ At(u, "save")
    BY DEF OtherCallsKept, At
  <1>2. inode' = inode
    BY <1>1, OneSaver
  <1>3. contents'[call[u].path] = contents[call[u].path]
    BY <1>1
  <1>4. Exact(u)
    BY DEF SavingExact
  <1>5. QED
    BY <1>1, <1>2, <1>3, <1>4 DEF Exact, At

(* Steps that do not change output paths, and do not save.                 *)
LEMMA ExactIdle ==
    ASSUME ServiceInv, SavingExact, NEW t \in Thread, OtherCallsKept(t),
           \A u \in Thread : u # t => io'[u] = io[u],
           UNCHANGED <<inode, contents>>, ~At(t, "save")'
    PROVE  SavingExact'
  <1>1. Exact(t)'
    BY DEF Exact
  <1>2. QED
    BY <1>1, ExactOthers

LEMMA ExactBegin ==
    ASSUME ServiceInv, SavingExact, NEW t \in Thread, NEW b \in BaseName,
           \/ StartBuildExisting(t, b)
           \/ StageArtifactsLookup(t, b)
           \/ CleanLookup(t, b)
    PROVE  SavingExact'
  <1>0. ServiceTypeOK /\ path[b] \in PathID \union {NULL}
    BY DEF ServiceInv, ServiceTypeOK
  <1>1. PICK pc \in PC \ {"save"} : Begin(t, b, path[b], pc)
    BY DEF StartBuildExisting, StageArtifactsLookup, CleanLookup, PC
  <1>2. /\ call'[t] = [pc |-> pc, base |-> b, path |-> path[b],
                       todo |-> {}, data |-> {}]
        /\ OtherCallsKept(t)
    BY <1>0, <1>1, BeginCall
  <1>3. ~At(t, "save")'
    BY <1>2 DEF At
  <1>4. UNCHANGED <<inode, contents, io>>
    BY DEF StartBuildExisting, StageArtifactsLookup, CleanLookup, storeVars,
           serviceVars
  <1>5. QED
    BY <1>2, <1>3, <1>4, ExactIdle

LEMMA ExactStartInitial ==
    ASSUME ServiceInv, SavingExact, NEW t \in Thread, NEW b \in BaseName,
           NEW p \in PathID, NEW restored \in SUBSET Items,
           StartBuildInitial(t, b, p, restored)
    PROVE  SavingExact'
  <1>0. ServiceTypeOK
    BY DEF ServiceInv
  <1>1. /\ Begin(t, b, p, "filter") /\ p \in FreePath
        /\ contents' = [contents EXCEPT ![p] = restored]
        /\ UNCHANGED <<inode, io>>
    BY DEF StartBuildInitial, storeVars
  <1>2. /\ call'[t] = [pc |-> "filter", base |-> b, path |-> p,
                       todo |-> {}, data |-> {}]
        /\ OtherCallsKept(t)
    BY <1>0, <1>1, BeginCall DEF PC
  <1>3. Exact(t)'
    BY <1>2 DEF Exact, At
  <1>4. ASSUME NEW u \in Thread, At(u, "save")
        PROVE  contents'[call[u].path] = contents[call[u].path]
    <2>1. call[u].path \in PathID /\ call[u].path # p
      BY <1>1, <1>4 DEF FreePath, ServiceInv, CallOK, At
    <2>2. QED
      BY <1>0, <1>1, <2>1 DEF ServiceTypeOK
  <1>5. QED
    BY <1>1, <1>2, <1>3, <1>4, ExactOthers

LEMMA ExactContents ==
    ASSUME ServiceInv, Exclusive, SavingExact, NEW t \in Thread,
           \/ \E missing \in SUBSET Items : FilterMissingChildren(t, missing)
           \/ \E a \in Artifact : StageSingleArtifact(t, a)
           \/ StageSingleArtifactFails(t)
           \/ RemoveAllChildren(t)
    PROVE  SavingExact'
  <1> DEFINE p == call[t].path
  <1>0. ServiceTypeOK
    BY DEF ServiceInv
  <1>1. /\ ~At(t, "idle")
        /\ Return(t) \/ Goto(t, "cleaning")
        /\ UNCHANGED <<inode, io>>
    BY Zenon DEF FilterMissingChildren, StageSingleArtifact, At,
                 StageSingleArtifactFails, RemoveAllChildren, storeVars
  <1>2. \A q \in PathID : q # p => contents'[q] = contents[q]
    <2>1. PICK items : contents' = [contents EXCEPT ![p] = items]
                         \/ contents' = contents
      BY Zenon DEF FilterMissingChildren, StageSingleArtifact,
                   StageSingleArtifactFails, RemoveAllChildren, serviceVars
    <2>2. QED
      BY <1>0, <2>1 DEF ServiceTypeOK
  <1>3. OtherCallsKept(t) /\ ~At(t, "save")'
    <2>1. CASE Return(t)
      BY <1>0, <2>1, ReturnCall DEF At, IdleCall
    <2>2. CASE Goto(t, "cleaning")
      <3>1. call'[t].pc = "cleaning" /\ OtherCallsKept(t)
        BY <1>0, <2>2, GotoCall DEF PC
      <3>2. QED
        BY <3>1 DEF At
    <2>3. QED
      BY <1>1, <2>1, <2>2
  <1>4. \A u \in Thread : u # t /\ At(u, "save") =>
           contents'[call[u].path] = contents[call[u].path]
    BY <1>1, <1>2, OtherPath
  <1>5. Exact(t)'
    BY <1>3 DEF Exact
  <1>6. QED
    BY <1>1, <1>3, <1>4, <1>5, ExactOthers

LEMMA ExactClean ==
    ASSUME ServiceInv, SavingExact, NEW t \in Thread,
           \/ StoreClean(t)
           \/ StoreCleanEnd(t)
           \/ CleanFails(t)
           \/ CleanUnregister(t)
           \/ FinalizeBuildEnd(t)
    PROVE  SavingExact'
  <1>0. ServiceTypeOK /\ io \in [Thread -> IOState]
    BY DEF ServiceInv, StoreTypeOK
  <1>1. UNCHANGED <<contents, inode>>
    BY DEF StoreClean, StoreCleanEnd, CleanFails, CleanUnregister, CleanState,
           CleanTemporary, CleanTemporaryFails, FinalizeBuildEnd, serviceVars,
           storeVars
  <1>2. \A u \in Thread : u # t => io'[u] = io[u]
    BY <1>0
       DEF StoreClean, StoreCleanEnd, CleanFails, CleanUnregister, CleanState,
           CleanTemporary, CleanTemporaryFails, FinalizeBuildEnd, storeVars,
           IODone
  <1>3. \/ UNCHANGED call /\ ~At(t, "save")
        \/ Return(t)
        \/ Goto(t, "unregister")
    BY DEF StoreClean, StoreCleanEnd, CleanFails, CleanUnregister,
           CleanReturns, FinalizeBuildEnd, At
  <1>4. OtherCallsKept(t) /\ ~At(t, "save")'
    <2>1. CASE UNCHANGED call /\ ~At(t, "save")
      BY <2>1 DEF OtherCallsKept, At
    <2>2. CASE Return(t)
      BY <1>0, <2>2, ReturnCall DEF At, IdleCall
    <2>3. CASE Goto(t, "unregister")
      <3>1. call'[t].pc = "unregister" /\ OtherCallsKept(t)
        BY <1>0, <2>3, GotoCall DEF PC
      <3>2. QED
        BY <3>1 DEF At
    <2>4. QED
      BY <1>3, <2>1, <2>2, <2>3
  <1>5. QED
    BY <1>1, <1>2, <1>4, ExactIdle

(* The steps of the call that saves.                                       *)
LEMMA ExactSave ==
    ASSUME ServiceInv, SavingExact, NEW t \in Thread,
           \/ \E b \in BaseName : FinalizeBuildBegin(t, b)
           \/ \E i \in Inode : SaveCreate(t, i)
           \/ \E a \in Artifact : SaveDirectory(t, a)
           \/ SaveRootDirectory(t)
           \/ SaveStep(t)
           \/ SaveRename(t)
    PROVE  SavingExact'
  <1> DEFINE p == call[t].path
  <1>0. /\ ServiceTypeOK /\ CallOK(t) /\ StoreTypeOK /\ IOArguments
        /\ call \in [Thread -> CallState] /\ call[t] \in CallState
        /\ io \in [Thread -> IOState]
        /\ Exact(t)
    BY DEF ServiceInv, ServiceTypeOK, StoreTypeOK, SavingExact
  <1>a. ASSUME OtherCallsKept(t), \A u \in Thread : u # t => io'[u] = io[u],
               inode' = inode \/ At(t, "save"), contents' = contents, Exact(t)'
        PROVE  SavingExact'
    BY <1>a, ExactOthers
  <1>1. ASSUME NEW b \in BaseName, FinalizeBuildBegin(t, b)
        PROVE  SavingExact'
    <2>1. /\ Begin(t, b, path[b], "save") /\ path[b] \in PathID \union {NULL}
          /\ UNCHANGED <<contents, inode>>
      BY <1>0, <1>1 DEF FinalizeBuildBegin, WriteRemove, ServiceTypeOK,
                        storeVars
    <2>2. /\ call'[t] = [pc |-> "save", base |-> b, path |-> path[b],
                         todo |-> {}, data |-> {}]
          /\ OtherCallsKept(t) /\ At(t, "idle")
      BY <1>0, <2>1, BeginCall DEF PC
    <2>3. io[t].pc = "idle"
      BY <2>2, FileIdle DEF At
    <2>4. /\ \A u \in Thread : u # t => io'[u] = io[u]
          /\ io'[t].pc \in {"idle", "create"}
      BY <1>0, <1>1, <2>3 DEF FinalizeBuildBegin, WriteRemove, storeVars
    <2>5. call'[t].data = {}
      BY <2>2
    <2>6. Exact(t)'
      BY <2>4, <2>5 DEF Exact
    <2>7. QED
      BY <1>a, <2>1, <2>2, <2>4, <2>6
  <1>2. ASSUME NEW i \in Inode, SaveCreate(t, i) PROVE SavingExact'
    <2>1. /\ At(t, "save") /\ io[t].pc = "create"
          /\ io' = [io EXCEPT ![t].pc = "writing", ![t].ino = i]
          /\ call' = [call EXCEPT ![t].todo = Artifact]
          /\ contents' = contents
      BY <1>2 DEF SaveCreate, WriteCreate, serviceVars
    <2>2. /\ OtherCallsKept(t) /\ \A u \in Thread : u # t => io'[u] = io[u]
          /\ io'[t].pc = "writing"
          /\ call'[t].path = p /\ call'[t].todo = Artifact
          /\ call'[t].data = call[t].data
      BY <1>0, <2>1 DEF OtherCallsKept, CallState, IOState
    <2>3. call[t].data = {} /\ p \in PathID
      BY <1>0, <2>1 DEF Exact, CallOK, At
    <2>4. \A item \in contents[p] : item[1] \in Artifact
      <3>1. contents[p] \in SUBSET Items
        BY <1>0, <2>3 DEF ServiceTypeOK
      <3>2. QED
        BY <3>1 DEF Items
    <2>5. {item \in contents[p] : item[1] \notin Artifact} = {}
      BY <2>4
    <2>6. Exact(t)'
      BY <2>1, <2>2, <2>3, <2>5 DEF Exact
    <2>7. QED
      BY <1>a, <2>1, <2>2, <2>6
  <1>3. ASSUME NEW a \in Artifact, SaveDirectory(t, a) PROVE SavingExact'
    <2> DEFINE data == call[t].data \union Named(contents[p], a)
    <2>1. /\ At(t, "save") /\ io[t].pc = "writing"
          /\ UNCHANGED <<contents, inode, io>>
      BY <1>3 DEF SaveDirectory, serviceVars, storeVars
    <2>2. call' = [call EXCEPT ![t].todo = call[t].todo \ {a},
                               ![t].data = data]
      BY <1>3 DEF SaveDirectory
    <2>3. call[t].data = {item \in contents[p] : item[1] \notin call[t].todo}
      BY <1>0, <2>1 DEF Exact
    <2>4. data = {item \in contents[p] : item[1] \notin call[t].todo \ {a}}
      BY <2>3 DEF Named
    <2> HIDE DEF data
    <2>5. /\ OtherCallsKept(t)
          /\ call'[t].path = p /\ call'[t].todo = call[t].todo \ {a}
          /\ call'[t].data = data
      BY <1>0, <2>2 DEF OtherCallsKept, CallState
    <2>6. Exact(t)'
      BY <2>1, <2>4, <2>5 DEF Exact
    <2>7. QED
      BY <1>a, <2>1, <2>5, <2>6
  <1>4. CASE SaveRootDirectory(t)
    <2> DEFINE s == [contents |-> call[t].data, created |-> created[p]]
               file == [state |-> s, whole |-> TRUE, synced |-> FALSE]
    <2>1. /\ At(t, "save") /\ io[t].ino \in Inode /\ io[t].pc = "writing"
          /\ call[t].todo = {}
          /\ inode' = [inode EXCEPT ![io[t].ino] = file]
          /\ io' = [io EXCEPT ![t].pc = "sync"]
          /\ UNCHANGED <<contents, created, call>>
      BY <1>0, <1>4 DEF SaveRootDirectory, FinalizeWrite, IOArguments,
                        HasFile, serviceVars
    <2>2. call[t].data = contents[p] /\ p \in PathID
      BY <1>0, <2>1 DEF Exact, CallOK, At
    <2>3. s \in RootDirectory
      BY <1>0, <2>2 DEF RootDirectory, ServiceTypeOK
    <2>4. s # NULL /\ s.contents = contents[p] /\ file.state = s
      BY <2>2, <2>3, PersistencyAssumption
    <2> HIDE DEF s, file
    <2>5. /\ \A u \in Thread : u # t => io'[u] = io[u]
          /\ io'[t].pc = "sync" /\ io'[t].ino = io[t].ino
          /\ inode'[io[t].ino] = file
      BY <1>0, <2>1 DEF IOState, StoreTypeOK
    <2>6. Exact(t)'
      BY <2>1, <2>4, <2>5 DEF Exact
    <2>7. QED
      BY <1>a, <2>1, <2>5, <2>6 DEF OtherCallsKept
  <1>5. CASE SaveStep(t) \/ SaveRename(t)
    <2>1. At(t, "save") /\ UNCHANGED <<contents, call>>
      BY <1>5 DEF SaveStep, SaveRename, serviceVars
    <2>2. \A u \in Thread : u # t => io'[u] = io[u]
      BY <1>0, <1>5
         DEF SaveStep, SaveRename, WriteCreateFails, FinalizeSync, WriterFails,
             WriterClose, FinalizeRename, IODone
    <2>3. CASE FinalizeSync(t)
      <3>1. /\ io[t].pc = "sync" /\ io[t].ino \in Inode
            /\ inode' = [inode EXCEPT ![io[t].ino].synced = TRUE]
            /\ io' = [io EXCEPT ![t].pc = "rename"]
        BY <1>0, <2>3 DEF FinalizeSync, IOArguments, HasFile
      <3>2. /\ io'[t].pc = "rename" /\ io'[t].ino = io[t].ino
            /\ inode'[io[t].ino].state = inode[io[t].ino].state
        BY <1>0, <3>1 DEF IOState, StoreTypeOK
      <3>3. Exact(t)'
        BY <1>0, <2>1, <3>1, <3>2 DEF Exact
      <3>4. QED
        BY <1>a, <2>1, <2>2, <3>3 DEF OtherCallsKept
    <2>4. CASE ~FinalizeSync(t)
      <3>1. io'[t].pc \in {"idle", "abort"}
        BY <1>0, <1>5, <2>4
           DEF SaveStep, SaveRename, WriteCreateFails, WriterFails,
               WriterClose, FinalizeRename, IODone, IdleIO, IOState
      <3>2. Exact(t)'
        BY <3>1 DEF Exact
      <3>3. QED
        BY <1>a, <2>1, <2>2, <3>2 DEF OtherCallsKept
    <2>5. QED
      BY <2>3, <2>4
  <1>6. QED
    BY <1>1, <1>2, <1>3, <1>4, <1>5

LEMMA SavingExactNext ==
    ASSUME ~PowerFails, ServiceInv, Exclusive, SavingExact, [Next]_vars
    PROVE  SavingExact'
  <1>1. ASSUME NEW t \in Thread, NEW b \in BaseName,
               \/ \E p \in PathID, restored \in SUBSET Items :
                     StartBuildInitial(t, b, p, restored)
               \/ StartBuildExisting(t, b)
               \/ StageArtifactsLookup(t, b)
               \/ CleanLookup(t, b)
        PROVE  SavingExact'
    BY <1>1, ExactStartInitial, ExactBegin
  <1>2. ASSUME NEW t \in Thread,
               \/ \E missing \in SUBSET Items :
                     FilterMissingChildren(t, missing)
               \/ \E a \in Artifact : StageSingleArtifact(t, a)
               \/ StageSingleArtifactFails(t)
               \/ RemoveAllChildren(t)
        PROVE  SavingExact'
    BY <1>2, ExactContents
  <1>3. ASSUME NEW t \in Thread,
               \/ \E b \in BaseName : FinalizeBuildBegin(t, b)
               \/ \E i \in Inode : SaveCreate(t, i)
               \/ \E a \in Artifact : SaveDirectory(t, a)
               \/ SaveRootDirectory(t)
               \/ SaveStep(t)
               \/ SaveRename(t)
        PROVE  SavingExact'
    BY <1>3, ExactSave
  <1>4. ASSUME NEW t \in Thread,
               \/ StoreClean(t)
               \/ StoreCleanEnd(t)
               \/ CleanFails(t)
               \/ CleanUnregister(t)
               \/ FinalizeBuildEnd(t)
        PROVE  SavingExact'
    BY <1>4, ExactClean
  <1>5. CASE Restart
    BY <1>5 DEF Restart, ServiceRestart, SavingExact, Exact, At, IdleCall
  <1>6. CASE Tick \/ UNCHANGED vars
    <2>1. UNCHANGED <<contents, call, inode, io>>
      BY <1>6 DEF Tick, vars, serviceVars, storeVars
    <2>2. QED
      BY <2>1 DEF SavingExact, Exact, At
  <1>7. ~Commit /\ \A torn \in SUBSET Inode : ~PowerLoss(torn)
    BY DEF Commit, PowerLoss
  <1>8. QED
    BY <1>1, <1>2, <1>3, <1>4, <1>5, <1>6, <1>7, Zenon DEF Next

-----------------------------------------------------------------------------
(* The state file stays removed until Clean() returns.                     *)
Cleaning(t) == At(t, "unregister") \/ io[t].pc = "cleanTemporary"

LEMMA NotReplaced ==
    ASSUME ServiceInv, Exclusive, NEW t \in Thread, ~At(t, "idle"),
           ~At(t, "save")
    PROVE  ~FileReplaced(call[t].base)
  BY DEF FileReplaced, SaveRename, Exclusive, At

LEMMA CleanedStep ==
    ASSUME NoCollision, ~PowerFails, ServiceInv, ServiceInv', SInv, Exclusive,
           CleanedOK, SavedInv, [Next]_vars, NEW t \in Thread,
           OtherCallsKept(t), \A u \in Thread : u # t => io'[u] = io[u],
           \/ call'[t].pc \notin {"cleaning", "factoryClean", "unregister"}
           \/ /\ Cleaning(t)' => Cleaning(t) \/ StoreClean(t)
              /\ ~At(t, "idle") \/ ~Cleaning(t)'
              /\ ~Cleaning(t)' \/ call'[t].base = call[t].base
              /\ At(t, "factoryClean")' => call'[t].path = NULL
    PROVE  CleanedOK'
  <1>1. ASSUME NEW u \in Thread, Cleaning(u)'
        PROVE  directory'[call'[u].base] = NULL
    <2>0. u = t => call'[t].pc \in {"cleaning", "factoryClean", "unregister"}
      BY <1>1 DEF Cleaning, ServiceInv, CallOK, At
    <2>1. call'[u].base = call[u].base /\ (Cleaning(u) \/ StoreClean(u))
      BY <1>1, <2>0 DEF Cleaning, OtherCallsKept, At
    <2>2. ~At(u, "idle") /\ ~At(u, "save") /\ call[u].base \in BaseName
      BY <2>1 DEF Cleaning, StoreClean, ServiceInv, CallOK, At
    <2>3. FileKept(call[u].base) \/ FileRemoved(call[u].base)
      BY <2>2, ReadStep, NotReplaced DEF SavedInv
    <2>4. CASE FileRemoved(call[u].base)
      BY <2>1, <2>4 DEF FileRemoved
    <2>5. CASE StoreClean(u)
      BY <2>1, <2>2, <2>5, StoreAssumption
         DEF StoreClean, CleanState, ServiceInv, StoreTypeOK
    <2>6. CASE Cleaning(u) /\ FileKept(call[u].base)
      BY <2>1, <2>6 DEF Cleaning, CleanedOK, FileKept
    <2>7. QED
      BY <2>1, <2>3, <2>4, <2>5, <2>6
  <1>2. ASSUME NEW u \in Thread, At(u, "factoryClean")'
        PROVE  call'[u].path = NULL
    BY <1>2 DEF OtherCallsKept, CleanedOK, At
  <1>3. QED
    BY <1>1, <1>2 DEF CleanedOK, Cleaning, At

LEMMA CleanedNext ==
    ASSUME NoCollision, ~PowerFails, ServiceInv, ServiceInv', SInv, Exclusive,
           CleanedOK, SavedInv, [Next]_vars
    PROVE  CleanedOK'
  <1>0. /\ ServiceTypeOK /\ io \in [Thread -> IOState]
        /\ call \in [Thread -> CallState]
    BY DEF ServiceInv, ServiceTypeOK, StoreTypeOK
  <1>1. ASSUME NEW t \in Thread, NEW b \in BaseName,
               \/ \E p \in PathID, restored \in SUBSET Items :
                     StartBuildInitial(t, b, p, restored)
               \/ StartBuildExisting(t, b)
               \/ StageArtifactsLookup(t, b)
        PROVE  CleanedOK'
    <2>1. PICK pc \in {"filter", "stage"}, p \in PathID \union {NULL} :
             Begin(t, b, p, pc)
      <3>1. path[b] \in PathID \union {NULL}
        BY <1>0 DEF ServiceTypeOK
      <3>2. QED
        BY <1>1, <3>1 DEF StartBuildInitial, StartBuildExisting,
                          StageArtifactsLookup
    <2>2. /\ call'[t] = [pc |-> pc, base |-> b, path |-> p,
                         todo |-> {}, data |-> {}]
          /\ OtherCallsKept(t)
      BY <1>0, <2>1, BeginCall DEF PC
    <2>3. io' = io
      BY <1>1 DEF StartBuildInitial, StartBuildExisting, StageArtifactsLookup,
                  storeVars
    <2>4. call'[t].pc = pc
      BY <2>2
    <2>5. QED
      BY <2>1, <2>2, <2>3, <2>4, CleanedStep
  <1>2. ASSUME NEW t \in Thread, NEW b \in BaseName, FinalizeBuildBegin(t, b)
        PROVE  CleanedOK'
    <2>1. Begin(t, b, path[b], "save") /\ path[b] \in PathID \union {NULL}
      BY <1>0, <1>2 DEF FinalizeBuildBegin, ServiceTypeOK
    <2>2. /\ call'[t] = [pc |-> "save", base |-> b, path |-> path[b],
                         todo |-> {}, data |-> {}]
          /\ OtherCallsKept(t)
      BY <1>0, <2>1, BeginCall DEF PC
    <2>3. \A u \in Thread : u # t => io'[u] = io[u]
      BY <1>0, <1>2 DEF FinalizeBuildBegin, WriteRemove, storeVars
    <2>4. call'[t].pc = "save"
      BY <2>2
    <2>5. QED
      BY <2>2, <2>3, <2>4, CleanedStep
  <1>3. ASSUME NEW t \in Thread, NEW b \in BaseName, CleanLookup(t, b)
        PROVE  CleanedOK'
    <2> DEFINE pc == IF path[b] = NULL THEN "factoryClean" ELSE "removing"
    <2>1. /\ Begin(t, b, path[b], pc) /\ path[b] \in PathID \union {NULL}
          /\ io' = io
      BY <1>0, <1>3 DEF CleanLookup, ServiceTypeOK, storeVars
    <2>2. pc \in PC
      BY DEF PC
    <2> HIDE DEF pc
    <2>3. /\ call'[t] = [pc |-> pc, base |-> b, path |-> path[b],
                         todo |-> {}, data |-> {}]
          /\ OtherCallsKept(t) /\ At(t, "idle")
      BY <1>0, <2>1, <2>2, BeginCall
    <2>4. call'[t].pc = pc /\ call'[t].path = path[b]
      BY <2>3
    <2>5. io[t].pc = "idle"
      BY <2>3, FileIdle DEF At
    <2>6. ~Cleaning(t)' /\ (At(t, "factoryClean")' => call'[t].path = NULL)
      BY <2>1, <2>4, <2>5 DEF Cleaning, At, pc
    <2>7. QED
      BY <2>1, <2>3, <2>6, CleanedStep
  <1>4. ASSUME NEW t \in Thread,
               \/ \E missing \in SUBSET Items :
                     FilterMissingChildren(t, missing)
               \/ \E a \in Artifact : StageSingleArtifact(t, a)
               \/ StageSingleArtifactFails(t)
               \/ FinalizeBuildEnd(t)
               \/ CleanFails(t)
               \/ CleanUnregister(t)
        PROVE  CleanedOK'
    <2>1. Return(t)
      BY <1>4, Zenon
         DEF FilterMissingChildren, StageSingleArtifact, FinalizeBuildEnd,
             StageSingleArtifactFails, CleanFails, CleanUnregister,
             CleanReturns
    <2>2. call'[t] = IdleCall /\ OtherCallsKept(t)
      BY <1>0, <2>1, ReturnCall
    <2>3. io' = io \/ CleanTemporaryFails(t)
      BY <1>4, Zenon
         DEF FilterMissingChildren, StageSingleArtifact, FinalizeBuildEnd,
             StageSingleArtifactFails, CleanFails, CleanUnregister, storeVars
    <2>4. \A u \in Thread : u # t => io'[u] = io[u]
      BY <1>0, <2>3 DEF CleanTemporaryFails, IODone
    <2>5. call'[t].pc = "idle"
      BY <2>2 DEF IdleCall
    <2>6. QED
      BY <2>2, <2>4, <2>5, CleanedStep
  <1>5. ASSUME NEW t \in Thread,
               \/ \E i \in Inode : SaveCreate(t, i)
               \/ \E a \in Artifact : SaveDirectory(t, a)
               \/ SaveRootDirectory(t)
               \/ SaveStep(t)
               \/ SaveRename(t)
        PROVE  CleanedOK'
    <2>1. OtherCallsKept(t)
      BY <1>5, StepKeepsCalls
    <2>2. call'[t].pc = "save"
      <3>1. ASSUME NEW a \in Artifact, SaveDirectory(t, a)
            PROVE  call'[t].pc = "save"
        <4> DEFINE data == call[t].data \union Named(contents[call[t].path], a)
        <4>1. /\ call' = [call EXCEPT ![t].todo = call[t].todo \ {a},
                                      ![t].data = data]
              /\ At(t, "save")
          BY <3>1 DEF SaveDirectory
        <4> HIDE DEF data
        <4>2. QED
          BY <1>0, <4>1 DEF CallState, At
      <3>2. ASSUME NEW i \in Inode, SaveCreate(t, i)
            PROVE  call'[t].pc = "save"
        BY <1>0, <3>2 DEF SaveCreate, CallState, At
      <3>3. CASE SaveRootDirectory(t) \/ SaveStep(t) \/ SaveRename(t)
        BY <3>3 DEF SaveRootDirectory, SaveStep, SaveRename, At
      <3>4. QED
        BY <1>5, <3>1, <3>2, <3>3
    <2>3. \A u \in Thread : u # t => io'[u] = io[u]
      <3>1. CASE \E a \in Artifact : SaveDirectory(t, a)
        BY <3>1 DEF SaveDirectory, storeVars
      <3>2. CASE ~\E a \in Artifact : SaveDirectory(t, a)
        BY <1>0, <1>5, <3>2
           DEF SaveCreate, SaveRootDirectory, SaveStep, SaveRename,
               WriteCreate, FinalizeWrite, WriteCreateFails, FinalizeSync,
               WriterFails, WriterClose, FinalizeRename, IODone
      <3>3. QED
        BY <3>1, <3>2
    <2>4. QED
      BY <2>1, <2>2, <2>3, CleanedStep
  <1>6. ASSUME NEW t \in Thread, RemoveAllChildren(t) PROVE CleanedOK'
    <2>1. At(t, "removing") /\ Goto(t, "cleaning") /\ io' = io
      BY <1>6 DEF RemoveAllChildren, storeVars
    <2>2. call'[t].pc = "cleaning" /\ OtherCallsKept(t)
      BY <1>0, <2>1, GotoCall DEF PC
    <2>3. io[t].pc = "idle"
      BY <2>1, FileIdle DEF At
    <2>4. ~Cleaning(t)' /\ ~At(t, "factoryClean")'
      BY <2>1, <2>2, <2>3 DEF Cleaning, At
    <2>5. QED
      BY <2>1, <2>2, <2>4, CleanedStep
  <1>7. ASSUME NEW t \in Thread, StoreClean(t) PROVE CleanedOK'
    <2>1. /\ call' = call /\ call[t].pc \in {"cleaning", "factoryClean"}
          /\ \A u \in Thread : u # t => io'[u] = io[u]
      BY <1>0, <1>7 DEF StoreClean, CleanState
    <2>2. At(t, "factoryClean")' => call'[t].path = NULL
      BY <2>1 DEF CleanedOK, At
    <2>3. ~At(t, "idle")
      BY <2>1 DEF At
    <2>4. QED
      BY <1>7, <2>1, <2>2, <2>3, CleanedStep DEF OtherCallsKept
  <1>8. ASSUME NEW t \in Thread, StoreCleanEnd(t) PROVE CleanedOK'
    <2>1. /\ io[t].pc = "cleanTemporary"
          /\ \A u \in Thread : u # t => io'[u] = io[u]
          /\ ~At(t, "idle")
      BY <1>0, <1>8 DEF StoreCleanEnd, CleanTemporary, IODone, At
    <2>2. CASE Goto(t, "unregister")
      <3>1. /\ call'[t].pc = "unregister" /\ OtherCallsKept(t)
            /\ call'[t].base = call[t].base
        BY <1>0, <2>2, GotoCall DEF PC
      <3>2. Cleaning(t) /\ ~At(t, "factoryClean")'
        BY <2>1, <3>1 DEF Cleaning, At
      <3>3. QED
        BY <2>1, <3>1, <3>2, CleanedStep
    <2>3. CASE Return(t)
      <3>1. call'[t] = IdleCall /\ OtherCallsKept(t)
        BY <1>0, <2>3, ReturnCall
      <3>2. call'[t].pc = "idle"
        BY <3>1 DEF IdleCall
      <3>3. QED
        BY <2>1, <3>1, <3>2, CleanedStep
    <2>4. QED
      BY <1>8, <2>2, <2>3 DEF StoreCleanEnd, CleanReturns
  <1>9. CASE Restart
    BY <1>9 DEF Restart, ServiceRestart, StoreRestart, CleanedOK, At, IdleCall,
                IdleIO
  <1>10. CASE Tick \/ UNCHANGED vars
    <2>1. UNCHANGED <<call, io, directory>>
      BY <1>10 DEF Tick, vars, storeVars
    <2>2. QED
      BY <2>1 DEF CleanedOK, At
  <1>11. ~Commit /\ \A torn \in SUBSET Inode : ~PowerLoss(torn)
    BY DEF Commit, PowerLoss
  <1>12. QED
    BY <1>1, <1>2, <1>3, <1>4, <1>5, <1>6, <1>7, <1>8, <1>9, <1>10, <1>11,
       Zenon
       DEF Next

-----------------------------------------------------------------------------
(* State files hold what was saved last.                                   *)
LEMMA SavedNext ==
    ASSUME NoCollision, ~PowerFails, ServiceInv, SInv, SavingExact, SavedInv,
           [Next]_vars, saved' \in [BaseName -> (SUBSET Items) \union {NULL}]
    PROVE  SavedInv'
  <1> SUFFICES ASSUME NEW b \in BaseName
               PROVE  saved'[b] = IF Read(b)' = NULL THEN NULL
                                                     ELSE Read(b)'.contents
    BY DEF SavedInv, SavedStateKept, Read
  <1>1. CASE FileKept(b)
    BY <1>1 DEF FileKept, SavedInv, SavedStateKept
  <1>2. CASE FileRemoved(b)
    BY <1>2 DEF FileRemoved, StoreClean, Read, SavedInv
  <1>3. CASE FileReplaced(b)
    <2>1. PICK t \in Thread :
             /\ SaveRename(t) /\ call[t].base = b
             /\ directory'[b] = io[t].ino /\ io[t].ino \in Inode
             /\ inode' = inode /\ inode[io[t].ino].whole
      BY <1>3 DEF FileReplaced
    <2>2. Read(b)' = inode[io[t].ino].state
      BY <2>1, StoreAssumption DEF Read
    <2>3. /\ inode[io[t].ino].state # NULL
          /\ inode[io[t].ino].state.contents = contents[call[t].path]
      BY <2>1 DEF SavingExact, Exact, SaveRename, FinalizeRename
    <2>4. saved'[b] = contents[call[t].path]
      BY <2>1 DEF SaveRename, SavedInv
    <2>5. QED
      BY <2>2, <2>3, <2>4
  <1>4. QED
    BY <1>1, <1>2, <1>3, ReadStep DEF SavedInv

LEMMA SavedType ==
    ASSUME ServiceInv, [Next]_vars,
           saved \in [BaseName -> (SUBSET Items) \union {NULL}]
    PROVE  saved' \in [BaseName -> (SUBSET Items) \union {NULL}]
  <1>1. ASSUME NEW t \in Thread, SaveRename(t)
        PROVE  saved' \in [BaseName -> (SUBSET Items) \union {NULL}]
    <2>1. call[t].path \in PathID
      BY <1>1 DEF SaveRename, ServiceInv, CallOK, At
    <2>2. contents[call[t].path] \in SUBSET Items
      BY <2>1 DEF ServiceInv, ServiceTypeOK
    <2>3. QED
      BY <1>1, <2>2 DEF SaveRename
  <1>2. ASSUME NEW t \in Thread, StoreClean(t)
        PROVE  saved' \in [BaseName -> (SUBSET Items) \union {NULL}]
    BY <1>2 DEF StoreClean
  <1>3. ASSUME NEW t \in Thread, NEW b \in BaseName,
               \/ \E p \in PathID, restored \in SUBSET Items :
                     StartBuildInitial(t, b, p, restored)
               \/ StartBuildExisting(t, b)
               \/ StageArtifactsLookup(t, b)
               \/ FinalizeBuildBegin(t, b)
               \/ CleanLookup(t, b)
        PROVE  saved' = saved
    BY <1>3, Zenon
       DEF StartBuildInitial, StartBuildExisting, StageArtifactsLookup,
           FinalizeBuildBegin, CleanLookup, history
  <1>4. ASSUME NEW t \in Thread,
               \/ \E missing \in SUBSET Items :
                     FilterMissingChildren(t, missing)
               \/ \E a \in Artifact : \/ StageSingleArtifact(t, a)
                                      \/ SaveDirectory(t, a)
               \/ StageSingleArtifactFails(t)
               \/ \E i \in Inode : SaveCreate(t, i)
               \/ SaveRootDirectory(t)
               \/ SaveStep(t)
               \/ FinalizeBuildEnd(t)
               \/ RemoveAllChildren(t)
               \/ StoreCleanEnd(t)
               \/ CleanFails(t)
               \/ CleanUnregister(t)
        PROVE  saved' = saved
    BY <1>4, Zenon
       DEF FilterMissingChildren, StageSingleArtifact, SaveDirectory,
           StageSingleArtifactFails, SaveCreate, SaveRootDirectory, SaveStep,
           FinalizeBuildEnd, RemoveAllChildren, StoreCleanEnd, CleanFails,
           CleanUnregister, history
  <1>5. CASE \/ Restart \/ Commit \/ Tick \/ UNCHANGED vars
             \/ \E torn \in SUBSET Inode : PowerLoss(torn)
    BY <1>5, Zenon
       DEF Restart, Commit, Tick, vars, PowerLoss, ServiceRestart, history
  <1>6. QED
    BY <1>1, <1>2, <1>3, <1>4, <1>5, Zenon DEF Next

-----------------------------------------------------------------------------
(* Output paths and state files only hold what was staged.                 *)
StagedPaths ==
    \A b \in BaseName :
        path[b] # NULL => Names(contents[path[b]]) \subseteq staged[b]

(* What was staged in b is only forgotten when Clean() returns.            *)
StagedGrows(b) ==
    \/ staged[b] \subseteq staged'[b]
    \/ \E t \in Thread :
          /\ call[t].base = b /\ ~At(t, "idle") /\ ~At(t, "save")
          /\ Cleaning(t)

StagedStep ==
    /\ staged' \in [BaseName -> SUBSET Artifact]
    /\ StagedPaths'
    /\ \A b \in BaseName : StagedGrows(b)

LEMMA NamesSubset == \A S, T : S \subseteq T => Names(S) \subseteq Names(T)
  BY DEF Names

LEMMA StagedKept ==
    ASSUME StagedInv, UNCHANGED <<path, contents, staged>>
    PROVE  StagedStep
  BY DEF StagedInv, StagedStep, StagedPaths, StagedGrows

LEMMA StagedStartInitial ==
    ASSUME ServiceInv, StagedInv, NEW t \in Thread, NEW b \in BaseName,
           NEW p \in PathID, NEW restored \in SUBSET Items,
           StartBuildInitial(t, b, p, restored)
    PROVE  StagedStep
  <1>0. ServiceTypeOK /\ StoreTypeOK
    BY DEF ServiceInv
  <1>1. /\ p \in FreePath
        /\ path' = [path EXCEPT ![b] = p]
        /\ contents' = [contents EXCEPT ![p] = restored]
        /\ staged' = staged
        /\ restored \subseteq (IF ReadRecent(b) = NULL
                                 THEN {} ELSE ReadRecent(b).contents)
    BY DEF StartBuildInitial, history
  <1>2. restored = {} \/ (Read(b) # NULL /\ restored \subseteq Read(b).contents)
    BY <1>1 DEF ReadRecent
  <1>3. Names(restored) \subseteq staged[b]
    <2>1. Names({}) = {}
      BY DEF Names
    <2>2. QED
      BY <1>2, <2>1, NamesSubset DEF StagedInv
  <1>4. ASSUME NEW c \in BaseName, path'[c] # NULL
        PROVE  Names(contents'[path'[c]]) \subseteq staged'[c]
    <2>1. CASE c = b
      <3>1. path'[c] = p /\ contents'[p] = restored
        BY <1>0, <1>1, <2>1 DEF ServiceTypeOK
      <3>2. QED
        BY <1>1, <1>3, <2>1, <3>1
    <2>2. CASE c # b
      <3>1. path'[c] = path[c] /\ path[c] # p /\ path[c] \in PathID
        BY <1>0, <1>1, <1>4, <2>2 DEF ServiceTypeOK, FreePath
      <3>2. contents'[path[c]] = contents[path[c]]
        BY <1>0, <1>1, <3>1 DEF ServiceTypeOK
      <3>3. QED
        BY <1>1, <1>4, <3>1, <3>2 DEF StagedInv
    <2>3. QED
      BY <2>1, <2>2
  <1>5. QED
    BY <1>1, <1>4 DEF StagedStep, StagedPaths, StagedGrows, StagedInv

(* A step that changes the output path of a call.                          *)
LEMMA StagedContents ==
    ASSUME ServiceInv, Exclusive, StagedInv, NEW t \in Thread, ~At(t, "idle"),
           call[t].path \in PathID, NEW items, NEW new \in SUBSET Artifact,
           contents' = [contents EXCEPT ![call[t].path] = items],
           staged' \in [BaseName -> SUBSET Artifact],
           staged'[call[t].base] = staged[call[t].base] \union new,
           \A c \in BaseName : c # call[t].base => staged'[c] = staged[c],
           Names(items) \subseteq Names(contents[call[t].path]) \union new,
           path' = path
    PROVE  StagedStep
  <1> DEFINE p == call[t].path
             b == call[t].base
  <1>0. /\ b \in BaseName /\ path[b] = p /\ p # NULL
        /\ contents \in [PathID -> SUBSET Items]
        /\ path \in [BaseName -> PathID \union {NULL}]
        /\ staged \in [BaseName -> SUBSET Artifact]
    BY PersistencyAssumption
       DEF ServiceInv, ServiceTypeOK, CallOK, Exclusive, StagedInv
  <1>1. /\ staged' \in [BaseName -> SUBSET Artifact]
        /\ staged'[b] = staged[b] \union new
        /\ \A c \in BaseName : c # b => staged'[c] = staged[c]
    BY <1>0
  <1>2. ASSUME NEW c \in BaseName, path'[c] # NULL
        PROVE  Names(contents'[path'[c]]) \subseteq staged'[c]
    <2>1. CASE c = b
      <3>1. contents'[path'[c]] = items
        BY <1>0, <2>1
      <3>2. Names(contents[p]) \subseteq staged[b]
        BY <1>0 DEF StagedInv
      <3>3. QED
        BY <1>1, <2>1, <3>1, <3>2
    <2>2. CASE c # b
      <3>1. path[c] # p /\ path[c] \in PathID
        BY <1>0, <1>2, <2>2 DEF Exclusive
      <3>2. contents'[path'[c]] = contents[path[c]]
        BY <1>0, <3>1
      <3>3. QED
        BY <1>1, <1>2, <2>2, <3>2 DEF StagedInv
    <2>3. QED
      BY <2>1, <2>2
  <1>3. \A c \in BaseName : staged[c] \subseteq staged'[c]
    BY <1>1
  <1>4. QED
    BY <1>1, <1>2, <1>3 DEF StagedStep, StagedPaths, StagedGrows

LEMMA StagedContentsSteps ==
    ASSUME ServiceInv, Exclusive, StagedInv, NEW t \in Thread,
           \/ \E missing \in SUBSET Items : FilterMissingChildren(t, missing)
           \/ \E a \in Artifact : StageSingleArtifact(t, a)
           \/ RemoveAllChildren(t)
    PROVE  StagedStep
  <1> DEFINE p == call[t].path
             b == call[t].base
  <1>0. ~At(t, "idle") /\ p \in PathID /\ b \in BaseName
    <2>1. At(t, "filter") \/ At(t, "stage") \/ At(t, "removing")
      BY Zenon DEF FilterMissingChildren, StageSingleArtifact,
                   RemoveAllChildren
    <2>2. QED
      BY <2>1 DEF ServiceInv, CallOK, At
  <1>1. ASSUME NEW items, items \subseteq contents[p],
               contents' = [contents EXCEPT ![p] = items],
               UNCHANGED <<path, staged>>
        PROVE  StagedStep
    <2>1. /\ staged' \in [BaseName -> SUBSET Artifact]
          /\ staged'[call[t].base] = staged[call[t].base] \union {}
          /\ \A c \in BaseName : c # call[t].base => staged'[c] = staged[c]
      BY <1>1 DEF StagedInv
    <2>2. Names(items) \subseteq Names(contents[call[t].path]) \union {}
      BY <1>1, NamesSubset
    <2>3. /\ contents' = [contents EXCEPT ![call[t].path] = items]
          /\ call[t].path \in PathID /\ path' = path /\ ~At(t, "idle")
          /\ {} \in SUBSET Artifact
      BY <1>0, <1>1
    <2>4. QED
      BY <2>1, <2>2, <2>3, StagedContents, Zenon
  <1>2. ASSUME NEW missing \in SUBSET Items, FilterMissingChildren(t, missing)
        PROVE  StagedStep
    <2>1. /\ contents' = [contents EXCEPT ![p] = contents[p] \ missing]
          /\ UNCHANGED <<path, staged>>
      BY <1>2 DEF FilterMissingChildren, history
    <2>2. QED
      BY <1>1, <2>1
  <1>3. CASE RemoveAllChildren(t)
    <2> DEFINE none == {}
    <2>1. /\ contents' = [contents EXCEPT ![p] = none]
          /\ UNCHANGED <<path, staged>>
      BY <1>3 DEF RemoveAllChildren, history
    <2>2. none \subseteq contents[p]
      OBVIOUS
    <2> HIDE DEF none
    <2>3. QED
      BY <1>1, <2>1, <2>2
  <1>4. ASSUME NEW a \in Artifact, StageSingleArtifact(t, a)
        PROVE  StagedStep
    <2> DEFINE items ==
                 (contents[p] \ Named(contents[p], a)) \union {<<a, now>>}
    <2>1. contents' = [contents EXCEPT ![p] = items]
      BY <1>4, Zenon DEF StageSingleArtifact
    <2>2. path' = path /\ staged' = [staged EXCEPT ![b] = @ \union {a}]
      BY <1>4 DEF StageSingleArtifact
    <2>3. \A item \in items : item \in contents[p] \/ item = <<a, now>>
      OBVIOUS
    <2> HIDE DEF items
    <2>4. Names(items) \subseteq Names(contents[p]) \union {a}
      BY <2>3 DEF Names
    <2>5. /\ staged' \in [BaseName -> SUBSET Artifact]
          /\ staged'[call[t].base] = staged[call[t].base] \union {a}
          /\ \A c \in BaseName : c # call[t].base => staged'[c] = staged[c]
      BY <1>0, <2>2 DEF StagedInv
    <2>6. /\ contents' = [contents EXCEPT ![call[t].path] = items]
          /\ Names(items) \subseteq Names(contents[call[t].path]) \union {a}
          /\ call[t].path \in PathID /\ path' = path /\ ~At(t, "idle")
          /\ {a} \in SUBSET Artifact
      BY <1>0, <2>1, <2>2, <2>4
    <2>7. QED
      BY <2>5, <2>6, StagedContents, Zenon
  <1>5. QED
    BY <1>2, <1>3, <1>4

LEMMA StagedClean ==
    ASSUME ServiceInv, Exclusive, CleanedOK, StagedInv, NEW t \in Thread,
           StoreCleanEnd(t) \/ CleanUnregister(t)
    PROVE  StagedStep
  <1> DEFINE b == call[t].base
  <1>0. /\ path \in [BaseName -> PathID \union {NULL}]
        /\ staged \in [BaseName -> SUBSET Artifact]
    BY DEF ServiceInv, ServiceTypeOK, StagedInv
  <1>1. ASSUME CleanReturns(t), contents' = contents,
               path'[b] = NULL, \A c \in BaseName : c # b => path'[c] = path[c],
               b \in BaseName, ~At(t, "idle"), ~At(t, "save"), Cleaning(t)
        PROVE  StagedStep
    <2>1. /\ staged' \in [BaseName -> SUBSET Artifact]
          /\ \A c \in BaseName : c # b => staged'[c] = staged[c]
      BY <1>0, <1>1 DEF CleanReturns
    <2>2. StagedPaths'
      BY <1>1, <2>1 DEF StagedPaths, StagedInv
    <2>3. \A c \in BaseName : StagedGrows(c)
      BY <1>1, <2>1 DEF StagedGrows
    <2>4. QED
      BY <2>1, <2>2, <2>3 DEF StagedStep
  <1>2. CASE StoreCleanEnd(t)
    <2>1. UNCHANGED <<path, contents>> /\ Cleaning(t)
      BY <1>2 DEF StoreCleanEnd, serviceVars, Cleaning, CleanTemporary
    <2>2. CASE At(t, "cleaning") /\ UNCHANGED history
      BY <2>1, <2>2, StagedKept DEF history
    <2>3. CASE At(t, "factoryClean") /\ CleanReturns(t)
      <3>1. b \in BaseName /\ ~At(t, "idle") /\ ~At(t, "save")
        BY <2>3 DEF ServiceInv, CallOK, At
      <3>2. path[b] = NULL
        BY <2>3, <3>1 DEF Exclusive, CleanedOK
      <3>3. QED
        BY <1>1, <2>1, <2>3, <3>1, <3>2
    <2>4. QED
      BY <1>2, <2>2, <2>3 DEF StoreCleanEnd
  <1>3. CASE CleanUnregister(t)
    <2>1. /\ CleanReturns(t) /\ contents' = contents /\ Cleaning(t)
          /\ ~At(t, "idle") /\ ~At(t, "save") /\ b \in BaseName
      BY <1>3 DEF CleanUnregister, Cleaning, At, ServiceInv, CallOK
    <2>2. path' = [path EXCEPT ![b] = NULL]
      BY <1>3, ExclusiveUnregister
    <2>3. path'[b] = NULL /\ \A c \in BaseName : c # b => path'[c] = path[c]
      BY <1>0, <2>1, <2>2
    <2>4. QED
      BY <1>1, <2>1, <2>3
  <1>4. QED
    BY <1>2, <1>3

LEMMA StagedSteps ==
    ASSUME ~PowerFails, ServiceInv, Exclusive, CleanedOK, StagedInv,
           [Next]_vars
    PROVE  StagedStep
  <1>1. ASSUME NEW t \in Thread, NEW b \in BaseName,
               \/ StartBuildExisting(t, b)
               \/ StageArtifactsLookup(t, b)
               \/ FinalizeBuildBegin(t, b)
               \/ CleanLookup(t, b)
        PROVE  StagedStep
    <2>1. UNCHANGED <<path, contents, staged>>
      BY <1>1, Zenon
         DEF StartBuildExisting, StageArtifactsLookup, FinalizeBuildBegin,
             CleanLookup, history, serviceVars
    <2>2. QED
      BY <2>1, StagedKept
  <1>2. ASSUME NEW t \in Thread,
               \/ \E a \in Artifact : SaveDirectory(t, a)
               \/ StageSingleArtifactFails(t)
               \/ \E i \in Inode : SaveCreate(t, i)
               \/ SaveRootDirectory(t)
               \/ SaveStep(t)
               \/ SaveRename(t)
               \/ FinalizeBuildEnd(t)
               \/ StoreClean(t)
               \/ CleanFails(t)
        PROVE  StagedStep
    <2>1. UNCHANGED <<path, contents, staged>>
      BY <1>2, Zenon
         DEF SaveDirectory, StageSingleArtifactFails, SaveCreate,
             SaveRootDirectory, SaveStep, SaveRename, FinalizeBuildEnd,
             StoreClean, CleanFails, history, serviceVars
    <2>2. QED
      BY <2>1, StagedKept
  <1>3. CASE Restart
    <2>1. staged' = staged /\ \A b \in BaseName : path'[b] = NULL
      BY <1>3 DEF Restart, ServiceRestart
    <2>2. QED
      BY <2>1 DEF StagedStep, StagedPaths, StagedGrows, StagedInv
  <1>4. CASE Tick \/ UNCHANGED vars
    <2>1. UNCHANGED <<path, contents, staged>>
      BY <1>4 DEF Tick, vars, history, serviceVars
    <2>2. QED
      BY <2>1, StagedKept
  <1>5. ~Commit /\ \A torn \in SUBSET Inode : ~PowerLoss(torn)
    BY DEF Commit, PowerLoss
  <1>6. ASSUME NEW t \in Thread, NEW b \in BaseName,
               NEW p \in PathID, NEW restored \in SUBSET Items,
               StartBuildInitial(t, b, p, restored)
        PROVE  StagedStep
    BY <1>6, StagedStartInitial
  <1>7. ASSUME NEW t \in Thread,
               \/ \E missing \in SUBSET Items :
                     FilterMissingChildren(t, missing)
               \/ \E a \in Artifact : StageSingleArtifact(t, a)
               \/ RemoveAllChildren(t)
        PROVE  StagedStep
    BY <1>7, StagedContentsSteps
  <1>8. ASSUME NEW t \in Thread, StoreCleanEnd(t) \/ CleanUnregister(t)
        PROVE  StagedStep
    BY <1>8, StagedClean
  <1>9. QED
    BY <1>1, <1>2, <1>3, <1>4, <1>5, <1>6, <1>7, <1>8, Zenon DEF Next

LEMMA StagedNext ==
    ASSUME NoCollision, ~PowerFails, ServiceInv, SInv, KeepInv, [Next]_vars
    PROVE  StagedInv'
  <1>0. /\ Exclusive /\ SavingExact /\ CleanedOK /\ StagedInv /\ SavedInv
        /\ StagedStep
    BY StagedSteps DEF KeepInv
  <1>1. ASSUME NEW b \in BaseName, Read(b)' # NULL
        PROVE  Names(Read(b)'.contents) \subseteq staged'[b]
    <2>1. FileKept(b) \/ FileRemoved(b) \/ FileReplaced(b)
      BY <1>0, ReadStep DEF SavedInv
    <2>2. ~FileRemoved(b)
      BY <1>1 DEF FileRemoved, Read
    <2>3. staged[b] \subseteq staged'[b]
      <3>1. SUFFICES ASSUME NEW t \in Thread, call[t].base = b,
                            ~At(t, "idle"), ~At(t, "save"), Cleaning(t)
                     PROVE  FALSE
        BY <1>0 DEF StagedStep, StagedGrows
      <3>2. directory[b] = NULL
        BY <1>0, <3>1 DEF CleanedOK, Cleaning
      <3>3. ~FileReplaced(b)
        BY <1>0, <3>1, NotReplaced
      <3>4. Read(b)' = NULL
        BY <2>1, <2>2, <3>2, <3>3 DEF FileKept, Read
      <3>5. QED
        BY <1>1, <3>4
    <2>4. CASE FileKept(b)
      BY <1>0, <1>1, <2>3, <2>4 DEF FileKept, StagedInv
    <2>5. CASE FileReplaced(b)
      <3>1. PICK t \in Thread :
               /\ SaveRename(t) /\ call[t].base = b
               /\ directory'[b] = io[t].ino /\ io[t].ino \in Inode
               /\ inode' = inode /\ inode[io[t].ino].whole
        BY <2>5 DEF FileReplaced
      <3>2. Read(b)' = inode[io[t].ino].state
        BY <3>1, StoreAssumption DEF Read
      <3>3. inode[io[t].ino].state.contents = contents[call[t].path]
        BY <1>0, <3>1 DEF SavingExact, Exact, SaveRename, FinalizeRename
      <3>4. path[b] = call[t].path /\ path[b] # NULL
        BY <1>0, <3>1, PersistencyAssumption
           DEF SaveRename, Exclusive, ServiceInv, CallOK, At
      <3>5. Names(contents[call[t].path]) \subseteq staged[b]
        BY <1>0, <3>4 DEF StagedInv
      <3>6. QED
        BY <2>3, <3>2, <3>3, <3>5
    <2>6. QED
      BY <2>1, <2>2, <2>4, <2>5
  <1>2. staged' \in [BaseName -> SUBSET Artifact] /\ StagedPaths'
    BY <1>0 DEF StagedStep
  <1>3. QED
    BY <1>1, <1>2 DEF StagedInv, StagedPaths

LEMMA KeepInvInit == Init => KeepInv
  <1> SUFFICES ASSUME Init PROVE KeepInv
    OBVIOUS
  <1>1. \A b \in BaseName : Read(b) = NULL /\ path[b] = NULL
    BY StoreAssumption DEF Init, StoreInit, Read
  <1>2. \A t \in Thread : At(t, "idle") /\ io[t].pc = "idle"
    BY DEF Init, StoreInit, At, IdleCall, IdleIO
  <1>3. Exclusive /\ SavingExact /\ CleanedOK
    BY <1>1, <1>2 DEF Exclusive, SavingExact, Exact, CleanedOK, At
  <1>4. StagedInv /\ SavedInv
    BY <1>1 DEF Init, StagedInv, SavedInv, SavedStateKept
  <1>5. QED
    BY <1>3, <1>4 DEF KeepInv

LEMMA KeepInvNext ==
    ASSUME NoCollision, ~PowerFails, ~Overlap, ServiceInv, SInv, KeepInv,
           [Next]_vars
    PROVE  KeepInv'
  <1>0. Exclusive /\ SavingExact /\ CleanedOK /\ StagedInv /\ SavedInv
    BY DEF KeepInv
  <1>1. ServiceInv'
    BY ServiceInvNext
  <1>2. Exclusive'
    BY <1>0, ExclusiveNext
  <1>3. SavingExact'
    BY <1>0, SavingExactNext
  <1>4. CleanedOK'
    BY <1>0, <1>1, CleanedNext
  <1>5. StagedInv'
    BY StagedNext
  <1>6. SavedInv'
    <2>1. saved' \in [BaseName -> (SUBSET Items) \union {NULL}]
      BY <1>0, SavedType DEF SavedInv
    <2>2. QED
      BY <1>0, <2>1, SavedNext
  <1>7. QED
    BY <1>2, <1>3, <1>4, <1>5, <1>6 DEF KeepInv

(* As long as clients do not make calls in parallel for an output base,    *)
(* nothing that Clean() removed comes back, state files hold what was      *)
(* saved last, and they are not mixed up, whenever the process restarts    *)
(* and whichever operations on the store fail.                             *)
THEOREM StateKept ==
    NoCollision /\ ~Overlap /\ ~PowerFails =>
        (Spec => [](OnlyStagedIsShown /\ SavedStateKept))
  <1> SUFFICES ASSUME NoCollision, ~Overlap, ~PowerFails
               PROVE  Spec => [](OnlyStagedIsShown /\ SavedStateKept)
    OBVIOUS
  <1>1. Init => SInv
    BY SInvInit DEF Init
  <1>2. ServiceInv /\ SInv /\ [Next]_vars => SInv'
    BY StoreStep, SInvNext
  <1>3. ServiceInv /\ SInv /\ KeepInv /\ [Next]_vars => KeepInv'
    BY KeepInvNext
  <1>4. KeepInv => OnlyStagedIsShown /\ SavedStateKept
    BY DEF KeepInv, StagedInv, SavedInv, OnlyStagedIsShown, Shown
  <1>5. QED
    BY <1>1, <1>2, <1>3, <1>4, ServiceInvInit, ServiceInvNext, KeepInvInit, PTL
       DEF Spec
=============================================================================
