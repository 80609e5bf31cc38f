---------------- MODULE BazelOutputServiceDirectory_proofs ----------------
(***************************************************************************)
(* Proofs about the registry, for any number of output bases, builds,      *)
(* calls, file system requests and output paths.                           *)
(***************************************************************************)
EXTENDS BazelOutputServiceDirectory, TLAPS

(* Every step is a step of one of these actions, or leaves all variables   *)
(* unchanged.  Stated once, so that the proofs below split on one list.    *)
LEMMA NextActions ==
    ASSUME [Next]_vars
    PROVE  \/ \E c \in Call, b \in BuildID :
                  \/ StartBuildResume(c, b)
                  \/ GetOutputPathAndBuildState(c, b)
                  \/ FinalizeBuildBegin(c, b)
           \/ \E c \in Call, b \in BuildID, ob \in OutputBase :
                  StartBuildExisting(c, ob, b)
           \/ \E c \in Call, b \in BuildID, ob \in OutputBase, p \in PathID :
                  StartBuildInitial(c, ob, b, p)
           \/ \E c \in Call, ob \in OutputBase : CleanLookup(c, ob)
           \/ \E c \in Call :
                  \/ StartBuildReturn(c)
                  \/ StartBuildFails(c)
                  \/ StartBuildError(c)
                  \/ ServingReturn(c)
                  \/ FinalizeBuildEnd(c)
                  \/ CleanRemoveAllChildren(c)
                  \/ CleanRemoveAllChildrenFails(c)
                  \/ CleanUnregister(c)
                  \/ CleanNotify(c)
                  \/ CleanFactory(c)
           \/ \E r \in Reader, ob \in OutputBase : LookupRequest(r, ob)
           \/ \E r \in Reader :
                  \/ VirtualLookup(r)
                  \/ LookupReply(r)
                  \/ OpenDir(r)
                  \/ ReadDirRequest(r)
                  \/ VirtualReadDir(r)
                  \/ ReadDirSeek(r)
                  \/ ReadDirReport(r)
                  \/ ReadDirFull(r)
                  \/ ReadDirEnd(r)
           \/ UNCHANGED vars
  BY Zenon DEF Next, CallNext, ReaderNext, StartBuild

-----------------------------------------------------------------------------
(* Types.  Beside the ranges of the variables, a call that works on an     *)
(* output path, or on the name of one, or for a build, has one.            *)
CallArguments ==
    \A c \in Call :
        /\ call[c].pc \in {"filter", "error"} => call[c].req \in BuildID
        /\ call[c].pc \in {"serving", "finalizing", "removing", "unregister"}
              => call[c].path \in PathID
        /\ call[c].pc \in {"removing", "unregister", "notify", "factoryClean"}
              => call[c].ob \in OutputBase

ReaderArguments ==
    \A r \in Reader :
        reader[r].pc \in {"lookup", "reply"} => reader[r].ob \in OutputBase

TInv == TypeOK /\ CallArguments /\ ReaderArguments

LEMMA IdleStates ==
    /\ IdleCall \in CallState
    /\ IdleReader \in ReaderState
  BY DEF IdleCall, IdleReader, CallState, ReaderState, Node

LEMMA TInvInit == Init => TInv
  BY IdleStates DEF Init, TInv, TypeOK, CallArguments, ReaderArguments,
                    IdleCall, IdleReader, Node

(* A step of a request that is not a lookup keeps the types.               *)
LEMMA ReaderUpdate ==
    ASSUME TInv, NEW r \in Reader, NEW R \in ReaderState,
           reader' = [reader EXCEPT ![r] = R],
           R.pc \notin {"lookup", "reply"}
    PROVE  reader' \in [Reader -> ReaderState] /\ ReaderArguments'
  BY DEF TInv, TypeOK, ReaderArguments

LEMMA TInvNext ==
    ASSUME TInv, [Next]_vars
    PROVE  TInv'
  <1> USE IdleStates
  <1> USE DEF TInv, TypeOK, CallArguments, ReaderArguments, index, list,
              contents, kernel, At, Return
  <1>1. ASSUME NEW c \in Call, NEW b \in BuildID, StartBuildResume(c, b)
        PROVE  TInv'
    BY <1>1 DEF StartBuildResume, CallState, IdleCall
  <1>2. ASSUME NEW c \in Call, NEW b \in BuildID,
               GetOutputPathAndBuildState(c, b)
        PROVE  TInv'
    <2> DEFINE C == [IdleCall EXCEPT !.pc = "serving", !.req = b,
                                     !.path = buildIDs[b],
                                     !.build = buildState[buildIDs[b]]]
    <2>1. buildIDs[b] \in PathID /\ call' = [call EXCEPT ![c] = C]
      BY <1>2 DEF GetOutputPathAndBuildState
    <2>2. C \in CallState /\ C.pc = "serving" /\ C.path \in PathID
      BY <2>1 DEF CallState, IdleCall
    <2>3. call' \in [Call -> CallState] /\ CallArguments'
      <3> HIDE DEF C
      <3>1. QED
        BY <2>1, <2>2
    <2>4. QED
      BY <1>2, <2>3 DEF GetOutputPathAndBuildState
  <1>3. ASSUME NEW c \in Call, NEW b \in BuildID, FinalizeBuildBegin(c, b)
        PROVE  TInv'
    <2> DEFINE C == [IdleCall EXCEPT !.pc = "finalizing", !.req = b,
                                     !.path = buildIDs[b],
                                     !.build = buildState[buildIDs[b]]]
    <2>1. buildIDs[b] \in PathID /\ call' = [call EXCEPT ![c] = C]
      BY <1>3 DEF FinalizeBuildBegin
    <2>2. C \in CallState /\ C.pc = "finalizing" /\ C.path \in PathID
      BY <2>1 DEF CallState, IdleCall
    <2>3. call' \in [Call -> CallState] /\ CallArguments'
      <3> HIDE DEF C
      <3>1. QED
        BY <2>1, <2>2
    <2>4. QED
      BY <1>3, <2>3 DEF FinalizeBuildBegin
  <1>4. ASSUME NEW c \in Call, NEW b \in BuildID, NEW ob \in OutputBase,
               StartBuildExisting(c, ob, b)
        PROVE  TInv'
    <2>1. call' = [call EXCEPT ![c] = [IdleCall EXCEPT !.pc = "filter",
                                      !.req = b, !.path = outputBaseIDs[ob]]]
      BY <1>4 DEF StartBuildExisting
    <2>2. /\ call'[c] \in CallState
          /\ call'[c].pc = "filter" /\ call'[c].req = b
      BY <2>1 DEF CallState, IdleCall
    <2>3. call' \in [Call -> CallState] /\ CallArguments'
      BY <2>1, <2>2
    <2>4. QED
      BY <1>4, <2>3 DEF StartBuildExisting, WithoutBuildOf
  <1>5. ASSUME NEW c \in Call, NEW b \in BuildID, NEW ob \in OutputBase,
               NEW p \in PathID, StartBuildInitial(c, ob, b, p)
        PROVE  TInv'
    <2>1. call' \in [Call -> CallState] /\ CallArguments'
      BY <1>5 DEF StartBuildInitial, CallState, IdleCall
    <2>2. next' \in [Node -> Node] /\ previous' \in [Node -> Node]
      BY <1>5 DEF StartBuildInitial, NextAfterInsert, PreviousAfterInsert,
                  Node
    <2>3. QED
      BY <1>5, <2>1, <2>2 DEF StartBuildInitial
  <1>6. ASSUME NEW c \in Call, NEW ob \in OutputBase, CleanLookup(c, ob)
        PROVE  TInv'
    <2> DEFINE p == outputBaseIDs[ob]
               pc == IF p # NULL THEN "removing" ELSE "factoryClean"
               C == [IdleCall EXCEPT !.pc = pc, !.ob = ob, !.path = p]
    <2>1. call' = [call EXCEPT ![c] = C]
      BY <1>6 DEF CleanLookup
    <2>2. /\ C \in CallState
          /\ C.pc \in {"removing", "factoryClean"} /\ C.ob = ob
          /\ C.pc = "removing" => C.path \in PathID
      BY DEF CallState, IdleCall
    <2>3. call' \in [Call -> CallState] /\ CallArguments'
      <3> HIDE DEF C
      <3>1. QED
        BY <2>1, <2>2
    <2>4. QED
      BY <1>6, <2>3 DEF CleanLookup
  <1>7. ASSUME NEW c \in Call,
               \/ StartBuildReturn(c) \/ StartBuildError(c)
               \/ ServingReturn(c) \/ CleanFactory(c)
        PROVE  TInv'
    <2>1. call' = [call EXCEPT ![c] = IdleCall]
      BY <1>7 DEF StartBuildReturn, StartBuildError, ServingReturn,
                  CleanFactory
    <2>2. call' \in [Call -> CallState] /\ CallArguments'
      BY <2>1 DEF IdleCall
    <2>3. QED
      BY <1>7, <2>2 DEF StartBuildReturn, StartBuildError, ServingReturn,
                        CleanFactory
  <1>7a. ASSUME NEW c \in Call, StartBuildFails(c)
         PROVE  TInv'
    BY <1>7a DEF StartBuildFails, CallState
  <1>8. ASSUME NEW c \in Call, FinalizeBuildEnd(c)
        PROVE  TInv'
    BY <1>8 DEF FinalizeBuildEnd, IdleCall
  <1>9. ASSUME NEW c \in Call, CleanRemoveAllChildren(c)
        PROVE  TInv'
    BY <1>9 DEF CleanRemoveAllChildren, CallState
  <1>10. ASSUME NEW c \in Call, CleanRemoveAllChildrenFails(c)
         PROVE  TInv'
    BY <1>10 DEF CleanRemoveAllChildrenFails, IdleCall
  <1>11. ASSUME NEW c \in Call, CleanUnregister(c)
         PROVE  TInv'
    <2>1. call' \in [Call -> CallState] /\ CallArguments'
      BY <1>11 DEF CleanUnregister, CallState
    <2>2. CASE outputBaseIDs[call[c].ob] = call[c].path
      BY <1>11, <2>1, <2>2 DEF CleanUnregister, NextAfterRemove,
                               PreviousAfterRemove, WithoutBuildOf, Node
    <2>3. CASE outputBaseIDs[call[c].ob] # call[c].path
      BY <1>11, <2>1, <2>3 DEF CleanUnregister
    <2>4. QED
      BY <2>2, <2>3
  <1>12. ASSUME NEW c \in Call, CleanNotify(c)
         PROVE  TInv'
    BY <1>12 DEF CleanNotify, IdleCall
  <1>13. ASSUME NEW r \in Reader, NEW ob \in OutputBase, LookupRequest(r, ob)
         PROVE  TInv'
    <2>1. reader'[r] \in ReaderState
      BY <1>13 DEF LookupRequest, ReaderState
    <2>2. reader' \in [Reader -> ReaderState] /\ ReaderArguments'
      BY <1>13, <2>1 DEF LookupRequest, ReaderState
    <2>3. QED
      BY <1>13, <2>2 DEF LookupRequest
  <1>14. ASSUME NEW r \in Reader, VirtualLookup(r)
         PROVE  TInv'
    <2>1. reader'[r] \in ReaderState
      BY <1>14 DEF VirtualLookup, ReaderState
    <2>2. reader' \in [Reader -> ReaderState] /\ ReaderArguments'
      BY <1>14, <2>1 DEF VirtualLookup, ReaderState
    <2>3. QED
      BY <1>14, <2>2 DEF VirtualLookup
  <1>15. ASSUME NEW r \in Reader, LookupReply(r)
         PROVE  TInv'
    <2>1. reader'[r] \in ReaderState
      BY <1>15 DEF LookupReply
    <2>2. reader' \in [Reader -> ReaderState] /\ ReaderArguments'
      BY <1>15, ReaderUpdate DEF LookupReply, IdleReader
    <2>3. dentry' \in [OutputBase -> PathID \union {NULL}]
      <3>1. reader[r].path \in PathID \union {NULL}
        BY DEF ReaderState
      <3>2. QED
        BY <1>15, <3>1 DEF LookupReply
    <2>4. QED
      BY <1>15, <2>2, <2>3 DEF LookupReply
  <1>16. ASSUME NEW r \in Reader, OpenDir(r)
         PROVE  TInv'
    <2> DEFINE R == Registered
    <2>0. R \in SUBSET PathID
      BY DEF Registered
    <2>1. reader'[r] \in ReaderState
      <3>1. reader'[r] = [IdleReader EXCEPT !.pc = "open", !.since = R]
        BY <1>16 DEF OpenDir
      <3> HIDE DEF R
      <3>2. QED
        BY <3>1, <2>0 DEF ReaderState, IdleReader, Node
    <2>2. reader' \in [Reader -> ReaderState] /\ ReaderArguments'
      BY <1>16, <2>1 DEF OpenDir, IdleReader
    <2>3. QED
      BY <1>16, <2>2 DEF OpenDir
  <1>17. ASSUME NEW r \in Reader, ReadDirRequest(r)
         PROVE  TInv'
    <2> DEFINE Q == reader[r]
               R == [Q EXCEPT !.pc = "readdir", !.got = FALSE]
    <2>1. Q \in ReaderState
      OBVIOUS
    <2>2. reader' = [reader EXCEPT ![r] = R]
      BY <1>17 DEF ReadDirRequest
    <2>3. R \in ReaderState /\ R.pc \notin {"lookup", "reply"}
      <3> HIDE DEF Q
      <3>1. QED
        BY <2>1 DEF ReaderState
    <2>4. reader' \in [Reader -> ReaderState] /\ ReaderArguments'
      <3> HIDE DEF R
      <3>1. QED
        BY <2>2, <2>3, ReaderUpdate
    <2>5. QED
      BY <1>17, <2>4 DEF ReadDirRequest
  <1>18. ASSUME NEW r \in Reader, VirtualReadDir(r)
         PROVE  TInv'
    <2> DEFINE Q == reader[r]
               R == [Q EXCEPT !.pc = "seek", !.cursor = next[ROOT]]
    <2>1. Q \in ReaderState
      OBVIOUS
    <2>2. reader' = [reader EXCEPT ![r] = R]
      BY <1>18 DEF VirtualReadDir
    <2>3. R \in ReaderState /\ R.pc \notin {"lookup", "reply"}
      <3>1. next[ROOT] \in Node
        BY DEF Node
      <3> HIDE DEF Q
      <3>2. QED
        BY <2>1, <3>1 DEF ReaderState
    <2>4. reader' \in [Reader -> ReaderState] /\ ReaderArguments'
      <3> HIDE DEF R
      <3>1. QED
        BY <2>2, <2>3, ReaderUpdate
    <2>5. QED
      BY <1>18, <2>4 DEF VirtualReadDir
  <1>19. ASSUME NEW r \in Reader, ReadDirSeek(r)
         PROVE  TInv'
    <2> DEFINE Q == reader[r]
               R == IF cookie[Q.cursor] >= Q.firstCookie
                      THEN [Q EXCEPT !.pc = "report"]
                      ELSE [Q EXCEPT !.cursor = next[Q.cursor]]
    <2>1. Q \in ReaderState
      OBVIOUS
    <2>2. reader' = [reader EXCEPT ![r] = R]
      BY <1>19 DEF ReadDirSeek
    <2>3. R \in ReaderState /\ R.pc \notin {"lookup", "reply"}
      <3>1. next[Q.cursor] \in Node /\ Q.pc = "seek"
        BY <1>19, <2>1 DEF ReadDirSeek, ReaderState
      <3> HIDE DEF Q
      <3>2. QED
        BY <2>1, <3>1 DEF ReaderState
    <2>4. reader' \in [Reader -> ReaderState] /\ ReaderArguments'
      <3> HIDE DEF R
      <3>1. QED
        BY <2>2, <2>3, ReaderUpdate
    <2>5. QED
      BY <1>19, <2>4 DEF ReadDirSeek
  <1>20. ASSUME NEW r \in Reader, ReadDirReport(r)
         PROVE  TInv'
    <2> DEFINE Q == reader[r]
               R == [Q EXCEPT !.seen = @ \union {Q.cursor},
                               !.firstCookie = cookie[Q.cursor] + 1,
                               !.got = TRUE, !.cursor = next[Q.cursor]]
    <2>1. Q \in ReaderState
      OBVIOUS
    <2>2. reader' = [reader EXCEPT ![r] = R]
      BY <1>20 DEF ReadDirReport
    <2>3. R \in ReaderState /\ R.pc \notin {"lookup", "reply"}
      <3>1. /\ Q.cursor \in PathID /\ cookie[Q.cursor] + 1 \in Nat
            /\ next[Q.cursor] \in Node /\ Q.pc = "report"
        BY <1>20, <2>1 DEF ReadDirReport, ReaderState, Node
      <3>2. Q.seen \union {Q.cursor} \in SUBSET PathID
        BY <2>1, <3>1 DEF ReaderState
      <3> HIDE DEF Q
      <3>3. QED
        BY <2>1, <3>1, <3>2 DEF ReaderState
    <2>4. reader' \in [Reader -> ReaderState] /\ ReaderArguments'
      <3> HIDE DEF R
      <3>1. QED
        BY <2>2, <2>3, ReaderUpdate
    <2>5. QED
      BY <1>20, <2>4 DEF ReadDirReport
  <1>21. ASSUME NEW r \in Reader, ReadDirFull(r)
         PROVE  TInv'
    <2> DEFINE Q == reader[r]
               R == [Q EXCEPT !.pc = "open"]
    <2>1. Q \in ReaderState
      OBVIOUS
    <2>2. reader' = [reader EXCEPT ![r] = R]
      BY <1>21 DEF ReadDirFull
    <2>3. R \in ReaderState /\ R.pc \notin {"lookup", "reply"}
      <3> HIDE DEF Q
      <3>1. QED
        BY <2>1 DEF ReaderState
    <2>4. reader' \in [Reader -> ReaderState] /\ ReaderArguments'
      <3> HIDE DEF R
      <3>1. QED
        BY <2>2, <2>3, ReaderUpdate
    <2>5. QED
      BY <1>21, <2>4 DEF ReadDirFull
  <1>22. ASSUME NEW r \in Reader, ReadDirEnd(r)
         PROVE  TInv'
    <2> DEFINE Q == reader[r]
               R == [Q EXCEPT !.pc = IF Q.got THEN "open" ELSE "eof"]
    <2>1. Q \in ReaderState
      OBVIOUS
    <2>2. reader' = [reader EXCEPT ![r] = R]
      BY <1>22 DEF ReadDirEnd
    <2>3. R \in ReaderState /\ R.pc \notin {"lookup", "reply"}
      <3> HIDE DEF Q
      <3>1. QED
        BY <2>1 DEF ReaderState
    <2>4. reader' \in [Reader -> ReaderState] /\ ReaderArguments'
      <3> HIDE DEF R
      <3>1. QED
        BY <2>2, <2>3, ReaderUpdate
    <2>5. QED
      BY <1>22, <2>4 DEF ReadDirEnd
  <1>23. CASE UNCHANGED vars
    BY <1>23 DEF vars
  <1>24. QED
    BY <1>1, <1>2, <1>3, <1>4, <1>5, <1>6, <1>7, <1>7a, <1>8, <1>9, <1>10, <1>11,
       <1>12, <1>13, <1>14, <1>15, <1>16, <1>17, <1>18, <1>19, <1>20, <1>21,
       <1>22, <1>23, NextActions, Zenon

(* The type invariant of the registry holds for all values of the          *)
(* constants.                                                              *)
THEOREM TypeCorrect == Spec => []TypeOK
  <1>1. Init => TInv
    BY TInvInit
  <1>2. TInv /\ [Next]_vars => TInv'
    BY TInvNext
  <1>3. TInv => TypeOK
    BY DEF TInv
  <1>4. QED
    BY <1>1, <1>2, <1>3, PTL DEF Spec

-----------------------------------------------------------------------------
(* The maps.  FinalizeBuild() deletes what it looked up at the start of    *)
(* its critical section, so it is essential that it holds the lock until   *)
(* the end.  Clean() does not, but its output path keeps its name.         *)
LockHeld ==
    /\ \A c \in Call : At(c, "finalizing") => lock = c
    /\ \A r \in Reader : reader[r].pc \in {"seek", "report"} => lock = r

FinalizingCurrent ==
    \A c \in Call : At(c, "finalizing") =>
        /\ call[c].build \in BuildID
        /\ buildIDs[call[c].build] = call[c].path

CleaningOwnName ==
    \A c \in Call : call[c].pc \in {"removing", "unregister"} =>
        /\ call[c].path \in allocated
        /\ outputBaseID[call[c].path] = call[c].ob

IInv == /\ IndexConsistent
        /\ AdmittedToOwnBuild
        /\ LockHeld
        /\ FinalizingCurrent
        /\ CleaningOwnName

LEMMA IInvInit == Init => IInv
  BY ConstantsAssumption
     DEF Init, IInv, IndexConsistent, AdmittedToOwnBuild, LockHeld,
         FinalizingCurrent, CleaningOwnName, IdleCall, IdleReader, At

(* An output path is in the directory iff it is what its name leads to.    *)
LEMMA RegisteredByName ==
    ASSUME TInv, IndexConsistent, NEW p \in PathID
    PROVE  p \in Registered <=>
               /\ outputBaseID[p] \in OutputBase
               /\ outputBaseIDs[outputBaseID[p]] = p
  BY ConstantsAssumption DEF TInv, TypeOK, IndexConsistent, Registered

LEMMA IInvNext ==
    ASSUME TInv, TInv', IInv, [Next]_vars
    PROVE  IInv'
  <1> USE ConstantsAssumption
  <1> USE DEF IInv, index, list, contents, kernel, At, Return
  <1>1. ASSUME NEW c \in Call, NEW b \in BuildID,
               \/ StartBuildResume(c, b)
               \/ GetOutputPathAndBuildState(c, b)
               \/ FinalizeBuildBegin(c, b)
        PROVE  IInv'
    <2>1. IndexConsistent'
      BY <1>1 DEF StartBuildResume, GetOutputPathAndBuildState,
                  FinalizeBuildBegin, IndexConsistent, Registered
    <2>2. buildState[buildIDs[b]] = b /\ buildIDs[b] \in PathID
      BY <1>1 DEF IndexConsistent, TInv, TypeOK, StartBuildResume,
                  GetOutputPathAndBuildState, FinalizeBuildBegin
    <2>3. \A d \in Call \ {c} : call'[d] = call[d]
      BY <1>1 DEF StartBuildResume, GetOutputPathAndBuildState,
                  FinalizeBuildBegin, TInv, TypeOK
    <2>4. /\ call'[c].pc \in {"serving", "finalizing"} =>
                 /\ call'[c].path = buildIDs[b]
                 /\ call'[c].build = b
                 /\ call'[c].req = b
          /\ call'[c].pc \in {"filter", "serving", "finalizing"}
      <3>1. CASE StartBuildResume(c, b)
        BY <3>1 DEF StartBuildResume, TInv, TypeOK, IdleCall
      <3>2. CASE GetOutputPathAndBuildState(c, b)
        BY <3>2, <2>2 DEF GetOutputPathAndBuildState, TInv, TypeOK, IdleCall
      <3>3. CASE FinalizeBuildBegin(c, b)
        BY <3>3, <2>2 DEF FinalizeBuildBegin, TInv, TypeOK, IdleCall
      <3>4. QED
        BY <1>1, <3>1, <3>2, <3>3
    <2>5. \/ lock' = lock /\ ~(call'[c].pc = "finalizing")
          \/ lock = NULL /\ lock' = c
      <3>1. CASE StartBuildResume(c, b)
        BY <3>1 DEF StartBuildResume, TInv, TypeOK, IdleCall
      <3>2. CASE GetOutputPathAndBuildState(c, b)
        BY <3>2 DEF GetOutputPathAndBuildState, TInv, TypeOK, IdleCall
      <3>3. CASE FinalizeBuildBegin(c, b)
        BY <3>3 DEF FinalizeBuildBegin
      <3>4. QED
        BY <1>1, <3>1, <3>2, <3>3
    <2>6. UNCHANGED <<index, list, reader>>
      BY <1>1 DEF StartBuildResume, GetOutputPathAndBuildState,
                  FinalizeBuildBegin
    <2>7. AdmittedToOwnBuild'
      BY <2>2, <2>3, <2>4 DEF AdmittedToOwnBuild
    <2>8. LockHeld'
      BY <2>3, <2>5, <2>6 DEF LockHeld
    <2>9. FinalizingCurrent' /\ CleaningOwnName'
      BY <2>3, <2>4, <2>6 DEF FinalizingCurrent, CleaningOwnName
    <2>10. QED
      BY <2>1, <2>7, <2>8, <2>9
  <1>2. ASSUME NEW c \in Call, NEW b \in BuildID, NEW ob \in OutputBase,
               StartBuildExisting(c, ob, b)
        PROVE  IInv'
    <2> DEFINE p == outputBaseIDs[ob]
    <2>1. /\ p \in PathID /\ lock = NULL
          /\ \A d \in BuildID : buildIDs'[d] =
                IF d = b THEN p
                         ELSE IF d = buildState[p] THEN NULL ELSE buildIDs[d]
          /\ buildState' = [buildState EXCEPT ![p] = b]
          /\ buildIDs[b] = NULL
          /\ UNCHANGED <<lock, outputBaseIDs, list, reader>>
      BY <1>2 DEF StartBuildExisting, WithoutBuildOf, TInv, TypeOK
    <2>2. IndexConsistent'
      BY <2>1 DEF IndexConsistent, Registered, TInv, TypeOK
    <2>3. /\ \A d \in Call \ {c} : call'[d] = call[d]
          /\ call'[c].pc = "filter"
      BY <1>2 DEF StartBuildExisting, TInv, TypeOK, IdleCall
    <2>4. AdmittedToOwnBuild' /\ LockHeld' /\ CleaningOwnName'
      BY <2>1, <2>3 DEF AdmittedToOwnBuild, LockHeld, CleaningOwnName
    <2>5. FinalizingCurrent'
      BY <2>1, <2>3 DEF LockHeld, FinalizingCurrent
    <2>6. QED
      BY <2>2, <2>4, <2>5
  <1>3. ASSUME NEW c \in Call, NEW b \in BuildID, NEW ob \in OutputBase,
               NEW p \in PathID, StartBuildInitial(c, ob, b, p)
        PROVE  IInv'
    <2>1. /\ lock = NULL /\ UNCHANGED <<lock, reader>>
          /\ p \notin allocated /\ allocated' = allocated \union {p}
          /\ outputBaseIDs[ob] = NULL /\ buildIDs[b] = NULL
          /\ outputBaseIDs' = [outputBaseIDs EXCEPT ![ob] = p]
          /\ outputBaseID' = [outputBaseID EXCEPT ![p] = ob]
          /\ buildIDs' = [buildIDs EXCEPT ![b] = p]
          /\ buildState' = [buildState EXCEPT ![p] = b]
      BY <1>3 DEF StartBuildInitial
    <2>2. buildState[p] = NULL /\ p \notin Registered
      BY <2>1 DEF IndexConsistent, Registered, TInv, TypeOK
    <2>3. Registered' = Registered \union {p}
      BY <2>1 DEF Registered, TInv, TypeOK
    <2>4. IndexConsistent'
      BY <2>1, <2>2, <2>3 DEF IndexConsistent, TInv, TypeOK
    <2>5. /\ \A d \in Call \ {c} : call'[d] = call[d]
          /\ call'[c].pc = "filter"
      BY <1>3 DEF StartBuildInitial, TInv, TypeOK, IdleCall
    <2>6. AdmittedToOwnBuild' /\ LockHeld'
      BY <2>1, <2>5 DEF AdmittedToOwnBuild, LockHeld
    <2>7. CleaningOwnName'
      BY <2>1, <2>5 DEF CleaningOwnName, TInv, TypeOK
    <2>8. FinalizingCurrent'
      BY <2>1, <2>5 DEF LockHeld, FinalizingCurrent
    <2>9. QED
      BY <2>4, <2>6, <2>7, <2>8
  <1>4. ASSUME NEW c \in Call, FinalizeBuildEnd(c)
        PROVE  IInv'
    <2> DEFINE p == call[c].path
    <2>1. /\ lock = c /\ lock' = NULL
          /\ p \in PathID /\ call[c].build \in BuildID
          /\ buildIDs[call[c].build] = p
          /\ buildIDs' = [b \in BuildID |->
                            IF b = call[c].build THEN NULL ELSE buildIDs[b]]
          /\ buildState' = [buildState EXCEPT ![p] = NULL]
          /\ UNCHANGED <<outputBaseIDs, list, reader>>
      BY <1>4 DEF FinalizeBuildEnd, LockHeld, FinalizingCurrent, TInv,
                  CallArguments
    <2>2. IndexConsistent'
      BY <2>1 DEF IndexConsistent, Registered, TInv, TypeOK
    <2>3. /\ \A d \in Call \ {c} : call'[d] = call[d]
          /\ call'[c].pc = "idle"
      BY <1>4 DEF FinalizeBuildEnd, TInv, TypeOK, IdleCall
    <2>4. AdmittedToOwnBuild' /\ CleaningOwnName'
      BY <2>1, <2>3 DEF AdmittedToOwnBuild, CleaningOwnName
    <2>5. LockHeld' /\ FinalizingCurrent'
      BY <2>1, <2>3 DEF LockHeld, FinalizingCurrent
    <2>6. QED
      BY <2>2, <2>4, <2>5
  <1>5. ASSUME NEW c \in Call, NEW ob \in OutputBase, CleanLookup(c, ob)
        PROVE  IInv'
    <2>1. /\ \A d \in Call \ {c} : call'[d] = call[d]
          /\ call'[c].pc \in {"removing", "factoryClean"}
          /\ call'[c].path = outputBaseIDs[ob] /\ call'[c].ob = ob
          /\ call'[c].pc = "removing" => outputBaseIDs[ob] # NULL
          /\ UNCHANGED <<lock, index, list, reader>>
      BY <1>5 DEF CleanLookup, TInv, TypeOK, IdleCall
    <2>2. IndexConsistent' /\ LockHeld' /\ AdmittedToOwnBuild'
            /\ FinalizingCurrent'
      BY <2>1 DEF IndexConsistent, Registered, LockHeld, AdmittedToOwnBuild,
                  FinalizingCurrent
    <2>3. CleaningOwnName'
      BY <2>1 DEF CleaningOwnName, IndexConsistent
    <2>4. QED
      BY <2>2, <2>3
  <1>6. ASSUME NEW c \in Call, CleanUnregister(c)
        PROVE  IInv'
    <2> DEFINE p  == call[c].path
               ob == call[c].ob
    <2>1. /\ lock = NULL
          /\ p \in PathID /\ ob \in OutputBase
          /\ UNCHANGED <<lock, cookie, outputBaseID, allocated, reader>>
      BY <1>6 DEF CleanUnregister, TInv, CallArguments
    <2>2. /\ \A d \in Call \ {c} : call'[d] = call[d]
          /\ call'[c].pc = "notify"
      BY <1>6 DEF CleanUnregister, TInv, TypeOK, CallState
    <2>3. IndexConsistent'
      <3>1. CASE outputBaseIDs[ob] = p
        <4>1. /\ outputBaseIDs' = [outputBaseIDs EXCEPT ![ob] = NULL]
              /\ buildIDs' = [b \in BuildID |-> IF b = buildState[p]
                                                  THEN NULL ELSE buildIDs[b]]
              /\ buildState' = [buildState EXCEPT ![p] = NULL]
          BY <1>6, <3>1 DEF CleanUnregister, WithoutBuildOf
        <4>2. Registered' = Registered \ {p}
          BY <2>1, <3>1, <4>1 DEF Registered, IndexConsistent, TInv, TypeOK
        <4>3. QED
          BY <2>1, <3>1, <4>1, <4>2 DEF IndexConsistent, TInv, TypeOK
      <3>2. CASE outputBaseIDs[ob] # p
        BY <1>6, <3>2 DEF CleanUnregister, IndexConsistent, Registered
      <3>3. QED
        BY <3>1, <3>2
    <2>4. AdmittedToOwnBuild' /\ LockHeld' /\ CleaningOwnName'
      BY <2>1, <2>2 DEF AdmittedToOwnBuild, LockHeld, CleaningOwnName
    <2>5. FinalizingCurrent'
      BY <2>1, <2>2 DEF LockHeld, FinalizingCurrent
    <2>6. QED
      BY <2>3, <2>4, <2>5
  <1>7. ASSUME NEW c \in Call,
               \/ StartBuildReturn(c) \/ StartBuildFails(c)
               \/ StartBuildError(c) \/ ServingReturn(c) \/ CleanFactory(c)
               \/ CleanRemoveAllChildren(c) \/ CleanRemoveAllChildrenFails(c)
               \/ CleanNotify(c)
        PROVE  IInv'
    <2>1. /\ \A d \in Call \ {c} : call'[d] = call[d]
          /\ \/ call'[c].pc \in {"idle", "error"}
             \/ /\ call[c].pc = "removing" /\ call'[c].pc = "unregister"
                /\ call'[c].path = call[c].path /\ call'[c].ob = call[c].ob
          /\ UNCHANGED <<lock, index, list, reader>>
      BY <1>7 DEF StartBuildReturn, StartBuildFails, StartBuildError,
                  ServingReturn, CleanFactory, CleanNotify,
                  CleanRemoveAllChildren, CleanRemoveAllChildrenFails,
                  TInv, TypeOK, IdleCall, CallState
    <2>2. QED
      BY <2>1 DEF IndexConsistent, Registered, LockHeld, AdmittedToOwnBuild,
                  FinalizingCurrent, CleaningOwnName
  <1>8. ASSUME NEW r \in Reader,
               \/ \E ob \in OutputBase : LookupRequest(r, ob)
               \/ VirtualLookup(r) \/ LookupReply(r) \/ OpenDir(r)
               \/ ReadDirRequest(r) \/ VirtualReadDir(r) \/ ReadDirSeek(r)
               \/ ReadDirReport(r) \/ ReadDirFull(r) \/ ReadDirEnd(r)
        PROVE  IInv'
    <2>1. UNCHANGED <<index, list, call>>
      BY <1>8 DEF LookupRequest, VirtualLookup, LookupReply, OpenDir,
                  ReadDirRequest, VirtualReadDir, ReadDirSeek, ReadDirReport,
                  ReadDirFull, ReadDirEnd
    <2>2. \A s \in Reader \ {r} : reader'[s] = reader[s]
      BY <1>8 DEF LookupRequest, VirtualLookup, LookupReply, OpenDir,
                  ReadDirRequest, VirtualReadDir, ReadDirSeek, ReadDirReport,
                  ReadDirFull, ReadDirEnd, TInv, TypeOK
    <2>3. \/ /\ lock' = lock
             /\ reader'[r].pc \in {"seek", "report"} =>
                    reader[r].pc \in {"seek", "report"}
          \/ lock = NULL /\ lock' = r
          \/ /\ lock = r /\ lock' = NULL
             /\ reader'[r].pc \notin {"seek", "report"}
      <3>1. ASSUME NEW ob \in OutputBase, LookupRequest(r, ob)
            PROVE  lock' = lock /\ reader'[r].pc = "lookup"
        BY <3>1 DEF LookupRequest, TInv, TypeOK, ReaderState
      <3>2. CASE VirtualLookup(r) \/ ReadDirRequest(r)
        BY <3>2 DEF VirtualLookup, ReadDirRequest, TInv, TypeOK, ReaderState
      <3>3. CASE LookupReply(r)
        BY <3>3 DEF LookupReply, TInv, TypeOK, IdleReader
      <3>4. CASE OpenDir(r)
        BY <3>4 DEF OpenDir, TInv, TypeOK, IdleReader
      <3>5. CASE VirtualReadDir(r) \/ ReadDirSeek(r) \/ ReadDirReport(r)
        BY <3>5 DEF VirtualReadDir, ReadDirSeek, ReadDirReport
      <3>6. CASE ReadDirFull(r) \/ ReadDirEnd(r)
        BY <3>6 DEF ReadDirFull, ReadDirEnd, LockHeld, TInv, TypeOK,
                    ReaderState
      <3>7. QED
        BY <1>8, <3>1, <3>2, <3>3, <3>4, <3>5, <3>6
    <2>4. LockHeld'
      BY <2>1, <2>2, <2>3 DEF LockHeld
    <2>5. QED
      BY <2>1, <2>4 DEF IndexConsistent, Registered, AdmittedToOwnBuild,
                        FinalizingCurrent, CleaningOwnName
  <1>9. CASE UNCHANGED vars
    BY <1>9 DEF vars, IndexConsistent, Registered, LockHeld,
                AdmittedToOwnBuild, FinalizingCurrent, CleaningOwnName
  <1>10. QED
    BY <1>1, <1>2, <1>3, <1>4, <1>5, <1>6, <1>7, <1>8, <1>9, NextActions,
       Zenon

(* At all times, both maps and the fields of the output paths agree, and   *)
(* the calls that were admitted for a build hold the state of that build.  *)
THEOREM IndexCorrect == Spec => [](IndexConsistent /\ AdmittedToOwnBuild)
  <1>1. Init => TInv /\ IInv
    BY TInvInit, IInvInit
  <1>2. TInv /\ IInv /\ [Next]_vars => TInv' /\ IInv'
    BY TInvNext, IInvNext
  <1>3. IInv => IndexConsistent /\ AdmittedToOwnBuild
    BY DEF IInv
  <1>4. QED
    BY <1>1, <1>2, <1>3, PTL DEF Spec

-----------------------------------------------------------------------------
(* The circular list.  Only two actions touch it.                          *)
LEMMA ListFrame ==
    ASSUME [Next]_vars
    PROVE  \/ \E c \in Call, b \in BuildID, ob \in OutputBase, p \in PathID :
                  StartBuildInitial(c, ob, b, p)
           \/ \E c \in Call : CleanUnregister(c)
           \/ UNCHANGED <<outputBaseIDs, list>>
  <1> USE DEF index, list, contents, kernel
  <1>1. ASSUME NEW c \in Call, NEW b \in BuildID,
               \/ StartBuildResume(c, b) \/ GetOutputPathAndBuildState(c, b)
               \/ FinalizeBuildBegin(c, b)
               \/ \E ob \in OutputBase : StartBuildExisting(c, ob, b)
        PROVE  UNCHANGED <<outputBaseIDs, list>>
    BY <1>1 DEF StartBuildResume, GetOutputPathAndBuildState,
                FinalizeBuildBegin, StartBuildExisting
  <1>2. ASSUME NEW c \in Call,
               \/ \E ob \in OutputBase : CleanLookup(c, ob)
               \/ StartBuildReturn(c) \/ StartBuildFails(c)
               \/ StartBuildError(c) \/ ServingReturn(c)
               \/ FinalizeBuildEnd(c) \/ CleanRemoveAllChildren(c)
               \/ CleanRemoveAllChildrenFails(c) \/ CleanNotify(c)
               \/ CleanFactory(c)
        PROVE  UNCHANGED <<outputBaseIDs, list>>
    BY <1>2 DEF CleanLookup, StartBuildReturn, StartBuildFails,
                StartBuildError, ServingReturn,
                FinalizeBuildEnd, CleanRemoveAllChildren,
                CleanRemoveAllChildrenFails, CleanNotify, CleanFactory
  <1>3. ASSUME NEW r \in Reader,
               \/ \E ob \in OutputBase : LookupRequest(r, ob)
               \/ VirtualLookup(r) \/ LookupReply(r) \/ OpenDir(r)
               \/ ReadDirRequest(r) \/ VirtualReadDir(r) \/ ReadDirSeek(r)
               \/ ReadDirReport(r) \/ ReadDirFull(r) \/ ReadDirEnd(r)
        PROVE  UNCHANGED <<outputBaseIDs, list>>
    BY <1>3 DEF LookupRequest, VirtualLookup, LookupReply, OpenDir,
                ReadDirRequest, VirtualReadDir, ReadDirSeek, ReadDirReport,
                ReadDirFull, ReadDirEnd
  <1>4. CASE UNCHANGED vars
    BY <1>4 DEF vars
  <1>5. QED
    BY <1>1, <1>2, <1>3, <1>4, NextActions, Zenon

(* gRPC calls do not touch the state of file system requests.              *)
LEMMA CallsLeaveReader ==
    /\ \A c \in Call, b \in BuildID :
          \/ StartBuildResume(c, b) \/ GetOutputPathAndBuildState(c, b)
          \/ FinalizeBuildBegin(c, b)
          \/ \E ob \in OutputBase :
                \/ StartBuildExisting(c, ob, b)
                \/ \E p \in PathID : StartBuildInitial(c, ob, b, p)
          => UNCHANGED reader
    /\ \A c \in Call :
          \/ \E ob \in OutputBase : CleanLookup(c, ob)
          \/ StartBuildReturn(c) \/ StartBuildFails(c) \/ StartBuildError(c)
          \/ ServingReturn(c) \/ FinalizeBuildEnd(c)
          \/ CleanRemoveAllChildren(c) \/ CleanRemoveAllChildrenFails(c)
          \/ CleanUnregister(c) \/ CleanNotify(c) \/ CleanFactory(c)
          => UNCHANGED reader
  <1>1. \A c \in Call, b \in BuildID :
          \/ StartBuildResume(c, b) \/ GetOutputPathAndBuildState(c, b)
          \/ FinalizeBuildBegin(c, b)
          \/ \E ob \in OutputBase :
                \/ StartBuildExisting(c, ob, b)
                \/ \E p \in PathID : StartBuildInitial(c, ob, b, p)
          => UNCHANGED reader
    <2>1. ASSUME NEW c \in Call, NEW b \in BuildID,
                 \/ StartBuildResume(c, b) \/ GetOutputPathAndBuildState(c, b)
                 \/ FinalizeBuildBegin(c, b)
          PROVE  UNCHANGED reader
      BY <2>1 DEF StartBuildResume, GetOutputPathAndBuildState,
                  FinalizeBuildBegin, kernel
    <2>2. ASSUME NEW c \in Call, NEW b \in BuildID, NEW ob \in OutputBase,
                 StartBuildExisting(c, ob, b)
          PROVE  UNCHANGED reader
      BY <2>2 DEF StartBuildExisting, kernel
    <2>3. ASSUME NEW c \in Call, NEW b \in BuildID, NEW ob \in OutputBase,
                 NEW p \in PathID, StartBuildInitial(c, ob, b, p)
          PROVE  UNCHANGED reader
      BY <2>3 DEF StartBuildInitial, kernel
    <2>4. QED
      BY <2>1, <2>2, <2>3
  <1>2. \A c \in Call :
          \/ \E ob \in OutputBase : CleanLookup(c, ob)
          \/ StartBuildReturn(c) \/ StartBuildFails(c) \/ StartBuildError(c)
          \/ ServingReturn(c) \/ FinalizeBuildEnd(c)
          \/ CleanRemoveAllChildren(c) \/ CleanRemoveAllChildrenFails(c)
          \/ CleanUnregister(c) \/ CleanNotify(c) \/ CleanFactory(c)
          => UNCHANGED reader
    BY DEF CleanLookup, StartBuildReturn, StartBuildFails,
           StartBuildError, ServingReturn, FinalizeBuildEnd,
           CleanRemoveAllChildren, CleanRemoveAllChildrenFails,
           CleanUnregister, CleanNotify, CleanFactory, kernel
  <1>3. QED
    BY <1>1, <1>2

(* What the two actions do to the set of registered output paths.          *)
LEMMA RegisteredAfterInsert ==
    ASSUME TInv, IInv, NEW c \in Call, NEW b \in BuildID,
           NEW ob \in OutputBase, NEW p \in PathID,
           StartBuildInitial(c, ob, b, p)
    PROVE  p \notin Registered /\ Registered' = Registered \union {p}
  BY ConstantsAssumption DEF StartBuildInitial, Registered, IInv,
     IndexConsistent, TInv, TypeOK

LEMMA RegisteredAfterRemove ==
    ASSUME TInv, IInv, NEW c \in Call, CleanUnregister(c)
    PROVE  /\ call[c].path \in PathID
           /\ Registered' = Registered \ {call[c].path}
           /\ outputBaseIDs[call[c].ob] = call[c].path
                 <=> call[c].path \in Registered
  <1> DEFINE p  == call[c].path
             ob == call[c].ob
  <1>1. p \in PathID /\ ob \in OutputBase /\ outputBaseID[p] = ob
    BY DEF CleanUnregister, At, TInv, CallArguments, IInv, CleaningOwnName
  <1>2. p \in Registered <=> outputBaseIDs[ob] = p
    BY <1>1, RegisteredByName DEF IInv
  <1>3. CASE outputBaseIDs[ob] = p
    <2>1. outputBaseIDs' = [outputBaseIDs EXCEPT ![ob] = NULL]
      BY <1>3 DEF CleanUnregister
    <2>2. Registered' = Registered \ {p}
      BY <1>1, <1>3, <2>1, ConstantsAssumption
         DEF Registered, IInv, IndexConsistent, TInv, TypeOK
    <2>3. QED
      BY <1>1, <1>2, <2>2
  <1>4. CASE outputBaseIDs[ob] # p
    BY <1>1, <1>2, <1>4 DEF CleanUnregister, Registered
  <1>5. QED
    BY <1>3, <1>4

LEMMA ListNext ==
    ASSUME TInv, IInv, ListConsistent, [Next]_vars
    PROVE  ListConsistent'
  <1> USE ConstantsAssumption
  <1>1. ASSUME NEW c \in Call, NEW b \in BuildID, NEW ob \in OutputBase,
               NEW p \in PathID, StartBuildInitial(c, ob, b, p)
        PROVE  ListConsistent'
    <2> DEFINE L == Registered \union {ROOT}
               tail == previous[ROOT]
    <2>1. /\ p \notin Registered
          /\ Registered' = Registered \union {p}
          /\ Registered \subseteq PathID
      <3>1. Registered \subseteq PathID
        BY DEF Registered, TInv, TypeOK
      <3>2. QED
        BY <1>1, <3>1, RegisteredAfterInsert
    <2>2. tail \in L /\ next[tail] = ROOT /\ p # ROOT /\ p # tail
      BY <2>1 DEF ListConsistent
    <2>3. /\ next' = [next EXCEPT ![tail] = p, ![p] = ROOT]
          /\ previous' = [previous EXCEPT ![p] = tail, ![ROOT] = p]
          /\ cookie' = [cookie EXCEPT ![p] = changeID]
          /\ changeID' = changeID + 1
      BY <1>1 DEF StartBuildInitial, NextAfterInsert, PreviousAfterInsert
    <2>4. /\ next'[tail] = p /\ next'[p] = ROOT
          /\ \A n \in L \ {tail} : next'[n] = next[n]
          /\ previous'[p] = tail /\ previous'[ROOT] = p
          /\ \A n \in Registered : previous'[n] = previous[n]
          /\ cookie'[p] = changeID
          /\ \A n \in Registered : cookie'[n] = cookie[n]
      BY <2>1, <2>2, <2>3 DEF TInv, TypeOK, Node
    <2>5. \A n \in L \ {tail} : next[n] \in Registered
      BY <2>1, <2>2 DEF ListConsistent
    <2>6. changeID \in Nat /\ cookie \in [PathID -> Nat]
      BY DEF TInv, TypeOK
    <2>7. \A n \in L \union {p} :
             /\ next'[n] \in L \union {p}
             /\ previous'[n] \in L \union {p}
             /\ previous'[next'[n]] = n
             /\ next'[previous'[n]] = n
      BY <2>1, <2>2, <2>4, <2>5 DEF ListConsistent
    <2>8. \A q \in Registered \union {p} :
             /\ cookie'[q] < changeID'
             /\ next'[q] # ROOT => cookie'[q] < cookie'[next'[q]]
      <3>1. \A q \in Registered : cookie[q] \in Nat /\ cookie[q] < changeID
        BY <2>1, <2>6 DEF ListConsistent
      <3> SUFFICES ASSUME NEW q \in Registered \union {p}
                   PROVE  /\ cookie'[q] < changeID + 1
                          /\ next'[q] # ROOT => cookie'[q] < cookie'[next'[q]]
        BY <2>3
      <3>2. CASE q = p
        BY <3>2, <2>4, <2>6
      <3>3. CASE q \in Registered /\ q = tail
        BY <3>1, <3>3, <2>4, <2>6
      <3>4. CASE q \in Registered /\ q # tail
        <4>1. next'[q] = next[q] /\ next[q] \in Registered
          BY <3>4, <2>4, <2>5
        <4>2. next[q] # ROOT
          BY <4>1, <2>1
        <4>3. cookie[q] < cookie[next[q]]
          BY <3>4, <4>2 DEF ListConsistent
        <4>4. QED
          BY <3>1, <3>4, <4>1, <4>3, <2>4, <2>6
      <3>5. QED
        BY <3>2, <3>3, <3>4
    <2>9. \A q, s \in Registered \union {p} :
             cookie'[q] = cookie'[s] => q = s
      BY <2>1, <2>4, <2>6 DEF ListConsistent
    <2>10. \A n \in L \union {p}, q \in Registered \union {p} :
             n = ROOT \/ cookie'[n] < cookie'[q] =>
                next'[n] # ROOT /\ cookie'[next'[n]] <= cookie'[q]
      <3> SUFFICES ASSUME NEW n \in L \union {p},
                          NEW q \in Registered \union {p},
                          n = ROOT \/ cookie'[n] < cookie'[q]
                   PROVE  next'[n] # ROOT /\ cookie'[next'[n]] <= cookie'[q]
        OBVIOUS
      <3>1. CASE n = p
        BY <3>1, <2>1, <2>2, <2>4, <2>6 DEF ListConsistent
      <3>2. CASE n = tail
        <4>1. q = p
          BY <3>2, <2>1, <2>2, <2>4, <2>6 DEF ListConsistent
        <4>2. QED
          BY <3>2, <4>1, <2>2, <2>4, <2>6
      <3>3. CASE n \in L \ {tail}
        BY <3>3, <2>1, <2>2, <2>4, <2>5, <2>6 DEF ListConsistent
      <3>4. QED
        BY <3>1, <3>2, <3>3
    <2>11. Registered' \union {ROOT} = L \union {p}
      BY <2>1
    <2>12. QED
      <3> HIDE DEF L, tail
      <3> QED
        BY <2>1, <2>7, <2>8, <2>9, <2>10, <2>11 DEF ListConsistent
  <1>2. ASSUME NEW c \in Call, CleanUnregister(c)
        PROVE  ListConsistent'
    <2> DEFINE p == call[c].path
               L == Registered \union {ROOT}
               K == L \ {p}
    <2>1. /\ p \in PathID /\ p # ROOT
          /\ Registered \subseteq PathID
          /\ Registered' = Registered \ {p}
          /\ cookie' = cookie
          /\ changeID \in Nat /\ cookie \in [PathID -> Nat]
      <3>1. Registered \subseteq PathID
        BY DEF Registered, TInv, TypeOK
      <3>2. p \in PathID /\ Registered' = Registered \ {p}
        BY <1>2, RegisteredAfterRemove
      <3>3. QED
        BY <1>2, <3>1, <3>2 DEF CleanUnregister, TInv, TypeOK
    <2>2. CASE p \notin Registered
      <3>1. outputBaseIDs[call[c].ob] # p
        BY <1>2, <2>2, RegisteredAfterRemove
      <3>2. UNCHANGED <<next, previous, changeID, outputBaseIDs>>
        BY <1>2, <3>1 DEF CleanUnregister
      <3>3. QED
        BY <2>1, <3>2 DEF ListConsistent, Registered
    <2>3. CASE p \in Registered
      <3>1. /\ next' = [next EXCEPT ![previous[p]] = next[p]]
            /\ previous' = [previous EXCEPT ![next[p]] = previous[p]]
            /\ changeID' = changeID + 1
        BY <1>2, <2>3, RegisteredAfterRemove
           DEF CleanUnregister, NextAfterRemove, PreviousAfterRemove
      <3>2. /\ previous[p] \in K /\ next[p] \in K
            /\ next[previous[p]] = p /\ previous[next[p]] = p
        <4>1. next[p] # p
          BY <2>1, <2>3 DEF ListConsistent
        <4>2. QED
          BY <2>1, <2>3, <4>1 DEF ListConsistent
      <3>3. /\ next'[previous[p]] = next[p]
            /\ \A n \in K \ {previous[p]} : next'[n] = next[n]
            /\ previous'[next[p]] = previous[p]
            /\ \A n \in K \ {next[p]} : previous'[n] = previous[n]
        BY <2>1, <3>1, <3>2 DEF TInv, TypeOK, Node
      <3>4. /\ \A n \in K \ {previous[p]} : next[n] \in K
            /\ \A n \in K \ {next[p]} : previous[n] \in K
        BY <2>1, <2>3, <3>2 DEF ListConsistent
      <3>5. \A n \in K :
               /\ next'[n] \in K
               /\ previous'[n] \in K
               /\ previous'[next'[n]] = n
               /\ next'[previous'[n]] = n
        BY <2>1, <3>2, <3>3, <3>4 DEF ListConsistent
      <3>6. \A q \in Registered \ {p} :
               /\ cookie'[q] < changeID'
               /\ next'[q] # ROOT => cookie'[q] < cookie'[next'[q]]
        <4> SUFFICES ASSUME NEW q \in Registered \ {p}
                     PROVE  /\ cookie[q] < changeID + 1
                            /\ next'[q] # ROOT => cookie[q] < cookie[next'[q]]
          BY <2>1, <3>1
        <4>1. CASE q = previous[p]
          BY <4>1, <2>1, <2>3, <3>2, <3>3 DEF ListConsistent
        <4>2. CASE q # previous[p]
          BY <4>2, <2>1, <3>3, <3>4 DEF ListConsistent
        <4>3. QED
          BY <4>1, <4>2
      <3>7. \A n \in K, q \in Registered \ {p} :
               n = ROOT \/ cookie'[n] < cookie'[q] =>
                  next'[n] # ROOT /\ cookie'[next'[n]] <= cookie'[q]
        <4> SUFFICES ASSUME NEW n \in K, NEW q \in Registered \ {p},
                            n = ROOT \/ cookie[n] < cookie[q]
                     PROVE  next'[n] # ROOT /\ cookie[next'[n]] <= cookie[q]
          BY <2>1
        <4>1. CASE n = previous[p]
          <5>1. cookie[p] < cookie[q]
            BY <4>1, <2>1, <2>3, <3>2 DEF ListConsistent
          <5>2. QED
            BY <4>1, <5>1, <2>1, <2>3, <3>2, <3>3 DEF ListConsistent
        <4>2. CASE n # previous[p]
          BY <4>2, <2>1, <3>3, <3>4 DEF ListConsistent
        <4>3. QED
          BY <4>1, <4>2
      <3>8. \A q, s \in Registered \ {p} : cookie'[q] = cookie'[s] => q = s
        BY <2>1 DEF ListConsistent
      <3>9. QED
        <4>1. Registered' \union {ROOT} = K
          BY <2>1
        <4>2. QED
          BY <2>1, <4>1, <3>5, <3>6, <3>7, <3>8 DEF ListConsistent
    <2>4. QED
      BY <2>2, <2>3
  <1>3. CASE UNCHANGED <<outputBaseIDs, list>>
    BY <1>3 DEF list, ListConsistent, Registered
  <1>4. QED
    BY <1>1, <1>2, <1>3, ListFrame, Zenon

LEMMA ListInit == Init => ListConsistent
  BY ConstantsAssumption DEF Init, ListConsistent, Registered, Node

-----------------------------------------------------------------------------
(* Listing the directory.  What a process has not seen yet lies at or      *)
(* beyond the cookie at which its next request starts; what it has seen    *)
(* lies before.  While a request walks the list, everything behind its     *)
(* cursor lies before that cookie.                                         *)
StreamOK(r) ==
    LET R == reader[r] IN
    /\ R.since \subseteq allocated
    /\ \A p \in R.seen : p \in allocated /\ cookie[p] < R.firstCookie
    /\ \A p \in R.since \intersect Registered :
          cookie[p] < R.firstCookie => p \in R.seen
    /\ R.pc \in {"seek", "report"} =>
          /\ R.cursor \in Registered \union {ROOT}
          /\ \A p \in Registered :
                R.cursor = ROOT \/ cookie[p] < cookie[R.cursor] =>
                    cookie[p] < R.firstCookie
    /\ R.pc = "report" /\ R.cursor # ROOT =>
          R.firstCookie <= cookie[R.cursor]
    /\ R.pc = "eof" =>
          \A p \in R.since \intersect Registered : cookie[p] < R.firstCookie

RInv == \A r \in Reader : StreamOK(r)

LEMMA RInvInit == Init => RInv
  BY ConstantsAssumption DEF Init, RInv, StreamOK, IdleReader

(* A step of another request, or of the registry while a request does not  *)
(* hold the lock, leaves a stream intact.                                  *)
LEMMA StreamRegistryStep ==
    ASSUME TInv, IInv, RInv, [Next]_vars, UNCHANGED reader, NEW r \in Reader
    PROVE  StreamOK(r)'
  <1> DEFINE R == reader[r]
  <1>0. StreamOK(r)
    BY DEF RInv
  <1>1. ASSUME NEW c \in Call, NEW b \in BuildID, NEW ob \in OutputBase,
               NEW p \in PathID, StartBuildInitial(c, ob, b, p)
        PROVE  StreamOK(r)'
    <2>1. /\ Registered' = Registered \union {p}
          /\ p \notin allocated /\ allocated' = allocated \union {p}
          /\ \A q \in allocated : cookie'[q] = cookie[q]
      BY <1>1, RegisteredAfterInsert DEF StartBuildInitial, TInv, TypeOK
    <2>2. R.pc \notin {"seek", "report"}
      BY <1>1, ConstantsAssumption DEF StartBuildInitial, IInv, LockHeld
    <2>3. QED
      BY <1>0, <2>1, <2>2 DEF StreamOK
  <1>2. ASSUME NEW c \in Call, CleanUnregister(c)
        PROVE  StreamOK(r)'
    <2>1. /\ Registered' \subseteq Registered
          /\ UNCHANGED <<allocated, cookie>>
      BY <1>2, RegisteredAfterRemove DEF CleanUnregister
    <2>2. R.pc \notin {"seek", "report"}
      BY <1>2, ConstantsAssumption DEF CleanUnregister, IInv, LockHeld
    <2>3. QED
      BY <1>0, <2>1, <2>2 DEF StreamOK
  <1>3. CASE UNCHANGED <<outputBaseIDs, list>>
    BY <1>0, <1>3 DEF StreamOK, Registered, list
  <1>4. QED
    BY <1>1, <1>2, <1>3, ListFrame, Zenon

LEMMA RInvNext ==
    ASSUME TInv, TInv', IInv, ListConsistent, RInv, [Next]_vars
    PROVE  RInv'
  <1> USE ConstantsAssumption
  <1>1. CASE UNCHANGED reader
    BY <1>1, StreamRegistryStep DEF RInv
  <1>2. ASSUME NEW r \in Reader, UNCHANGED <<outputBaseIDs, list>>,
               \A s \in Reader \ {r} : reader'[s] = reader[s],
               StreamOK(r)'
        PROVE  RInv'
    <2> SUFFICES ASSUME NEW s \in Reader, s # r
                 PROVE  StreamOK(s)'
      BY <1>2 DEF RInv
    <2>1. StreamOK(s) /\ reader'[s] = reader[s]
      BY <1>2 DEF RInv
    <2>2. QED
      BY <1>2, <2>1 DEF StreamOK, Registered, list
  <1>3. ASSUME NEW r \in Reader,
               \/ \E ob \in OutputBase : LookupRequest(r, ob)
               \/ VirtualLookup(r) \/ LookupReply(r) \/ OpenDir(r)
               \/ ReadDirRequest(r) \/ VirtualReadDir(r) \/ ReadDirSeek(r)
               \/ ReadDirReport(r) \/ ReadDirFull(r) \/ ReadDirEnd(r)
        PROVE  RInv'
    <2> DEFINE R == reader[r]
               p == R.cursor
    <2>1. /\ UNCHANGED <<outputBaseIDs, list>>
          /\ Registered' = Registered
      BY <1>3 DEF LookupRequest, VirtualLookup, LookupReply, OpenDir,
                  ReadDirRequest, VirtualReadDir, ReadDirSeek, ReadDirReport,
                  ReadDirFull, ReadDirEnd, Registered, index
    <2>2. \A s \in Reader \ {r} : reader'[s] = reader[s]
      BY <1>3 DEF LookupRequest, VirtualLookup, LookupReply, OpenDir,
                  ReadDirRequest, VirtualReadDir, ReadDirSeek, ReadDirReport,
                  ReadDirFull, ReadDirEnd, TInv, TypeOK
    <2>3. /\ R \in ReaderState
          /\ Registered \subseteq PathID
          /\ cookie \in [PathID -> Nat]
          /\ allocated' = allocated /\ cookie' = cookie
      BY <2>1 DEF TInv, TypeOK, Registered, list
    <2>4. StreamOK(r)
      BY DEF RInv
    <2>5. CASE \/ \E ob \in OutputBase : LookupRequest(r, ob)
               \/ VirtualLookup(r) \/ ReadDirRequest(r)
      <3>1. /\ reader'[r].pc \in {"lookup", "reply", "readdir"}
            /\ reader'[r].since = R.since
            /\ reader'[r].seen = R.seen
            /\ reader'[r].firstCookie = R.firstCookie
        <4>1. CASE \E ob \in OutputBase : LookupRequest(r, ob)
          BY <4>1, <2>3 DEF LookupRequest, TInv, TypeOK, ReaderState
        <4>2. CASE VirtualLookup(r)
          BY <4>2, <2>3 DEF VirtualLookup, TInv, TypeOK, ReaderState
        <4>3. CASE ReadDirRequest(r)
          BY <4>3, <2>3 DEF ReadDirRequest, TInv, TypeOK, ReaderState
        <4>4. QED
          BY <2>5, <4>1, <4>2, <4>3
      <3>2. StreamOK(r)'
        BY <2>1, <2>3, <2>4, <3>1 DEF StreamOK
      <3>3. QED
        BY <1>2, <2>1, <2>2, <3>2
    <2>6. CASE LookupReply(r)
      <3>1. reader'[r] = IdleReader
        BY <2>6 DEF LookupReply, TInv, TypeOK
      <3>2. StreamOK(r)'
        BY <3>1 DEF StreamOK, IdleReader
      <3>3. QED
        BY <1>2, <2>1, <2>2, <3>2
    <2>7. CASE OpenDir(r)
      <3>1. /\ reader'[r].pc = "open"
            /\ reader'[r].since = Registered
            /\ reader'[r].seen = {}
            /\ reader'[r].firstCookie = 0
        BY <2>7 DEF OpenDir, TInv, TypeOK, IdleReader
      <3>2. Registered \subseteq allocated
        BY DEF IInv, IndexConsistent, Registered
      <3>3. \A q \in Registered : ~(cookie[q] < 0)
        BY <2>3
      <3>4. StreamOK(r)'
        BY <2>1, <2>3, <3>1, <3>2, <3>3 DEF StreamOK
      <3>5. QED
        BY <1>2, <2>1, <2>2, <3>4
    <2>8. CASE VirtualReadDir(r)
      <3>1. /\ reader'[r].pc = "seek"
            /\ reader'[r].cursor = next[ROOT]
            /\ reader'[r].since = R.since
            /\ reader'[r].seen = R.seen
            /\ reader'[r].firstCookie = R.firstCookie
        BY <2>8, <2>3 DEF VirtualReadDir, TInv, TypeOK, ReaderState
      <3>2. /\ next[ROOT] \in Registered \union {ROOT}
            /\ \A q \in Registered :
                  next[ROOT] # ROOT /\ cookie[next[ROOT]] <= cookie[q]
        BY DEF ListConsistent
      <3>3. \A q \in Registered :
               ~(next[ROOT] = ROOT \/ cookie[q] < cookie[next[ROOT]])
        BY <2>3, <3>2
      <3>4. StreamOK(r)'
        BY <2>1, <2>3, <2>4, <3>1, <3>2, <3>3 DEF StreamOK
      <3>5. QED
        BY <1>2, <2>1, <2>2, <3>4
    <2>9. CASE ReadDirSeek(r)
      <3>0. /\ R.pc = "seek" /\ p \in Registered
            /\ R.firstCookie \in Nat /\ cookie[p] \in Nat
        BY <2>9, <2>3, <2>4 DEF ReadDirSeek, StreamOK, ReaderState
      <3>1. CASE cookie[p] >= R.firstCookie
        <4>1. reader'[r] = [R EXCEPT !.pc = "report"]
          BY <2>9, <3>1 DEF ReadDirSeek, TInv, TypeOK
        <4>2. /\ reader'[r].pc = "report" /\ reader'[r].cursor = p
              /\ reader'[r].since = R.since /\ reader'[r].seen = R.seen
              /\ reader'[r].firstCookie = R.firstCookie
          BY <4>1, <2>3 DEF ReaderState
        <4>3. StreamOK(r)'
          BY <2>1, <2>3, <2>4, <3>0, <3>1, <4>2 DEF StreamOK
        <4>4. QED
          BY <1>2, <2>1, <2>2, <4>3
      <3>2. CASE ~(cookie[p] >= R.firstCookie)
        <4>1. reader'[r] = [R EXCEPT !.cursor = next[p]]
          BY <2>9, <3>2 DEF ReadDirSeek, TInv, TypeOK
        <4>2. /\ reader'[r].pc = "seek" /\ reader'[r].cursor = next[p]
              /\ reader'[r].since = R.since /\ reader'[r].seen = R.seen
              /\ reader'[r].firstCookie = R.firstCookie
          BY <4>1, <2>3, <3>0 DEF ReaderState
        <4>3. next[p] \in Registered \union {ROOT}
          BY <3>0 DEF ListConsistent
        <4>4. ASSUME NEW q \in Registered,
                     next[p] = ROOT \/ cookie[q] < cookie[next[p]]
              PROVE  cookie[q] < R.firstCookie
          <5>1. ~(cookie[p] < cookie[q])
            BY <4>3, <4>4, <3>0, <2>3 DEF ListConsistent
          <5>2. QED
            BY <5>1, <3>0, <3>2, <2>3
        <4>5. StreamOK(r)'
          BY <2>1, <2>3, <2>4, <4>2, <4>3, <4>4 DEF StreamOK
        <4>6. QED
          BY <1>2, <2>1, <2>2, <4>5
      <3>3. QED
        BY <3>1, <3>2
    <2>10. CASE ReadDirReport(r)
      <3>0. /\ R.pc = "report" /\ p \in Registered /\ p # ROOT
            /\ R.firstCookie \in Nat /\ cookie[p] \in Nat
            /\ p \in allocated
        BY <2>10, <2>3, <2>4 DEF ReadDirReport, StreamOK, ReaderState,
           IInv, IndexConsistent, Registered
      <3>1. /\ reader'[r].pc = "report" /\ reader'[r].cursor = next[p]
            /\ reader'[r].since = R.since
            /\ reader'[r].seen = R.seen \union {p}
            /\ reader'[r].firstCookie = cookie[p] + 1
        <4>1. reader'[r] = [R EXCEPT !.seen = @ \union {p},
                                     !.firstCookie = cookie[p] + 1,
                                     !.got = TRUE, !.cursor = next[p]]
          BY <2>10 DEF ReadDirReport, TInv, TypeOK
        <4> HIDE DEF R, p
        <4>2. QED
          BY <4>1, <3>0, <2>3 DEF ReaderState
      <3>2. R.firstCookie <= cookie[p]
        BY <3>0, <2>4 DEF StreamOK
      <3>3. next[p] \in Registered \union {ROOT}
        BY <3>0 DEF ListConsistent
      <3>4. ASSUME NEW q \in Registered,
                   next[p] = ROOT \/ cookie[q] < cookie[next[p]]
            PROVE  cookie[q] < cookie[p] + 1
        <4>1. ~(cookie[p] < cookie[q])
          BY <3>3, <3>4, <3>0, <2>3 DEF ListConsistent
        <4>2. QED
          BY <4>1, <3>0, <2>3
      <3>5. ASSUME NEW q \in R.since \intersect Registered,
                   cookie[q] < cookie[p] + 1
            PROVE  q \in R.seen \union {p}
        <4>1. CASE cookie[q] = cookie[p]
          BY <4>1, <3>0 DEF ListConsistent
        <4>2. CASE cookie[q] < cookie[p]
          BY <4>2, <3>0, <2>4 DEF StreamOK
        <4>3. QED
          BY <4>1, <4>2, <3>0, <3>5, <2>3
      <3>6. \A q \in R.seen \union {p} :
               q \in allocated /\ cookie[q] < cookie[p] + 1
        <4>1. \A q \in R.seen : q \in allocated /\ cookie[q] < R.firstCookie
          BY <2>4 DEF StreamOK
        <4>2. allocated \subseteq PathID
          BY DEF TInv, TypeOK
        <4>3. QED
          BY <4>1, <4>2, <3>0, <3>2, <2>3
      <3>7. next[p] # ROOT => cookie[p] + 1 <= cookie[next[p]]
        BY <3>0, <3>3, <2>3 DEF ListConsistent
      <3>8. StreamOK(r)'
        <4>1. next' = next
          BY <2>1 DEF list
        <4>2. R.since \subseteq allocated
          BY <2>4 DEF StreamOK
        <4> HIDE DEF R, p
        <4>3. QED
          BY <2>1, <2>3, <3>1, <3>3, <3>4, <3>5, <3>6, <3>7, <4>1, <4>2
             DEF StreamOK
      <3>9. QED
        BY <1>2, <2>1, <2>2, <3>8
    <2>11. CASE ReadDirFull(r) \/ ReadDirEnd(r)
      <3>1. /\ reader'[r].pc \in {"open", "eof"}
            /\ reader'[r].pc = "eof" =>
                  R.pc \in {"seek", "report"} /\ R.cursor = ROOT
            /\ reader'[r].since = R.since
            /\ reader'[r].seen = R.seen
            /\ reader'[r].firstCookie = R.firstCookie
        <4>1. CASE ReadDirFull(r)
          BY <4>1, <2>3 DEF ReadDirFull, TInv, TypeOK, ReaderState
        <4>2. CASE ReadDirEnd(r)
          BY <4>2, <2>3 DEF ReadDirEnd, TInv, TypeOK, ReaderState
        <4>3. QED
          BY <2>11, <4>1, <4>2
      <3>2. StreamOK(r)'
        BY <2>1, <2>3, <2>4, <3>1 DEF StreamOK
      <3>3. QED
        BY <1>2, <2>1, <2>2, <3>2
    <2>12. QED
      BY <1>3, <2>5, <2>6, <2>7, <2>8, <2>9, <2>10, <2>11
  <1>4. (\E r \in Reader :
               \/ \E ob \in OutputBase : LookupRequest(r, ob)
               \/ VirtualLookup(r) \/ LookupReply(r) \/ OpenDir(r)
               \/ ReadDirRequest(r) \/ VirtualReadDir(r) \/ ReadDirSeek(r)
               \/ ReadDirReport(r) \/ ReadDirFull(r) \/ ReadDirEnd(r))
        \/ UNCHANGED reader
    BY CallsLeaveReader, NextActions, Zenon DEF vars, kernel
  <1>5. QED
    BY <1>1, <1>3, <1>4, Zenon

(* The list holds the registered output paths in cookie order, and a       *)
(* process that lists the directory is told about every output path that   *)
(* was there all along, exactly once.                                      *)
THEOREM ListingCorrect ==
    Spec => [](ListConsistent /\ ReadDirComplete /\ ReadDirNoDuplicates)
  <1>1. Init => TInv /\ IInv /\ ListConsistent /\ RInv
    BY TInvInit, IInvInit, ListInit, RInvInit
  <1>2. TInv /\ IInv /\ ListConsistent /\ RInv /\ [Next]_vars
          => (TInv /\ IInv /\ ListConsistent /\ RInv)'
    BY TInvNext, IInvNext, ListNext, RInvNext
  <1>3. TInv /\ RInv => ReadDirComplete /\ ReadDirNoDuplicates
    <2> SUFFICES ASSUME TInv, RInv, NEW r \in Reader
                 PROVE  /\ reader[r].pc = "eof" =>
                              reader[r].since \intersect Registered
                                  \subseteq reader[r].seen
                        /\ reader[r].pc = "report" =>
                              reader[r].cursor \notin reader[r].seen
      BY DEF ReadDirComplete, ReadDirNoDuplicates
    <2>1. StreamOK(r) /\ reader[r] \in ReaderState
      BY DEF RInv, TInv, TypeOK
    <2>2. reader[r].pc = "eof" =>
              reader[r].since \intersect Registered \subseteq reader[r].seen
      BY <2>1 DEF StreamOK
    <2>3. ASSUME reader[r].pc = "report", reader[r].cursor \in reader[r].seen
          PROVE  FALSE
      <3>1. reader[r].cursor \in PathID /\ reader[r].cursor # ROOT
        BY <2>1, <2>3, ConstantsAssumption DEF ReaderState
      <3>2. /\ cookie[reader[r].cursor] < reader[r].firstCookie
            /\ reader[r].firstCookie <= cookie[reader[r].cursor]
        BY <2>1, <2>3, <3>1 DEF StreamOK
      <3>3. cookie[reader[r].cursor] \in Nat /\ reader[r].firstCookie \in Nat
        BY <3>1, <2>1 DEF TInv, TypeOK, ReaderState
      <3>4. QED
        BY <3>2, <3>3
    <2>4. QED
      BY <2>2, <2>3
  <1>4. QED
    BY <1>1, <1>2, <1>3, PTL DEF Spec

-----------------------------------------------------------------------------
(* The kernel's cache.  A lookup reply that is under way is subject to the *)
(* same condition as a cached entry; NotifyRemoval() waits for it.         *)
NotifyPending(ob) == \E c \in Call : At(c, "notify") /\ call[c].ob = ob

ReplyFresh ==
    \A r \in Reader : reader[r].pc = "reply" =>
        \/ reader[r].path \in {NULL, outputBaseIDs[reader[r].ob]}
        \/ NotifyPending(reader[r].ob)

DInv == DentryFresh /\ ReplyFresh

LEMMA DInvNext ==
    ASSUME TInv, TInv', IInv, DInv, [Next]_vars
    PROVE  DInv'
  <1> USE ConstantsAssumption
  <1> USE DEF DInv, DentryFresh, ReplyFresh, NotifyPending, index, list,
              contents, kernel, At, Return
  <1>1. ASSUME UNCHANGED kernel,
               \A ob \in OutputBase : NotifyPending(ob) => NotifyPending(ob)',
               \A ob \in OutputBase :
                   \/ outputBaseIDs'[ob] = outputBaseIDs[ob]
                   \/ outputBaseIDs[ob] = NULL
                   \/ NotifyPending(ob)'
        PROVE  DInv'
    BY <1>1 DEF TInv, ReaderArguments
  <1>2. ASSUME NEW c \in Call, call[c].pc # "notify", UNCHANGED kernel,
               \A d \in Call \ {c} : call'[d] = call[d],
               UNCHANGED outputBaseIDs
        PROVE  DInv'
    BY <1>1, <1>2
  <1>3. ASSUME NEW c \in Call, NEW b \in BuildID,
               \/ StartBuildResume(c, b) \/ GetOutputPathAndBuildState(c, b)
               \/ FinalizeBuildBegin(c, b)
        PROVE  DInv'
    <2>1. /\ call[c].pc # "notify" /\ UNCHANGED kernel
          /\ \A d \in Call \ {c} : call'[d] = call[d]
          /\ UNCHANGED outputBaseIDs
      BY <1>3 DEF StartBuildResume, GetOutputPathAndBuildState,
                  FinalizeBuildBegin, TInv, TypeOK
    <2>2. QED
      BY <1>2, <2>1
  <1>4. ASSUME NEW c \in Call, NEW b \in BuildID, NEW ob \in OutputBase,
               StartBuildExisting(c, ob, b)
        PROVE  DInv'
    <2>1. /\ call[c].pc # "notify" /\ UNCHANGED kernel
          /\ \A d \in Call \ {c} : call'[d] = call[d]
          /\ UNCHANGED outputBaseIDs
      BY <1>4 DEF StartBuildExisting, TInv, TypeOK
    <2>2. QED
      BY <1>2, <2>1
  <1>5. ASSUME NEW c \in Call, NEW b \in BuildID, NEW ob \in OutputBase,
               NEW p \in PathID, StartBuildInitial(c, ob, b, p)
        PROVE  DInv'
    <2>1. /\ call[c].pc # "notify" /\ UNCHANGED kernel
          /\ \A d \in Call \ {c} : call'[d] = call[d]
          /\ outputBaseIDs[ob] = NULL
          /\ outputBaseIDs' = [outputBaseIDs EXCEPT ![ob] = p]
      BY <1>5 DEF StartBuildInitial, TInv, TypeOK
    <2>2. QED
      BY <1>1, <2>1 DEF TInv, TypeOK
  <1>6. ASSUME NEW c \in Call,
               \/ \E ob \in OutputBase : CleanLookup(c, ob)
               \/ StartBuildReturn(c) \/ StartBuildFails(c)
               \/ StartBuildError(c) \/ ServingReturn(c)
               \/ FinalizeBuildEnd(c) \/ CleanRemoveAllChildren(c)
               \/ CleanRemoveAllChildrenFails(c) \/ CleanFactory(c)
        PROVE  DInv'
    <2>1. /\ call[c].pc # "notify" /\ UNCHANGED kernel
          /\ \A d \in Call \ {c} : call'[d] = call[d]
          /\ UNCHANGED outputBaseIDs
      <3>1. CASE \E ob \in OutputBase : CleanLookup(c, ob)
        BY <3>1 DEF CleanLookup, TInv, TypeOK
      <3>2. CASE ~\E ob \in OutputBase : CleanLookup(c, ob)
        BY <1>6, <3>2 DEF StartBuildReturn, StartBuildFails,
                          StartBuildError, ServingReturn, FinalizeBuildEnd,
                          CleanRemoveAllChildren, CleanFactory,
                          CleanRemoveAllChildrenFails, TInv, TypeOK
      <3>3. QED
        BY <3>1, <3>2
    <2>2. QED
      BY <1>2, <2>1
  <1>7. ASSUME NEW c \in Call, CleanUnregister(c)
        PROVE  DInv'
    <2>1. /\ call[c].pc # "notify" /\ UNCHANGED kernel
          /\ \A d \in Call \ {c} : call'[d] = call[d]
          /\ call'[c].pc = "notify" /\ call'[c].ob = call[c].ob
          /\ call[c].ob \in OutputBase
      BY <1>7 DEF CleanUnregister, TInv, TypeOK, CallState, CallArguments
    <2>2. \A ob \in OutputBase \ {call[c].ob} :
             outputBaseIDs'[ob] = outputBaseIDs[ob]
      BY <1>7 DEF CleanUnregister, TInv, TypeOK
    <2>3. QED
      BY <1>1, <2>1, <2>2
  <1>8. ASSUME NEW c \in Call, CleanNotify(c)
        PROVE  DInv'
    <2>1. /\ call[c].ob \in OutputBase
          /\ dentry' = [dentry EXCEPT ![call[c].ob] = NULL]
          /\ \A r \in Reader : reader'[r].pc # "reply"
          /\ \A d \in Call \ {c} : call'[d] = call[d]
          /\ UNCHANGED outputBaseIDs
      BY <1>8 DEF CleanNotify, KernelLockHolders, TInv, TypeOK, CallArguments
    <2>2. QED
      BY <2>1 DEF TInv, TypeOK
  <1>9. ASSUME NEW r \in Reader, LookupReply(r)
        PROVE  DInv'
    <2>1. /\ reader[r].ob \in OutputBase /\ reader[r].pc = "reply"
          /\ dentry' = [dentry EXCEPT ![reader[r].ob] = reader[r].path]
          /\ \A s \in Reader \ {r} : reader'[s] = reader[s]
          /\ reader'[r].pc = "idle"
          /\ UNCHANGED <<outputBaseIDs, call>>
      BY <1>9 DEF LookupReply, TInv, TypeOK, ReaderArguments, IdleReader
    <2>2. QED
      BY <2>1 DEF TInv, TypeOK
  <1>10. ASSUME NEW r \in Reader, VirtualLookup(r)
         PROVE  DInv'
    <2>1. /\ reader'[r].path = outputBaseIDs[reader[r].ob]
          /\ reader'[r].ob = reader[r].ob
          /\ \A s \in Reader \ {r} : reader'[s] = reader[s]
          /\ UNCHANGED <<outputBaseIDs, call, dentry>>
      BY <1>10 DEF VirtualLookup, TInv, TypeOK, ReaderState
    <2>2. QED
      BY <2>1
  <1>11. ASSUME NEW r \in Reader, reader'[r].pc # "reply",
                \A s \in Reader \ {r} : reader'[s] = reader[s],
                UNCHANGED <<outputBaseIDs, call, dentry>>
         PROVE  DInv'
    BY <1>11
  <1>12. ASSUME NEW r \in Reader, NEW ob \in OutputBase, LookupRequest(r, ob)
         PROVE  DInv'
    <2>1. /\ reader'[r].pc # "reply"
          /\ \A s \in Reader \ {r} : reader'[s] = reader[s]
          /\ UNCHANGED <<outputBaseIDs, call, dentry>>
      BY <1>12 DEF LookupRequest, TInv, TypeOK, ReaderState
    <2>2. QED
      BY <1>11, <2>1
  <1>13. ASSUME NEW r \in Reader, OpenDir(r)
         PROVE  DInv'
    <2>1. /\ reader'[r].pc # "reply"
          /\ \A s \in Reader \ {r} : reader'[s] = reader[s]
          /\ UNCHANGED <<outputBaseIDs, call, dentry>>
      BY <1>13 DEF OpenDir, TInv, TypeOK, IdleReader
    <2>2. QED
      BY <1>11, <2>1
  <1>14. ASSUME NEW r \in Reader,
                \/ ReadDirRequest(r) \/ VirtualReadDir(r) \/ ReadDirSeek(r)
                \/ ReadDirReport(r) \/ ReadDirFull(r) \/ ReadDirEnd(r)
         PROVE  DInv'
    <2>1. /\ reader'[r].pc # "reply"
          /\ \A s \in Reader \ {r} : reader'[s] = reader[s]
          /\ UNCHANGED <<outputBaseIDs, call, dentry>>
      <3>1. CASE ReadDirRequest(r) \/ VirtualReadDir(r)
        BY <3>1 DEF ReadDirRequest, VirtualReadDir, TInv, TypeOK, ReaderState
      <3>2. CASE ReadDirSeek(r)
        BY <3>2 DEF ReadDirSeek, TInv, TypeOK, ReaderState
      <3>3. CASE ReadDirReport(r)
        <4> DEFINE Q == reader[r]
                   R == [Q EXCEPT !.seen = @ \union {Q.cursor},
                                  !.firstCookie = cookie[Q.cursor] + 1,
                                  !.got = TRUE, !.cursor = next[Q.cursor]]
        <4>1. Q \in ReaderState
          BY DEF TInv, TypeOK
        <4>2. reader' = [reader EXCEPT ![r] = R] /\ Q.pc = "report"
          BY <3>3 DEF ReadDirReport
        <4>3. R.pc = "report"
          <5> HIDE DEF Q
          <5>1. QED
            BY <4>1, <4>2 DEF ReaderState
        <4>4. /\ reader'[r].pc = "report"
              /\ \A s \in Reader \ {r} : reader'[s] = reader[s]
          <5> HIDE DEF R
          <5>1. QED
            BY <4>2, <4>3 DEF TInv, TypeOK
        <4>5. QED
          BY <3>3, <4>4 DEF ReadDirReport
      <3>4. CASE ReadDirFull(r) \/ ReadDirEnd(r)
        BY <3>4 DEF ReadDirFull, ReadDirEnd, TInv, TypeOK, ReaderState
      <3>5. QED
        BY <1>14, <3>1, <3>2, <3>3, <3>4
    <2>2. QED
      BY <1>11, <2>1
  <1>15. CASE UNCHANGED vars
    BY <1>15 DEF vars
  <1>16. QED
    BY <1>3, <1>4, <1>5, <1>6, <1>7, <1>8, <1>9, <1>10, <1>12, <1>13, <1>14,
       <1>15, NextActions, Zenon

(* A removed output path never stays visible through the kernel's cache:   *)
(* a stale entry implies that a notification is still to come.             *)
THEOREM KernelCacheFresh == Spec => []DentryFresh
  <1>1. Init => TInv /\ IInv /\ DInv
    BY TInvInit, IInvInit
       DEF Init, DInv, DentryFresh, ReplyFresh, IdleReader
  <1>2. TInv /\ IInv /\ DInv /\ [Next]_vars => (TInv /\ IInv /\ DInv)'
    BY TInvNext, IInvNext, DInvNext
  <1>3. DInv => DentryFresh
    BY DEF DInv
  <1>4. QED
    BY <1>1, <1>2, <1>3, PTL DEF Spec

-----------------------------------------------------------------------------
(* Emptied output paths.                                                   *)
UnregisterEmptied ==
    \A c \in Call : At(c, "unregister") => call[c].path \in emptied

EInv == /\ UnregisteredEmptied
        /\ SealedIsTransient
        /\ UnregisterEmptied
        /\ emptied \subseteq allocated

LEMMA EInvInit == Init => EInv
  BY DEF Init, EInv, UnregisteredEmptied, SealedIsTransient,
         UnregisterEmptied, IdleCall, At

LEMMA EInvNext ==
    ASSUME TInv, TInv', IInv, EInv, [Next]_vars
    PROVE  EInv'
  <1> USE ConstantsAssumption
  <1> USE DEF EInv, UnregisteredEmptied, SealedIsTransient,
              UnregisterEmptied, index, list, contents, kernel, At, Return
  <1>1. ASSUME NEW c \in Call, call[c].pc # "unregister",
               call'[c].pc # "unregister",
               \A d \in Call \ {c} : call'[d] = call[d],
               UNCHANGED <<outputBaseIDs, allocated, contents>>
        PROVE  EInv'
    <2>1. Registered' = Registered
      BY <1>1 DEF Registered
    <2>2. QED
      BY <1>1, <2>1
  <1>2. ASSUME NEW c \in Call, NEW b \in BuildID,
               \/ StartBuildResume(c, b) \/ GetOutputPathAndBuildState(c, b)
               \/ FinalizeBuildBegin(c, b)
        PROVE  EInv'
    <2>1. /\ call[c].pc # "unregister"
          /\ \A d \in Call \ {c} : call'[d] = call[d]
          /\ UNCHANGED <<outputBaseIDs, allocated, contents>>
      BY <1>2 DEF StartBuildResume, GetOutputPathAndBuildState,
                  FinalizeBuildBegin, TInv, TypeOK
    <2>2. call'[c].pc # "unregister"
      <3>1. CASE StartBuildResume(c, b)
        BY <3>1 DEF StartBuildResume, TInv, TypeOK, IdleCall
      <3>2. CASE GetOutputPathAndBuildState(c, b)
        BY <3>2 DEF GetOutputPathAndBuildState, TInv, TypeOK, IdleCall
      <3>3. CASE FinalizeBuildBegin(c, b)
        BY <3>3 DEF FinalizeBuildBegin, TInv, TypeOK, IdleCall
      <3>4. QED
        BY <1>2, <3>1, <3>2, <3>3
    <2>3. QED
      BY <1>1, <2>1, <2>2
  <1>3. ASSUME NEW c \in Call, NEW b \in BuildID, NEW ob \in OutputBase,
               StartBuildExisting(c, ob, b)
        PROVE  EInv'
    <2>1. /\ call[c].pc # "unregister" /\ call'[c].pc = "filter"
          /\ \A d \in Call \ {c} : call'[d] = call[d]
          /\ UNCHANGED <<outputBaseIDs, allocated, contents>>
      BY <1>3 DEF StartBuildExisting, TInv, TypeOK, IdleCall
    <2>2. QED
      BY <1>1, <2>1
  <1>4. ASSUME NEW c \in Call, NEW b \in BuildID, NEW ob \in OutputBase,
               NEW p \in PathID, StartBuildInitial(c, ob, b, p)
        PROVE  EInv'
    <2>1. /\ call[c].pc # "unregister" /\ call'[c].pc = "filter"
          /\ \A d \in Call \ {c} : call'[d] = call[d]
          /\ UNCHANGED contents
          /\ p \notin allocated /\ allocated' = allocated \union {p}
      BY <1>4 DEF StartBuildInitial, TInv, TypeOK, IdleCall
    <2>2. Registered' = Registered \union {p}
      BY <1>4, RegisteredAfterInsert
    <2>3. QED
      BY <2>1, <2>2
  <1>5. ASSUME NEW c \in Call,
               \/ \E ob \in OutputBase : CleanLookup(c, ob)
               \/ StartBuildReturn(c) \/ StartBuildFails(c)
               \/ StartBuildError(c) \/ ServingReturn(c)
               \/ FinalizeBuildEnd(c) \/ CleanNotify(c) \/ CleanFactory(c)
        PROVE  EInv'
    <2>1. /\ call[c].pc # "unregister" /\ call'[c].pc # "unregister"
          /\ \A d \in Call \ {c} : call'[d] = call[d]
          /\ UNCHANGED <<outputBaseIDs, allocated, contents>>
      <3>1. CASE \E ob \in OutputBase : CleanLookup(c, ob)
        BY <3>1 DEF CleanLookup, TInv, TypeOK, IdleCall
      <3>2. CASE ~\E ob \in OutputBase : CleanLookup(c, ob)
        BY <1>5, <3>2 DEF StartBuildReturn, StartBuildFails,
                          StartBuildError, ServingReturn, FinalizeBuildEnd,
                          CleanNotify, CleanFactory, TInv, TypeOK, IdleCall,
                          CallState
      <3>3. QED
        BY <3>1, <3>2
    <2>2. QED
      BY <1>1, <2>1
  <1>6. ASSUME NEW c \in Call, CleanRemoveAllChildren(c)
        PROVE  EInv'
    <2>1. /\ call[c].path \in allocated
          /\ emptied' = emptied \union {call[c].path}
          /\ call'[c].pc = "unregister" /\ call'[c].path = call[c].path
          /\ \A d \in Call \ {c} : call'[d] = call[d]
          /\ cleanFailed' = cleanFailed \ {call[c].path}
          /\ UNCHANGED <<outputBaseIDs, allocated>>
      BY <1>6 DEF CleanRemoveAllChildren, TInv, TypeOK, CallState, IInv,
                  CleaningOwnName
    <2>2. Registered' = Registered
      BY <2>1 DEF Registered
    <2>3. QED
      BY <1>6, <2>1, <2>2 DEF CleanRemoveAllChildren
  <1>7. ASSUME NEW c \in Call, CleanRemoveAllChildrenFails(c)
        PROVE  EInv'
    <2>1. /\ call[c].path \in allocated /\ call[c].pc = "removing"
          /\ emptied' \in {emptied, emptied \union {call[c].path}}
          /\ cleanFailed' = cleanFailed \union {call[c].path}
          /\ call'[c].pc = "idle"
          /\ \A d \in Call \ {c} : call'[d] = call[d]
          /\ UNCHANGED <<outputBaseIDs, allocated>>
      BY <1>7 DEF CleanRemoveAllChildrenFails, TInv, TypeOK, IdleCall, IInv,
                  CleaningOwnName
    <2>2. Registered' = Registered
      BY <2>1 DEF Registered
    <2>3. QED
      BY <2>1, <2>2
  <1>8. ASSUME NEW c \in Call, CleanUnregister(c)
        PROVE  EInv'
    <2>1. /\ call[c].pc = "unregister" /\ call'[c].pc = "notify"
          /\ \A d \in Call \ {c} : call'[d] = call[d]
          /\ UNCHANGED <<allocated, contents>>
      BY <1>8 DEF CleanUnregister, TInv, TypeOK, CallState
    <2>2. Registered' = Registered \ {call[c].path}
      BY <1>8, RegisteredAfterRemove
    <2>3. QED
      BY <2>1, <2>2
  <1>9. ASSUME NEW r \in Reader,
               \/ \E ob \in OutputBase : LookupRequest(r, ob)
               \/ VirtualLookup(r) \/ LookupReply(r) \/ OpenDir(r)
               \/ ReadDirRequest(r) \/ VirtualReadDir(r) \/ ReadDirSeek(r)
               \/ ReadDirReport(r) \/ ReadDirFull(r) \/ ReadDirEnd(r)
        PROVE  EInv'
    <2>1. UNCHANGED <<outputBaseIDs, allocated, contents, call>>
      BY <1>9 DEF LookupRequest, VirtualLookup, LookupReply, OpenDir,
                  ReadDirRequest, VirtualReadDir, ReadDirSeek, ReadDirReport,
                  ReadDirFull, ReadDirEnd
    <2>2. QED
      BY <2>1 DEF Registered
  <1>10. CASE UNCHANGED vars
    BY <1>10 DEF vars, Registered
  <1>11. QED
    BY <1>2, <1>3, <1>4, <1>5, <1>6, <1>7, <1>8, <1>9, <1>10, NextActions,
       Zenon

(* Output paths are emptied before they leave the directory, and one that  *)
(* was emptied leaves the directory unless the last attempt at it failed.  *)
THEOREM CleaningCorrect ==
    Spec => [](UnregisteredEmptied /\ SealedIsTransient)
  <1>1. Init => TInv /\ IInv /\ EInv
    BY TInvInit, IInvInit, EInvInit
  <1>2. TInv /\ IInv /\ EInv /\ [Next]_vars => (TInv /\ IInv /\ EInv)'
    BY TInvNext, IInvNext, EInvNext
  <1>3. EInv => UnregisteredEmptied /\ SealedIsTransient
    BY DEF EInv
  <1>4. QED
    BY <1>1, <1>2, <1>3, PTL DEF Spec

-----------------------------------------------------------------------------
(* Refinement.  Six actions are visible to clients; all others leave the   *)
(* abstract state alone.                                                   *)
LEMMA SessionsStutter ==
    ASSUME UNCHANGED index, Failing' = Failing
    PROVE  UNCHANGED Sessions!vars
  BY DEF Sessions!vars, index, Session

(* The errors on their way to clients are not affected by the steps of     *)
(* calls that do not report one.                                           *)
LEMMA FailingKept ==
    ASSUME NEW c \in Call, \A d \in Call \ {c} : call'[d] = call[d],
           call[c].pc # "error", call'[c].pc # "error"
    PROVE  Failing' = Failing
  BY DEF Failing, At

LEMMA SessionsStep ==
    ASSUME TInv, IInv, [Next]_vars
    PROVE  [Sessions!Next]_(Sessions!vars)
  <1> USE ConstantsAssumption
  <1> DEFINE S == [ob \in OutputBase |-> Session(ob)]
             R == {b \in BuildID : buildIDs[b] # NULL}
  <1>1. ASSUME NEW c \in Call, NEW b \in BuildID, NEW ob \in OutputBase,
               StartBuildExisting(c, ob, b)
        PROVE  Sessions!Start(ob, b)
    <2> DEFINE p == outputBaseIDs[ob]
    <2>0. Failing' = Failing
      <3>1. /\ \A d \in Call \ {c} : call'[d] = call[d]
            /\ call[c].pc # "error" /\ call'[c].pc # "error"
        BY <1>1 DEF StartBuildExisting, At, Return, TInv, TypeOK, IdleCall,
                    CallState
      <3>2. QED
        BY <3>1, FailingKept
    <2>1. /\ p \in PathID /\ buildIDs[b] = NULL
          /\ \A d \in BuildID : buildIDs'[d] =
                IF d = b THEN p
                         ELSE IF d = buildState[p] THEN NULL ELSE buildIDs[d]
          /\ buildState' = [buildState EXCEPT ![p] = b]
          /\ UNCHANGED outputBaseIDs
      BY <1>1 DEF StartBuildExisting, WithoutBuildOf, TInv, TypeOK
    <2>2. \A o \in OutputBase \ {ob} : outputBaseIDs[o] # p
      BY <2>1 DEF IInv, IndexConsistent
    <2>3. S' = [S EXCEPT ![ob] = b]
      BY <2>1, <2>2 DEF Session, TInv, TypeOK
    <2>4. R' = (R \ {S[ob]}) \union {b}
      BY <2>1 DEF Session, TInv, TypeOK
    <2>5. QED
      BY <2>0, <2>1, <2>3, <2>4 DEF Sessions!Start
  <1>2. ASSUME NEW c \in Call, NEW b \in BuildID, NEW ob \in OutputBase,
               NEW p \in PathID, StartBuildInitial(c, ob, b, p)
        PROVE  Sessions!Start(ob, b)
    <2>0. Failing' = Failing
      <3>1. /\ \A d \in Call \ {c} : call'[d] = call[d]
            /\ call[c].pc # "error" /\ call'[c].pc # "error"
        BY <1>2 DEF StartBuildInitial, At, Return, TInv, TypeOK, IdleCall,
                    CallState
      <3>2. QED
        BY <3>1, FailingKept
    <2>1. /\ outputBaseIDs[ob] = NULL /\ buildIDs[b] = NULL
          /\ p \notin allocated
          /\ outputBaseIDs' = [outputBaseIDs EXCEPT ![ob] = p]
          /\ buildIDs' = [buildIDs EXCEPT ![b] = p]
          /\ buildState' = [buildState EXCEPT ![p] = b]
      BY <1>2 DEF StartBuildInitial
    <2>2. \A o \in OutputBase : outputBaseIDs[o] # p
      BY <2>1 DEF IInv, IndexConsistent
    <2>3. S' = [S EXCEPT ![ob] = b]
      BY <2>1, <2>2 DEF Session, TInv, TypeOK
    <2>4. R' = (R \ {S[ob]}) \union {b}
      BY <2>1 DEF Session, TInv, TypeOK
    <2>5. {o \in OutputBase : outputBaseIDs'[o] # NULL} =
              {o \in OutputBase : outputBaseIDs[o] # NULL} \union {ob}
      BY <2>1 DEF TInv, TypeOK
    <2>6. QED
      BY <2>0, <2>1, <2>3, <2>4, <2>5 DEF Sessions!Start
  <1>3. ASSUME NEW c \in Call, FinalizeBuildEnd(c)
        PROVE  \E ob \in OutputBase : Sessions!Finish(ob)
    <2> DEFINE p == call[c].path
    <2>0. Failing' = Failing
      <3>1. /\ \A d \in Call \ {c} : call'[d] = call[d]
            /\ call[c].pc # "error" /\ call'[c].pc # "error"
        BY <1>3 DEF FinalizeBuildEnd, At, Return, TInv, TypeOK, IdleCall,
                    CallState
      <3>2. QED
        BY <3>1, FailingKept
    <2>1. /\ p \in PathID /\ call[c].build \in BuildID
          /\ buildIDs[call[c].build] = p
          /\ buildIDs' = [b \in BuildID |->
                            IF b = call[c].build THEN NULL ELSE buildIDs[b]]
          /\ buildState' = [buildState EXCEPT ![p] = NULL]
          /\ UNCHANGED outputBaseIDs
      BY <1>3 DEF FinalizeBuildEnd, IInv, FinalizingCurrent, TInv,
                  CallArguments, At
    <2>2. PICK ob \in OutputBase : outputBaseIDs[ob] = p
      BY <2>1 DEF IInv, IndexConsistent, Registered
    <2>3. /\ buildState[p] = call[c].build
          /\ \A o \in OutputBase \ {ob} : outputBaseIDs[o] # p
      BY <2>1, <2>2 DEF IInv, IndexConsistent
    <2>4. S[ob] = call[c].build
      BY <2>1, <2>2, <2>3 DEF Session
    <2>5. S' = [S EXCEPT ![ob] = NULL]
      BY <2>1, <2>2, <2>3 DEF Session, TInv, TypeOK
    <2>6. R' = R \ {S[ob]} /\ S[ob] \in R
      BY <2>1, <2>4
    <2>7. QED
      BY <2>0, <2>1, <2>5, <2>6 DEF Sessions!Finish
  <1>4. ASSUME NEW c \in Call, CleanUnregister(c)
        PROVE  /\ Failing' = Failing
               /\ \/ UNCHANGED index
                  \/ \E ob \in OutputBase : Sessions!Clean(ob)
    <2> DEFINE p == call[c].path
    <2>a. Failing' = Failing
      <3>1. /\ \A d \in Call \ {c} : call'[d] = call[d]
            /\ call[c].pc # "error" /\ call'[c].pc # "error"
        BY <1>4 DEF CleanUnregister, At, Return, TInv, TypeOK, IdleCall,
                    CallState
      <3>2. QED
        BY <3>1, FailingKept
    <2>0. PICK ob \in OutputBase : ob = call[c].ob
      BY <1>4 DEF CleanUnregister, TInv, CallArguments, At
    <2>1. CASE outputBaseIDs[ob] # p
      BY <1>4, <2>a, <2>0, <2>1 DEF CleanUnregister, index
    <2>2. CASE outputBaseIDs[ob] = p
      <3>1. /\ p \in PathID /\ ob \in OutputBase
            /\ outputBaseIDs' = [outputBaseIDs EXCEPT ![ob] = NULL]
            /\ buildIDs' = [b \in BuildID |-> IF b = buildState[p]
                                                THEN NULL ELSE buildIDs[b]]
            /\ buildState' = [buildState EXCEPT ![p] = NULL]
        BY <1>4, <2>0, <2>2 DEF CleanUnregister, WithoutBuildOf, TInv,
                                CallArguments, At
      <3>2. \A o \in OutputBase \ {ob} : outputBaseIDs[o] # p
        BY <2>2, <3>1 DEF IInv, IndexConsistent
      <3>3. S' = [S EXCEPT ![ob] = NULL]
        BY <3>1, <3>2 DEF Session, TInv, TypeOK
      <3>4. R' = R \ {S[ob]}
        <4>1. S[ob] = buildState[p]
          BY <2>2, <3>1 DEF Session
        <4> HIDE DEF S
        <4>2. QED
          BY <3>1, <4>1
      <3>5. {o \in OutputBase : outputBaseIDs'[o] # NULL} =
                {o \in OutputBase : outputBaseIDs[o] # NULL} \ {ob}
        BY <3>1 DEF TInv, TypeOK
      <3>6. ob \in {o \in OutputBase : outputBaseIDs[o] # NULL}
        BY <2>2, <3>1
      <3>7. Sessions!Clean(ob)
        BY <2>a, <3>3, <3>4, <3>5, <3>6 DEF Sessions!Clean
      <3>8. QED
        BY <2>a, <3>7
    <2>3. QED
      BY <2>a, <2>1, <2>2
  <1>5. ASSUME NEW c \in Call,
               \/ \E b \in BuildID :
                     \/ StartBuildResume(c, b)
                     \/ GetOutputPathAndBuildState(c, b)
                     \/ FinalizeBuildBegin(c, b)
               \/ \E ob \in OutputBase : CleanLookup(c, ob)
               \/ StartBuildReturn(c) \/ ServingReturn(c)
               \/ CleanRemoveAllChildren(c) \/ CleanRemoveAllChildrenFails(c)
               \/ CleanNotify(c) \/ CleanFactory(c)
        PROVE  UNCHANGED index /\ Failing' = Failing
    <2>1. UNCHANGED index
      BY <1>5 DEF StartBuildResume, GetOutputPathAndBuildState,
                  FinalizeBuildBegin, CleanLookup, StartBuildReturn,
                  ServingReturn, CleanRemoveAllChildren,
                  CleanRemoveAllChildrenFails, CleanNotify, CleanFactory
    <2>2. /\ \A d \in Call \ {c} : call'[d] = call[d]
          /\ call[c].pc # "error" /\ call'[c].pc # "error"
      <3> USE DEF At, Return, TInv, TypeOK, IdleCall, CallState
      <3>1. CASE \E b \in BuildID : StartBuildResume(c, b)
        BY <3>1 DEF StartBuildResume
      <3>2. CASE \E b \in BuildID : GetOutputPathAndBuildState(c, b)
        BY <3>2 DEF GetOutputPathAndBuildState
      <3>3. CASE \E b \in BuildID : FinalizeBuildBegin(c, b)
        BY <3>3 DEF FinalizeBuildBegin
      <3>4. CASE \E ob \in OutputBase : CleanLookup(c, ob)
        BY <3>4 DEF CleanLookup
      <3>5. CASE \/ StartBuildReturn(c) \/ ServingReturn(c)
                 \/ CleanRemoveAllChildren(c)
                 \/ CleanRemoveAllChildrenFails(c) \/ CleanNotify(c)
                 \/ CleanFactory(c)
        BY <3>5 DEF StartBuildReturn, ServingReturn, CleanNotify,
                    CleanRemoveAllChildren, CleanRemoveAllChildrenFails,
                    CleanFactory
      <3>6. QED
        BY <1>5, <3>1, <3>2, <3>3, <3>4, <3>5, Zenon
    <2>3. QED
      BY <2>1, <2>2, FailingKept
  <1>5a. ASSUME NEW c \in Call, StartBuildFails(c)
         PROVE  \E b \in BuildID : Sessions!Fail(b)
    <2>1. /\ call[c].req \in BuildID /\ UNCHANGED index
          /\ call'[c].pc = "error" /\ call'[c].req = call[c].req
          /\ \A d \in Call \ {c} : call'[d] = call[d]
          /\ call[c].pc = "filter"
      BY <1>5a DEF StartBuildFails, TInv, TypeOK, CallArguments, CallState, At
    <2>2. Failing' = Failing \union {call[c].req}
      BY <2>1 DEF Failing, At
    <2>3. Sessions!Fail(call[c].req)
      BY <2>1, <2>2 DEF Sessions!Fail, index, Session
    <2>4. QED
      BY <2>1, <2>3
  <1>5b. ASSUME NEW c \in Call, StartBuildError(c)
         PROVE  \/ UNCHANGED index /\ Failing' = Failing
                \/ \E b \in BuildID : Sessions!Told(b)
    <2>1. /\ call[c].req \in BuildID /\ UNCHANGED index
          /\ call'[c].pc = "idle" /\ call[c].pc = "error"
          /\ \A d \in Call \ {c} : call'[d] = call[d]
      BY <1>5b DEF StartBuildError, Return, IdleCall, TInv, TypeOK,
                   CallArguments, At
    <2>2. \/ Failing' = Failing
          \/ Failing' = Failing \ {call[c].req}
      BY <2>1 DEF Failing, At
    <2>3. CASE Failing' = Failing \ {call[c].req}
      BY <2>1, <2>3 DEF Sessions!Told, index, Session
    <2>4. QED
      BY <2>1, <2>2, <2>3
  <1>6. ASSUME NEW r \in Reader,
               \/ \E ob \in OutputBase : LookupRequest(r, ob)
               \/ VirtualLookup(r) \/ LookupReply(r) \/ OpenDir(r)
               \/ ReadDirRequest(r) \/ VirtualReadDir(r) \/ ReadDirSeek(r)
               \/ ReadDirReport(r) \/ ReadDirFull(r) \/ ReadDirEnd(r)
        PROVE  UNCHANGED index /\ Failing' = Failing
    <2>1. UNCHANGED <<index, call>>
      BY <1>6 DEF LookupRequest, VirtualLookup, LookupReply, OpenDir,
                  ReadDirRequest, VirtualReadDir, ReadDirSeek, ReadDirReport,
                  ReadDirFull, ReadDirEnd
    <2>2. QED
      BY <2>1 DEF Failing, At
  <1>7. CASE UNCHANGED vars
    BY <1>7, SessionsStutter DEF vars, Failing, At
  <1>8. QED
    BY <1>1, <1>2, <1>3, <1>4, <1>5, <1>5a, <1>5b, <1>6, <1>7,
       SessionsStutter,       NextActions, Zenon DEF Sessions!Next

(* The registry implements the abstract service: whatever the threads do,  *)
(* clients see builds start, displace one another, finish and be cleaned,  *)
(* and an error of StartBuild() does not undo that its build has started.  *)
THEOREM Refinement == Spec => ImplementsBuildSessions
  <1>1. Init => Sessions!Init
    BY DEF Init, Sessions!Init, Session, Failing, At, IdleCall
  <1>2. Init => TInv /\ IInv
    BY TInvInit, IInvInit
  <1>3. TInv /\ IInv /\ [Next]_vars => (TInv /\ IInv)'
    BY TInvNext, IInvNext
  <1>4. TInv /\ IInv /\ [Next]_vars => [Sessions!Next]_(Sessions!vars)
    BY SessionsStep
  <1>5. QED
    BY <1>1, <1>2, <1>3, <1>4, PTL
       DEF Spec, ImplementsBuildSessions, Sessions!Spec

-----------------------------------------------------------------------------
(* Whoever changes the listing also advances d.changeID, and nobody ever   *)
(* sets it back.                                                           *)
THEOREM ChangeIDCorrect == Spec => ChangeIDAdvances
  <1>1. TypeOK /\ [Next]_vars =>
          [outputBaseIDs' # outputBaseIDs => changeID' > changeID]_vars
    <2> SUFFICES ASSUME TypeOK, Next, outputBaseIDs' # outputBaseIDs
                 PROVE  changeID' > changeID
      OBVIOUS
    <2>0. changeID \in Nat
      BY DEF TypeOK
    <2>1. ASSUME NEW c \in Call, CallNext(c)
          PROVE  changeID' > changeID
      <3>1. CASE StartBuild(c)
        <4>1. ASSUME NEW b \in BuildID, NEW ob \in OutputBase,
                     StartBuildExisting(c, ob, b)
              PROVE  outputBaseIDs' = outputBaseIDs
          BY <4>1 DEF StartBuildExisting
        <4>2. ASSUME NEW b \in BuildID, StartBuildResume(c, b)
              PROVE  outputBaseIDs' = outputBaseIDs
          BY <4>2 DEF StartBuildResume, index
        <4>3. ASSUME NEW b \in BuildID, NEW ob \in OutputBase, NEW p \in PathID,
                     StartBuildInitial(c, ob, b, p)
              PROVE  changeID' > changeID
          <5>1. changeID' = changeID + 1
            BY <4>3 DEF StartBuildInitial
          <5> QED BY <2>0, <5>1
        <4> QED BY <3>1, <4>1, <4>2, <4>3 DEF StartBuild
      <3>2. CASE CleanUnregister(c)
        BY <2>0, <3>2 DEF CleanUnregister
      <3> QED BY <2>1, <3>1, <3>2
                 DEF CallNext, StartBuildReturn, StartBuildFails,
                     StartBuildError, GetOutputPathAndBuildState,
                     FinalizeBuildBegin, ServingReturn, FinalizeBuildEnd,
                     CleanLookup, CleanRemoveAllChildren,
                     CleanRemoveAllChildrenFails, CleanNotify, CleanFactory,
                     index
    <2>2. ASSUME NEW r \in Reader, ReaderNext(r)
          PROVE  outputBaseIDs' = outputBaseIDs
      BY <2>2 DEF ReaderNext, LookupRequest, VirtualLookup, LookupReply,
                  OpenDir, ReadDirRequest, VirtualReadDir, ReadDirSeek,
                  ReadDirReport, ReadDirFull, ReadDirEnd, index
    <2> QED BY <2>1, <2>2 DEF Next
  <1> QED BY <1>1, TypeCorrect, PTL DEF Spec, ChangeIDAdvances
=============================================================================
