-------------------- MODULE FilterMissingChildren_proofs --------------------
(***************************************************************************)
(* What remains in the output path after StartBuild() has filtered it is   *)
(* backed by the storage, for any set of children, any number of digests   *)
(* and any batch size.                                                     *)
(***************************************************************************)
EXTENDS FilterMissingChildren, FiniteSetTheorems, TLAPS

(* The digests of a child that was visited are known to be stored, or wait *)
(* in the queue, or are about to be queued.                                *)
Accounted(c) ==
    \A d \in ContainingDigests[c] :
        d \in pinned \/ c \in queue[d] \/ (c = child /\ d \in digests)

EveryChildAccounted ==
    pc # "failed" => \A c \in children \ late : c \in todo \/ Accounted(c)

(* While a batch is being processed, a queued digest is stored, or its     *)
(* children are yet to be removed, or have been removed.                   *)
BatchAccounted ==
    pc = "remove" =>
        \A d \in Digest : \/ d \in pinned
                          \/ d \in missing
                          \/ queue[d] \intersect (children \ late) = {}

QueueSound ==
    /\ \A d \in Digest : \A c \in queue[d] : d \in ContainingDigests[c]
    /\ child # NULL => digests \subseteq ContainingDigests[child]
    /\ child = NULL => digests = {}
    /\ missing \subseteq absent
    /\ pc = "done" => todo = {} /\ child = NULL /\ Queued = {}

FInv == TypeOK /\ QueueSound /\ EveryChildAccounted /\ BatchAccounted

(* The queue is finite, so that its size is meaningful.                    *)
BInv == IsFiniteSet(Queued) /\ BatchBounded

LEMMA FInvInit == Init => FInv
  BY FilterAssumption
     DEF Init, FInv, TypeOK, QueueSound, EveryChildAccounted, Accounted,
         BatchAccounted, EmptyQueue, Queued

LEMMA FInvNext == FInv /\ [Next]_vars => FInv'
  <1> SUFFICES ASSUME FInv, [Next]_vars PROVE FInv'
    OBVIOUS
  <1> USE FilterAssumption DEF FInv
  <1>1. ASSUME NEW c \in Child, VisitChild(c) PROVE FInv'
    <2> USE <1>1 DEF VisitChild, Visit, cas
    <2>1. TypeOK' /\ QueueSound'
      BY DEF TypeOK, QueueSound, Queued
    <2>2. EveryChildAccounted'
      BY DEF EveryChildAccounted, Accounted, QueueSound
    <2>3. BatchAccounted'
      BY DEF BatchAccounted
    <2>4. QED
      BY <2>1, <2>2, <2>3
  <1>2. ASSUME NEW c \in Child, VisitOtherFunction(c) \/ VisitNotFound(c)
        PROVE  FInv'
    <2> USE <1>2 DEF VisitOtherFunction, VisitNotFound, Visit, cas
    <2>1. TypeOK' /\ QueueSound'
      BY DEF TypeOK, QueueSound, Queued
    <2>2. EveryChildAccounted'
      BY DEF EveryChildAccounted, Accounted
    <2>3. BatchAccounted'
      BY DEF BatchAccounted
    <2>4. QED
      BY <2>1, <2>2, <2>3
  <1>3. ASSUME NEW c \in Child, VisitFails(c) PROVE FInv'
    <2> USE <1>3 DEF VisitFails, Visit, cas
    <2>1. TypeOK' /\ QueueSound' /\ BatchAccounted'
      BY DEF TypeOK, QueueSound, Queued, BatchAccounted
    <2>2. QED
      BY <2>1 DEF EveryChildAccounted, Accounted
  <1>4. ASSUME NEW d \in Digest, QueueDigest(d) PROVE FInv'
    <2> USE <1>4 DEF QueueDigest, cas
    <2>1. child \in Child
      BY DEF TypeOK, QueueSound
    <2>2. /\ queue'[d] = queue[d] \union {child}
          /\ \A e \in Digest \ {d} : queue'[e] = queue[e]
      BY DEF TypeOK
    <2>3. TypeOK'
      BY <2>1 DEF TypeOK
    <2>4. QueueSound'
      BY <2>1, <2>2 DEF TypeOK, QueueSound
    <2>5. EveryChildAccounted'
      BY <2>1, <2>2 DEF TypeOK, EveryChildAccounted, Accounted
    <2>6. BatchAccounted'
      BY DEF BatchAccounted
    <2>7. QED
      BY <2>3, <2>4, <2>5, <2>6
  <1>5. ASSUME QueuedAll PROVE FInv'
    <2> USE <1>5 DEF QueuedAll, cas
    <2>1. TypeOK' /\ QueueSound' /\ BatchAccounted'
      BY DEF TypeOK, QueueSound, Queued, BatchAccounted
    <2>2. EveryChildAccounted'
      BY DEF EveryChildAccounted, Accounted
    <2>3. QED
      BY <2>1, <2>2
  <1>6. ASSUME FindMissing PROVE FInv'
    <2> USE <1>6 DEF FindMissing, walk
    <2>1. TypeOK' /\ QueueSound'
      BY DEF TypeOK, QueueSound, Queued
    <2>2. EveryChildAccounted'
      BY DEF EveryChildAccounted, Accounted
    <2>3. BatchAccounted'
      BY DEF BatchAccounted, Queued, TypeOK
    <2>4. QED
      BY <2>1, <2>2, <2>3
  <1>7. ASSUME FindMissingFails \/ RemoveMissingFails \/ FilterDone
        PROVE  FInv'
    <2> USE <1>7 DEF FindMissingFails, RemoveMissingFails, FilterDone, walk, cas
    <2>1. TypeOK' /\ QueueSound' /\ BatchAccounted'
      BY DEF TypeOK, QueueSound, Queued, BatchAccounted
    <2>2. QED
      BY <2>1 DEF EveryChildAccounted, Accounted
  <1>8. ASSUME NEW d \in Digest, RemoveMissing(d) PROVE FInv'
    <2> USE <1>8 DEF RemoveMissing, walk, cas
    <2>1. TypeOK' /\ QueueSound'
      BY DEF TypeOK, QueueSound, Queued
    <2>2. EveryChildAccounted'
      BY DEF EveryChildAccounted, Accounted
    <2>3. BatchAccounted'
      BY DEF BatchAccounted
    <2>4. QED
      BY <2>1, <2>2, <2>3
  <1>9. ASSUME BatchDone PROVE FInv'
    <2> USE <1>9 DEF BatchDone, EmptyQueue, walk, cas
    <2>1. TypeOK'
      BY DEF TypeOK
    <2>2. QueueSound'
      BY DEF QueueSound, TypeOK
    <2>3. EveryChildAccounted'
      BY DEF EveryChildAccounted, Accounted, BatchAccounted, TypeOK
    <2>4. BatchAccounted'
      BY DEF BatchAccounted
    <2>5. QED
      BY <2>1, <2>2, <2>3, <2>4
  <1>10. ASSUME NEW d \in Digest, Evict(d) \/ Upload(d) PROVE FInv'
    <2> USE <1>10 DEF Evict, Upload, walk
    <2>1. TypeOK' /\ QueueSound' /\ BatchAccounted'
      BY DEF TypeOK, QueueSound, Queued, BatchAccounted
    <2>2. QED
      BY <2>1 DEF EveryChildAccounted, Accounted
  <1>11. ASSUME NEW c \in Child, NEW visited \in BOOLEAN, StageChild(c, visited)
         PROVE  FInv'
    <2> USE <1>11 DEF StageChild, cas
    <2>1. TypeOK' /\ QueueSound' /\ BatchAccounted'
      BY DEF TypeOK, QueueSound, Queued, BatchAccounted
    <2>2. EveryChildAccounted'
      BY DEF EveryChildAccounted, Accounted
    <2>3. QED
      BY <2>1, <2>2
  <1>12. CASE UNCHANGED vars
    BY <1>12 DEF vars, walk, cas, TypeOK, QueueSound, Queued,
                 EveryChildAccounted, Accounted, BatchAccounted
  <1>13. QED
    BY <1>1, <1>2, <1>3, <1>4, <1>5, <1>6, <1>7, <1>8, <1>9, <1>10, <1>11,
       <1>12 DEF Next, Walk

(* When the filter succeeds, what was in the output path is stored.        *)
THEOREM FilterCorrect == Spec => [](TypeOK /\ KeptIsStored)
  <1>1. FInv => TypeOK /\ KeptIsStored
    BY FilterAssumption
       DEF FInv, KeptIsStored, QueueSound, EveryChildAccounted, Accounted,
           Queued, TypeOK
  <1>2. QED
    BY FInvInit, FInvNext, <1>1, PTL DEF Spec

(* Children are only removed for a reason.                                 *)
THEOREM RemovalJustified == Spec => RemovedForCause
  <1>1. FInv /\ [Next]_vars =>
          [\A c \in children \ children' :
             ContainingDigests[c] \intersect (absent' \union WrongFunction)
               # {}]_vars
    <2> SUFFICES ASSUME FInv, Next, NEW c \in children \ children'
                 PROVE  ContainingDigests[c] \intersect
                          (absent' \union WrongFunction) # {}
      OBVIOUS
    <2>1. CASE \E e \in Child : VisitOtherFunction(e) \/ VisitNotFound(e)
      BY <2>1 DEF VisitOtherFunction, VisitNotFound
    <2>2. CASE \E d \in Digest : RemoveMissing(d)
      BY <2>2 DEF RemoveMissing, FInv, QueueSound
    <2>3. CASE UNCHANGED children
      BY <2>3
    <2>4. CASE \E e \in Child, visited \in BOOLEAN : StageChild(e, visited)
      BY <2>4 DEF StageChild
    <2>5. QED
      BY <2>1, <2>2, <2>3, <2>4
         DEF Next, Walk, VisitChild, VisitFails, QueueDigest, QueuedAll,
             FindMissing, FindMissingFails, RemoveMissingFails, BatchDone,
             FilterDone, Evict, Upload
  <1>2. QED
    BY FInvInit, FInvNext, <1>1, PTL DEF Spec, RemovedForCause

(* Requests do not exceed the limit.                                       *)
THEOREM BatchesBounded == Spec => []BatchBounded
  <1>1. Init => BInv
    <2> SUFFICES ASSUME Init PROVE BInv
      OBVIOUS
    <2>1. Queued = {}
      BY DEF Init, Queued, EmptyQueue
    <2>2. IsFiniteSet(Queued) /\ Cardinality(Queued) = 0
      BY <2>1, FS_EmptySet
    <2>3. QED
      BY <2>2, FilterAssumption DEF BInv, BatchBounded
  <1>2. FInv /\ BInv /\ [Next]_vars => BInv'
    <2> SUFFICES ASSUME FInv, BInv, [Next]_vars PROVE BInv'
      OBVIOUS
    <2>1. ASSUME NEW d \in Digest, QueueDigest(d) PROVE BInv'
      <3>1. Queued' = Queued \union {d}
        BY <2>1 DEF QueueDigest, Queued, FInv, TypeOK
      <3>2. Cardinality(Queued) \in Nat
        BY FS_CardinalityType DEF BInv
      <3>3. /\ IsFiniteSet(Queued')
            /\ Cardinality(Queued') \in {Cardinality(Queued),
                                         Cardinality(Queued) + 1}
        BY <3>1, FS_AddElement DEF BInv
      <3>4. QED
        BY <2>1, <3>2, <3>3, FilterAssumption
           DEF QueueDigest, BInv, BatchBounded
    <2>2. CASE BatchDone
      <3>1. Queued' = {}
        BY <2>2 DEF BatchDone, EmptyQueue, Queued
      <3>2. IsFiniteSet(Queued') /\ Cardinality(Queued') = 0
        BY <3>1, FS_EmptySet
      <3>3. QED
        BY <3>2, FilterAssumption DEF BInv, BatchBounded
    <2>3. CASE UNCHANGED queue
      BY <2>3 DEF BInv, BatchBounded, Queued
    <2>4. QED
      BY <2>1, <2>2, <2>3
         DEF Next, Walk, vars, Visit, VisitChild, VisitOtherFunction,
             VisitNotFound, VisitFails, QueuedAll, FindMissing,
             FindMissingFails, RemoveMissing, RemoveMissingFails, FilterDone,
             Evict, Upload, StageChild
  <1>3. BInv => BatchBounded
    BY DEF BInv
  <1>4. QED
    BY FInvInit, FInvNext, <1>1, <1>2, <1>3, PTL DEF Spec
=============================================================================
