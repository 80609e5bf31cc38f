----------------------- MODULE FilterMissingChildren -----------------------
(***************************************************************************)
(* The part of StartBuild() that runs without d.lock: a walk over all      *)
(* files and trees in the output path that removes the ones that depend on *)
(* objects that are not in the Content Addressable Storage.                *)
(*                                                                         *)
(* Digests are gathered into batches, each of which is passed to           *)
(* FindMissing().  Meanwhile the storage drops and gains objects, and      *)
(* StageArtifacts() calls of an earlier build of the same output base,     *)
(* which nothing waits for, place children in the output path.             *)
(***************************************************************************)
EXTENDS Naturals, FiniteSets

CONSTANTS
    Child,              \* files, trees and links: nodes, not names
    Digest,
    ContainingDigests,  \* the digests on which a child depends
    WrongFunction,      \* digests with another instance name or function
    Limit,              \* RecommendedFindMissingDigestsCount
    NULL

ASSUME FilterAssumption ==
    /\ ContainingDigests \in [Child -> SUBSET Digest]
    /\ \A c \in Child : IsFiniteSet(ContainingDigests[c])
    /\ WrongFunction \subseteq Digest
    /\ Limit \in Nat \ {0}
    /\ NULL \notin Child

VARIABLES
    children,   \* the children of the output path
    stored,     \* the digests in the Content Addressable Storage
    pinned,     \* those that FindMissing() reported as present
    pc,
    todo,       \* children that FilterChildren() has yet to visit
    child,      \* the child whose digests are being queued, or NULL
    digests,    \* the digests of child that are not in the queue yet
    queue,      \* the children that wait for each digest
    missing,    \* the result of FindMissing(): digests to be processed
    late,       \* history: children that were placed during the call
    absent      \* history: digests that were found to be missing

walk == <<todo, child, digests>>
cas  == <<stored, pinned>>
vars == <<children, cas, pc, walk, queue, missing, late, absent>>

EmptyQueue == [d \in Digest |-> {}]
Queued == {d \in Digest : queue[d] # {}}

Init ==
    /\ children \in SUBSET Child
    /\ stored \in SUBSET Digest
    /\ pinned = {}
    /\ pc = "walk"
    /\ todo = children
    /\ child = NULL
    /\ digests = {}
    /\ queue = EmptyQueue
    /\ missing = {}
    /\ late = {}
    /\ absent = {}

-----------------------------------------------------------------------------
(* FilterChildren() visits a child.  Some have no digests, for one files   *)
(* in the file pool.                                                       *)
Visit(c) ==
    /\ pc = "walk" /\ child = NULL
    /\ c \in todo
    /\ todo' = todo \ {c}
    /\ UNCHANGED <<cas, missing, late>>

VisitChild(c) ==
    /\ Visit(c)
    /\ ContainingDigests[c] \intersect WrongFunction = {}
    /\ child' = c
    /\ digests' = ContainingDigests[c]
    /\ UNCHANGED <<children, pc, queue, absent>>

(* The digests use another instance name or digest function.               *)
VisitOtherFunction(c) ==
    /\ Visit(c)
    /\ ContainingDigests[c] \intersect WrongFunction # {}
    /\ children' = children \ {c}
    /\ UNCHANGED <<pc, child, digests, queue, absent>>

(* The digests cannot be computed, because the object that lists them is   *)
(* missing itself.                                                         *)
VisitNotFound(c) ==
    /\ Visit(c)
    /\ ContainingDigests[c] \ stored # {}
    /\ children' = children \ {c}
    /\ absent' = absent \union (ContainingDigests[c] \ stored)
    /\ UNCHANGED <<pc, child, digests, queue>>

(* The digests cannot be computed for another reason, or removing the      *)
(* child fails.                                                            *)
VisitFails(c) ==
    /\ Visit(c)
    /\ pc' = "failed"
    /\ UNCHANGED <<children, child, digests, queue, absent>>

(* Mutant: the queue may be one digest too long.                           *)
QueueDigestTooMany(d) ==
    /\ pc = "walk" /\ d \in digests
    /\ Cardinality(Queued) <= Limit
    /\ queue' = [queue EXCEPT ![d] = @ \union {child}]
    /\ digests' = digests \ {d}
    /\ UNCHANGED <<children, cas, pc, todo, child, missing, late, absent>>

(* A digest is added to the queue, if it is not full.                      *)
QueueDigest(d) ==
    /\ pc = "walk" /\ d \in digests
    /\ Cardinality(Queued) < Limit
    /\ queue' = [queue EXCEPT ![d] = @ \union {child}]
    /\ digests' = digests \ {d}
    /\ UNCHANGED <<children, cas, pc, todo, child, missing, late, absent>>

QueuedAll ==
    /\ pc = "walk" /\ child # NULL /\ digests = {}
    /\ child' = NULL
    /\ UNCHANGED <<children, cas, pc, todo, digests, queue, missing, late,
                   absent>>

-----------------------------------------------------------------------------
(* findMissingAndRemove() is called when the queue is full and when all    *)
(* children have been visited.  The storage keeps what FindMissing()       *)
(* reports as present for the duration of the build.                       *)
BatchReady ==
    \/ digests # {} /\ Cardinality(Queued) >= Limit
    \/ child = NULL /\ todo = {} /\ Queued # {}

FindMissing ==
    /\ pc = "walk" /\ BatchReady
    /\ pinned' = pinned \union (Queued \intersect stored)
    /\ missing' = Queued \ stored
    /\ absent' = absent \union (Queued \ stored)
    /\ pc' = "remove"
    /\ UNCHANGED <<children, stored, walk, queue, late>>

FindMissingFails ==
    /\ pc = "walk" /\ BatchReady
    /\ pc' = "failed"
    /\ UNCHANGED <<children, cas, walk, queue, missing, late, absent>>

(* Mutant: all children in the batch are removed.                          *)
RemoveMissingAll(d) ==
    /\ pc = "remove" /\ d \in missing
    /\ children' = children \ UNION {queue[e] : e \in Digest}
    /\ missing' = missing \ {d}
    /\ UNCHANGED <<cas, pc, walk, queue, late, absent>>

(* The children that depend on a missing digest are removed.  Removing a   *)
(* child that is gone already has no effect.                               *)
RemoveMissing(d) ==
    /\ pc = "remove" /\ d \in missing
    /\ children' = children \ queue[d]
    /\ missing' = missing \ {d}
    /\ UNCHANGED <<cas, pc, walk, queue, late, absent>>

RemoveMissingFails ==
    /\ pc = "remove" /\ missing # {}
    /\ pc' = "failed"
    /\ UNCHANGED <<children, cas, walk, queue, missing, late, absent>>

(* Mutant: the queue is not emptied.                                       *)
BatchDoneKeepsQueue ==
    /\ pc = "remove" /\ missing = {}
    /\ pc' = "walk"
    /\ UNCHANGED <<children, cas, walk, queue, missing, late, absent>>

BatchDone ==
    /\ pc = "remove" /\ missing = {}
    /\ queue' = EmptyQueue
    /\ pc' = "walk"
    /\ UNCHANGED <<children, cas, walk, missing, late, absent>>

(* Mutant: the last batch is not processed.                                *)
FilterDoneEarly ==
    /\ pc = "walk" /\ todo = {} /\ child = NULL
    /\ pc' = "done"
    /\ UNCHANGED <<children, cas, walk, queue, missing, late, absent>>

FilterDone ==
    /\ pc = "walk" /\ todo = {} /\ child = NULL /\ Queued = {}
    /\ pc' = "done"
    /\ UNCHANGED <<children, cas, walk, queue, missing, late, absent>>

-----------------------------------------------------------------------------
(* The storage drops an object that is not in use, or receives one.        *)
Evict(d) ==
    /\ d \in stored \ pinned
    /\ stored' = stored \ {d}
    /\ UNCHANGED <<children, pinned, pc, walk, queue, missing, late, absent>>

Upload(d) ==
    /\ stored' = stored \union {d}
    /\ UNCHANGED <<children, pinned, pc, walk, queue, missing, late, absent>>

(* A StageArtifacts() call of an earlier build places a child.  The walk   *)
(* visits it if it has not listed the directory of the child yet.          *)
StageChild(c, visited) ==
    /\ pc \in {"walk", "remove"}
    /\ c \notin children \union late
    /\ children' = children \union {c}
    /\ late' = late \union {c}
    /\ todo' = IF visited THEN todo \union {c} ELSE todo
    /\ UNCHANGED <<cas, pc, child, digests, queue, missing, absent>>

Walk ==
    \/ \E c \in Child :
          \/ VisitChild(c)
          \/ VisitOtherFunction(c)
          \/ VisitNotFound(c)
          \/ VisitFails(c)
    \/ \E d \in Digest : QueueDigest(d) \/ RemoveMissing(d)
    \/ QueuedAll
    \/ FindMissing
    \/ FindMissingFails
    \/ RemoveMissingFails
    \/ BatchDone
    \/ FilterDone

Next ==
    \/ Walk
    \/ \E d \in Digest : Evict(d) \/ Upload(d)
    \/ \E c \in Child, visited \in BOOLEAN : StageChild(c, visited)

Spec == Init /\ [][Next]_vars

(* The walk is a loop, and FindMissing() is an RPC that returns.           *)
FairSpec == Spec /\ WF_vars(Walk)

-----------------------------------------------------------------------------
(* Type invariant.                                                         *)
TypeOK ==
    /\ children \subseteq Child
    /\ stored \subseteq Digest
    /\ pinned \subseteq stored
    /\ pc \in {"walk", "remove", "done", "failed"}
    /\ todo \subseteq Child
    /\ child \in Child \union {NULL}
    /\ digests \subseteq Digest
    /\ queue \in [Digest -> SUBSET Child]
    /\ missing \subseteq Digest
    /\ late \subseteq Child
    /\ absent \subseteq Digest

(* Once StartBuild() succeeds, everything that was in the output path when *)
(* it was called and still is there is backed by the storage, and remains  *)
(* so during the build: no child falls between two batches, and none is    *)
(* forgotten in the last one.                                              *)
KeptIsStored ==
    pc = "done" =>
        \A c \in children \ late : ContainingDigests[c] \subseteq pinned

(* No FindMissing() request exceeds the recommended number of digests.     *)
BatchBounded == Cardinality(Queued) <= Limit

(* A child is only removed if one of its digests was found to be missing   *)
(* during the call, or does not belong to the build.                       *)
RemovedForCause ==
    [][\A c \in children \ children' :
          ContainingDigests[c] \intersect (absent' \union WrongFunction) # {}]_vars

(* The walk comes to an end, no matter how many children depend on how     *)
(* many digests, and what happens to them meanwhile.                       *)
FilterTerminates == <>(pc \in {"done", "failed"})

(* The comment in StartBuild(): the files contained in the output path do  *)
(* not disappear during the build.                                         *)
NothingDisappears ==
    pc = "done" => \A c \in children : ContainingDigests[c] \subseteq stored
=============================================================================
