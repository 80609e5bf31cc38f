----------------------------- MODULE StateFile -----------------------------
(***************************************************************************)
(* The format of state files: Directory messages that are appended to the  *)
(* file and refer to their children by offset and size, and a header that  *)
(* refers to the root directory.                                           *)
(*                                                                         *)
(* A tree of directories is saved and restored or, if the file is damaged, *)
(* a file with arbitrary contents is restored.  Offsets are signed         *)
(* integers of limited width.                                              *)
(***************************************************************************)
EXTENDS Integers, Sequences

CONSTANTS
    Node,             \* directories in the tree
    Root,             \* the root directory
    Children,         \* the children of every directory
    Leafless,         \* directories without files and symbolic links
    HeaderSize,       \* headerSizeBytes
    Maximum,          \* maximumStateFileSizeBytes
    Half,             \* offsets are in -Half .. Half - 1, as int64
    Size,             \* sizes of messages that are considered, as int32
    DamagedChildren,  \* sets of children that a damaged file may list
    NULL

Offset == -Half .. Half - 1

Region == [offset : Offset, size : Size]

ASSUME StateFileAssumption ==
    /\ Root \in Node
    /\ Children \in [Node -> SUBSET Node]
    /\ Leafless \subseteq Node
    /\ Half \in Nat
    /\ HeaderSize \in Offset /\ HeaderSize > 0
    /\ Maximum \in Offset
    /\ Size \subseteq Offset
    /\ DamagedChildren \subseteq SUBSET Node

(* The directories are those of one tree, the root of which is Root.       *)
ASSUME TreeAssumption ==
    /\ \A nodes \in SUBSET Node :
          Root \in nodes /\ (\A n \in nodes : Children[n] \subseteq nodes)
            => nodes = Node
    /\ NULL \notin Node \union Region

VARIABLES
    damaged,   \* whether the file is damaged
    status,    \* "saving", "restoring", and the outcomes
    offset,    \* fileWriter.offsetBytes
    region,    \* where every directory was written, NULL if it is empty
    written,   \* the directories that were written
    header,    \* the region of the root directory, in the header
    stack,     \* activations of restoreDirectoryRecursive()
    restored   \* the directories that were restored

writer == <<damaged, offset, region, written, header>>
vars   == <<status, writer, stack, restored>>

Init ==
    /\ damaged \in BOOLEAN
    /\ status = IF damaged THEN "saved" ELSE "saving"
    /\ offset = HeaderSize
    /\ region = [n \in Node |-> NULL]
    /\ written = {}
    /\ header = NULL
    /\ stack = <<>>
    /\ restored = {}

(* Addition of int64 values.                                               *)
Wrap(x) == ((x + Half) % (2 * Half)) - Half

-----------------------------------------------------------------------------
(* writeMessage(): the message is placed at the end of the file.           *)
WriteMessage(n, size) ==
    /\ size > 0
    /\ offset + size < Half
    /\ region' = [region EXCEPT ![n] = [offset |-> offset, size |-> size]]
    /\ offset' = offset + size

(* saveDirectoryRecursive() writes a directory after its children.  Empty  *)
(* messages are not written.                                               *)
SaveDirectory(n, size) ==
    /\ status = "saving"
    /\ n \in Node \ (written \union {Root})
    /\ Children[n] \subseteq written
    /\ IF Children[n] = {} /\ n \in Leafless
         THEN UNCHANGED <<region, offset>>
         ELSE WriteMessage(n, size)
    /\ written' = written \union {n}
    /\ UNCHANGED <<damaged, status, header, stack, restored>>

(* Finalize(): the root directory, which is never empty because it has a   *)
(* creation time, and then the header.                                     *)
Finalize(size) ==
    /\ status = "saving"
    /\ Children[Root] \subseteq written
    /\ WriteMessage(Root, size)
    /\ written' = written \union {Root}
    /\ header' = region'[Root]
    /\ status' = "saved"
    /\ UNCHANGED <<damaged, stack, restored>>

-----------------------------------------------------------------------------
(* Mutants: the end is taken to be part of the message, and children may   *)
(* refer to all of the file.                                               *)
PermittedInclusive(r, limit) ==
    /\ r.offset >= HeaderSize
    /\ r.offset <= limit
    /\ r.size > 0
    /\ Wrap(r.offset + r.size) < limit

PermittedAnywhere(r, limit) ==
    /\ r.offset >= HeaderSize
    /\ r.offset <= Maximum
    /\ r.size > 0
    /\ Wrap(r.offset + r.size) <= Maximum

(* readMessage(): whether the region lies in the part of the file that may *)
(* be referred to.                                                         *)
Permitted(r, limit) ==
    /\ r.offset >= HeaderSize
    /\ r.offset <= limit
    /\ r.size > 0
    /\ Wrap(r.offset + r.size) <= limit

(* Reading only succeeds if the file has that much data, and no file is    *)
(* larger than the largest offset.  RestoreFails is the other outcome.     *)
Readable(r) == r.offset + r.size < Half

(* The regions that the reader may find for directory n, and the           *)
(* directories that it may find in it.                                     *)
StoredRegion(n) == IF damaged THEN Region \union {NULL} ELSE {region[n]}
StoredChildren(n) == IF damaged THEN DamagedChildren ELSE {Children[n]}

Fail(outcome) ==
    /\ status' = outcome
    /\ UNCHANGED <<writer, stack, restored>>

(* The directory is created, and its children are up next.  They may only  *)
(* refer to what precedes the message of the directory.                    *)
Enter(n, below, limit, todo) ==
    /\ status' = "restoring"
    /\ stack' = Append(below, [limit |-> limit, todo |-> todo])
    /\ restored' = restored \union {n}
    /\ UNCHANGED writer

(* NewFileReader(): read the header and the root directory.                *)
OpenFile(r, todo) ==
    /\ status = "saved"
    /\ IF Permitted(r, Maximum)
         THEN Readable(r) /\ Enter(Root, <<>>, r.offset, todo)
         ELSE Fail("rejected")

Top == stack[Len(stack)]

(* Mutant: the loop over the children does not advance.                    *)
VisitedStuck(n) == [stack EXCEPT ![Len(stack)].todo = @ \union {n}]

(* The activation of the top of the stack, after visiting child n.         *)
Visited(n) == [stack EXCEPT ![Len(stack)].todo = @ \ {n}]

(* ReadDirectory() and the recursive call.                                 *)
RestoreChild(n, r, todo) ==
    /\ status = "restoring"
    /\ stack # <<>>
    /\ n \in Top.todo
    /\ IF r = NULL
         THEN Enter(n, Visited(n), 0, {})
         ELSE IF Permitted(r, Top.limit)
                THEN Readable(r) /\ Enter(n, Visited(n), r.offset, todo)
                ELSE Fail("rejected")

(* Files and symbolic links are created, and the activation returns.       *)
RestoreReturn ==
    /\ status = "restoring"
    /\ stack # <<>>
    /\ Top.todo = {}
    /\ stack' = SubSeq(stack, 1, Len(stack) - 1)
    /\ status' = IF Len(stack) = 1 THEN "restored" ELSE "restoring"
    /\ UNCHANGED <<writer, restored>>

(* Reading the file fails, parsing the message fails, or an entry of the   *)
(* message is invalid.                                                     *)
RestoreFails ==
    /\ status \in {"saved", "restoring"}
    /\ Fail("failed")

RestoreNext ==
    \/ \E r \in StoredRegion(Root) \ {NULL}, todo \in StoredChildren(Root) :
          OpenFile(r, todo)
    \/ \E n \in Node :
          \E r \in StoredRegion(n), todo \in StoredChildren(n) :
              RestoreChild(n, r, todo)
    \/ RestoreReturn
    \/ RestoreFails

Next ==
    \/ \E n \in Node, size \in Size : SaveDirectory(n, size)
    \/ \E size \in Size : Finalize(size)
    \/ RestoreNext

Spec == Init /\ [][Next]_vars

FairSpec == Spec /\ WF_vars(RestoreNext)

-----------------------------------------------------------------------------
(* The bounds checks rule out cyclic references, whatever the file holds   *)
(* and even if the end of a region overflows: every level of recursion is  *)
(* confined to a smaller part of the file.                                 *)
NoCycles ==
    \A i, j \in 1 .. Len(stack) : i < j => stack[j].limit < stack[i].limit

(* The reader accepts every file the writer creates, unless it exceeds the *)
(* maximum size, and restores all of it.                                   *)
OwnFileAccepted ==
    ~damaged /\ offset <= Maximum =>
        /\ status # "rejected"
        /\ status = "restored" => restored = written

(* Restoring comes to an end for every file.                               *)
RestoreTerminates == status = "saved" ~> status \notin {"saved", "restoring"}
=============================================================================
