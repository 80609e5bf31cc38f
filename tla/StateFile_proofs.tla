-------------------------- MODULE StateFile_proofs --------------------------
(***************************************************************************)
(* Restoring a state file never follows cyclic references, for any file,   *)
(* any integer width and any maximum size.  A file that was saved from a   *)
(* tree of directories is accepted and restored completely, if it does not *)
(* exceed the maximum size.                                                *)
(***************************************************************************)
EXTENDS StateFile, TLAPS

Frame == [limit : Offset, todo : SUBSET Node]

(* Only a directory that was read from the file has children, and its      *)
(* offset is past the header.                                              *)
FramesOK ==
    /\ stack \in Seq(Frame)
    /\ \A i \in 1 .. Len(stack) :
          /\ stack[i].limit >= 0
          /\ stack[i].todo # {} => stack[i].limit > 0

WriterOK ==
    /\ region \in [Node -> Region \union {NULL}]
    /\ header \in Region \union {NULL}
    /\ offset \in Offset /\ offset > 0

SInv == FramesOK /\ NoCycles

LEMMA OffsetInt == 0 \in Offset /\ \A x \in Offset : x \in Int
  BY StateFileAssumption DEF Offset

(* Entering a directory below the limit of its parent keeps the limits     *)
(* decreasing.                                                             *)
LEMMA EnterDecreases ==
    ASSUME SInv, stack # <<>>,
           NEW n \in Node, NEW limit \in Offset, NEW todo \in SUBSET Node,
           0 <= limit, limit < Top.limit, todo # {} => limit > 0,
           Enter(n, Visited(n), limit, todo)
    PROVE  SInv'
  <1> USE OffsetInt
  <1> DEFINE k == Len(stack)
             f == [limit |-> limit, todo |-> todo]
  <1>1. k \in Nat /\ k >= 1 /\ \A i \in 1 .. k : stack[i] \in Frame
    BY DEF SInv, FramesOK
  <1>2. Visited(n) \in Seq(Frame) /\ Len(Visited(n)) = k
    <2>1. [stack[k] EXCEPT !.todo = @ \ {n}] \in Frame
      BY <1>1 DEF Frame
    <2>2. Visited(n) = [stack EXCEPT ![k] = [stack[k] EXCEPT !.todo = @ \ {n}]]
      BY <1>1 DEF Visited
    <2>3. QED
      BY <1>1, <2>1, <2>2 DEF SInv, FramesOK
  <1>3. \A i \in 1 .. k : /\ Visited(n)[i].limit = stack[i].limit
                          /\ Visited(n)[i].todo \subseteq stack[i].todo
    BY <1>1 DEF Visited, Frame, SInv, FramesOK
  <1>4. stack' = Append(Visited(n), f) /\ f \in Frame
    BY DEF Enter, Frame
  <1>5. stack' \in Seq(Frame) /\ Len(stack') = k + 1
    BY <1>1, <1>2, <1>4
  <1>6. /\ stack'[k + 1] = f
        /\ \A i \in 1 .. k : stack'[i] = Visited(n)[i]
    BY <1>1, <1>2, <1>4
  <1>7. FramesOK'
    BY <1>1, <1>3, <1>5, <1>6 DEF SInv, FramesOK
  <1>8. \A i \in 1 .. k : limit < stack[i].limit
    <2>1. \A i \in 1 .. k : stack[i].limit \in Int
      BY <1>1 DEF Frame
    <2>2. \A i \in 1 .. k : i = k \/ stack[k].limit < stack[i].limit
      BY <1>1 DEF SInv, NoCycles
    <2>3. limit \in Int /\ k \in 1 .. k /\ limit < stack[k].limit
      BY <1>1 DEF Top
    <2>4. QED
      BY <2>1, <2>2, <2>3
  <1>9. NoCycles'
    BY <1>1, <1>3, <1>5, <1>6, <1>8 DEF SInv, NoCycles
  <1>10. QED
    BY <1>7, <1>9 DEF SInv

(* A sum that fits does not overflow.                                      *)
LEMMA WrapIdentity ==
    ASSUME NEW x \in Int, 0 <= x, x < Half
    PROVE  Wrap(x) = x
  <1>1. x + Half \in 0 .. 2 * Half - 1
    BY StateFileAssumption
  <1>2. ASSUME NEW a \in Int, NEW b \in Int, a \in 0 .. b - 1
        PROVE  a % b = a
    BY <1>2
  <1>3. (x + Half) % (2 * Half) = x + Half
    BY <1>1, <1>2, StateFileAssumption
  <1>4. QED
    BY <1>3, StateFileAssumption DEF Wrap

(* A region that is permitted and can be read ends before the limit: the   *)
(* sum did not overflow.                                                   *)
LEMMA PermittedBelow ==
    ASSUME NEW r \in Region, NEW limit \in Offset,
           Permitted(r, limit), Readable(r)
    PROVE  r.offset \in Offset /\ 0 < r.offset /\ r.offset < limit
  <1>0. r.offset \in Offset /\ r.size \in Offset
    BY StateFileAssumption DEF Region
  <1>1. r.offset \in Int /\ r.size \in Int /\ r.size > 0 /\ r.offset > 0
    <2>1. r.offset \in Int /\ r.size \in Int /\ HeaderSize \in Int
            /\ HeaderSize > 0
      BY <1>0, OffsetInt, StateFileAssumption
    <2>2. QED
      BY <2>1 DEF Permitted
  <1>2. r.offset + r.size >= 0 /\ r.offset + r.size < Half
    BY <1>1 DEF Readable
  <1>3. Wrap(r.offset + r.size) = r.offset + r.size
    BY <1>1, <1>2, WrapIdentity
  <1>4. QED
    BY <1>0, <1>1, <1>3, OffsetInt DEF Permitted

LEMMA WriterNext == WriterOK /\ [Next]_vars => WriterOK'
  <1> SUFFICES ASSUME WriterOK, [Next]_vars PROVE WriterOK'
    OBVIOUS
  <1>1. ASSUME NEW n \in Node, NEW size \in Size, WriteMessage(n, size)
        PROVE  /\ region' \in [Node -> Region \union {NULL}]
               /\ region'[n] \in Region
               /\ offset' \in Offset /\ offset' > 0
    <2>1. size \in Int /\ offset \in Int /\ size > 0 /\ offset > 0
      BY <1>1, OffsetInt, StateFileAssumption DEF WriteMessage, WriterOK
    <2>2. offset' \in Offset /\ offset' > 0
      BY <1>1, <2>1, StateFileAssumption DEF WriteMessage, Offset
    <2>3. [offset |-> offset, size |-> size] \in Region
      BY DEF Region, WriterOK
    <2>4. QED
      BY <1>1, <2>2, <2>3 DEF WriteMessage, WriterOK
  <1>2. ASSUME NEW n \in Node, NEW size \in Size, SaveDirectory(n, size)
        PROVE  WriterOK'
    BY <1>1, <1>2 DEF SaveDirectory, WriterOK
  <1>3. ASSUME NEW size \in Size, Finalize(size) PROVE WriterOK'
    BY <1>1, <1>3, StateFileAssumption DEF Finalize, WriterOK
  <1>4. CASE RestoreNext
    <2>1. UNCHANGED writer
      BY <1>4 DEF RestoreNext, OpenFile, RestoreChild, RestoreReturn,
                  RestoreFails, Enter, Fail
    <2>2. QED
      BY <2>1 DEF writer, WriterOK
  <1>5. CASE UNCHANGED vars
    BY <1>5 DEF vars, writer, WriterOK
  <1>6. QED
    BY <1>2, <1>3, <1>4, <1>5 DEF Next

LEMMA SInvNext == WriterOK /\ SInv /\ [Next]_vars => SInv'
  <1> SUFFICES ASSUME WriterOK, SInv, [Next]_vars PROVE SInv'
    OBVIOUS
  <1> USE StateFileAssumption
  <1>1. ASSUME UNCHANGED stack PROVE SInv'
    BY <1>1 DEF SInv, FramesOK, NoCycles
  <1>a. ASSUME NEW n \in Node
        PROVE  /\ \A r \in StoredRegion(n) : r # NULL => r \in Region
               /\ \A todo \in StoredChildren(n) : todo \in SUBSET Node
    BY DEF StoredRegion, StoredChildren, WriterOK
  <1>2. ASSUME NEW r \in StoredRegion(Root) \ {NULL},
               NEW todo \in StoredChildren(Root), OpenFile(r, todo)
        PROVE  SInv'
    <2>1. CASE ~Permitted(r, Maximum)
      BY <1>1, <1>2, <2>1 DEF OpenFile, Fail
    <2>2. CASE Permitted(r, Maximum)
      <3>1. Readable(r) /\ stack' = Append(<<>>, [limit |-> r.offset,
                                                  todo |-> todo])
        BY <1>2, <2>2 DEF OpenFile, Enter
      <3>2. r \in Region /\ todo \in SUBSET Node
        BY <1>a
      <3>3. r.offset \in Offset /\ r.offset > 0
        BY <2>2, <3>1, <3>2, PermittedBelow
      <3>4. [limit |-> r.offset, todo |-> todo] \in Frame
        BY <3>2, <3>3 DEF Frame
      <3>5. stack' = <<[limit |-> r.offset, todo |-> todo]>>
        BY <3>1
      <3>6. stack' \in Seq(Frame) /\ Len(stack') = 1
            /\ stack'[1].limit = r.offset
        BY <3>4, <3>5
      <3>7. r.offset \in Int /\ r.offset > 0
        BY <3>3, OffsetInt
      <3>8. FramesOK'
        BY <3>6, <3>7 DEF FramesOK
      <3>9. NoCycles'
        BY <3>6 DEF NoCycles
      <3>10. QED
        BY <3>8, <3>9 DEF SInv
    <2>3. QED
      BY <2>1, <2>2
  <1>3. ASSUME NEW n \in Node, NEW r \in StoredRegion(n),
               NEW todo \in StoredChildren(n), RestoreChild(n, r, todo)
        PROVE  SInv'
    <2>1. stack # <<>> /\ n \in Top.todo /\ Top.limit \in Offset /\ Top.limit > 0
      <3>1. stack # <<>> /\ n \in Top.todo
        BY <1>3 DEF RestoreChild
      <3>2. Len(stack) \in 1 .. Len(stack) /\ Top \in Frame
        BY <3>1 DEF SInv, FramesOK, Top
      <3>3. QED
        BY <3>1, <3>2 DEF SInv, FramesOK, Top, Frame
    <2>2. CASE r = NULL
      <3>1. Enter(n, Visited(n), 0, {})
        BY <1>3, <2>2 DEF RestoreChild
      <3>2. QED
        BY <2>1, <3>1, OffsetInt, EnterDecreases
    <2>3. CASE r # NULL /\ ~Permitted(r, Top.limit)
      BY <1>1, <1>3, <2>3 DEF RestoreChild, Fail
    <2>4. CASE r # NULL /\ Permitted(r, Top.limit)
      <3>1. Readable(r) /\ Enter(n, Visited(n), r.offset, todo)
        BY <1>3, <2>4 DEF RestoreChild
      <3>2. r \in Region /\ todo \in SUBSET Node
        BY <1>a, <2>4
      <3>3. r.offset \in Offset /\ 0 < r.offset /\ r.offset < Top.limit
        BY <2>1, <2>4, <3>1, <3>2, PermittedBelow
      <3>4. 0 <= r.offset
        BY <3>3, OffsetInt
      <3>5. QED
        BY <2>1, <3>1, <3>2, <3>3, <3>4, EnterDecreases
    <2>5. QED
      BY <2>2, <2>3, <2>4
  <1>4. ASSUME RestoreReturn PROVE SInv'
    <2> DEFINE k == Len(stack)
    <2>1. k \in Nat /\ k >= 1 /\ stack' = SubSeq(stack, 1, k - 1)
      BY <1>4 DEF RestoreReturn, SInv, FramesOK
    <2> HIDE DEF k
    <2>2. /\ stack' \in Seq(Frame) /\ Len(stack') = k - 1
          /\ \A i \in 1 .. k - 1 : stack'[i] = stack[i]
      <3>1. stack \in Seq(Frame) /\ k = Len(stack)
        BY DEF SInv, FramesOK, k
      <3>2. QED
        BY <2>1, <3>1
    <2> USE DEF k
    <2>3. FramesOK'
      BY <2>1, <2>2 DEF SInv, FramesOK
    <2>4. NoCycles'
      BY <2>1, <2>2 DEF SInv, NoCycles
    <2>5. QED
      BY <2>3, <2>4 DEF SInv
  <1>5. ASSUME NEW n \in Node, NEW size \in Size, SaveDirectory(n, size)
        PROVE  SInv'
    BY <1>1, <1>5 DEF SaveDirectory
  <1>6. ASSUME NEW size \in Size, Finalize(size) PROVE SInv'
    BY <1>1, <1>6 DEF Finalize
  <1>7. CASE RestoreFails \/ UNCHANGED vars
    BY <1>1, <1>7 DEF RestoreFails, Fail, vars
  <1>8. QED
    BY <1>2, <1>3, <1>4, <1>5, <1>6, <1>7, Zenon DEF Next, RestoreNext

(* The recursion is confined to smaller and smaller parts of the file.     *)
THEOREM RecursionBounded == Spec => []NoCycles
  <1>1. Init => WriterOK /\ SInv
    BY StateFileAssumption
       DEF Init, WriterOK, SInv, FramesOK, NoCycles, Region
  <1>2. SInv => NoCycles
    BY DEF SInv
  <1>3. QED
    BY <1>1, <1>2, WriterNext, SInvNext, PTL DEF Spec

-----------------------------------------------------------------------------
(* The writer places directories after their children, and skips those     *)
(* that are empty.                                                         *)
EndOf(n) == region[n].offset + region[n].size

WrittenOK ==
    /\ written \subseteq Node
    /\ offset >= HeaderSize
    /\ \A n \in Node \ written : region[n] = NULL
    /\ \A n \in written :
          /\ Children[n] \subseteq written
          /\ region[n] = NULL => Children[n] = {} /\ n # Root
          /\ region[n] # NULL => /\ region[n].offset >= HeaderSize
                                 /\ region[n].size > 0
                                 /\ EndOf(n) <= offset
          /\ \A c \in Children[n] :
                region[c] # NULL => EndOf(c) <= region[n].offset

(* An activation visits children of a directory that was written, and      *)
(* has the offset of the directory as its limit.                           *)
FrameOf(f, n) ==
    /\ f.todo \subseteq Children[n]
    /\ f.todo # {} => f.limit = region[n].offset

RestoredOK ==
    /\ restored \subseteq written
    /\ status \in {"restoring", "restored"} => Root \in restored
    /\ \A i \in 1 .. Len(stack) : \E n \in written : FrameOf(stack[i], n)
    /\ \A n \in restored : \A c \in Children[n] :
          c \in restored \/ \E i \in 1 .. Len(stack) : c \in stack[i].todo

StatusOK ==
    /\ status \in {"saving", "saved"} => stack = <<>> /\ restored = {}
    /\ status = "saving" => Root \notin written
    /\ status # "saving" => Root \in written
    /\ status = "restored" => stack = <<>>
    /\ offset <= Maximum => status # "rejected"

OwnFileInv == ~damaged => WrittenOK /\ RestoredOK /\ StatusOK

(* A region of a directory that was written is permitted if it ends before *)
(* the limit.                                                              *)
LEMMA OwnRegionPermitted ==
    ASSUME WriterOK, WrittenOK, NEW n \in written, region[n] # NULL,
           NEW limit \in Offset, EndOf(n) <= limit
    PROVE  Permitted(region[n], limit)
  <1>1. n \in Node /\ region[n] \in Region
    BY DEF WrittenOK, WriterOK
  <1>2. region[n].offset \in Int /\ region[n].size \in Int
    BY <1>1, StateFileAssumption, OffsetInt DEF Region
  <1>3. /\ HeaderSize \in Int /\ HeaderSize > 0
        /\ offset \in Int /\ offset < Half /\ limit \in Int
    BY StateFileAssumption, OffsetInt DEF WriterOK, Offset
  <1>4. /\ region[n].offset >= HeaderSize
        /\ region[n].size > 0
        /\ EndOf(n) <= offset
    BY DEF WrittenOK
  <1>5. EndOf(n) \in 0 .. Half - 1
    BY <1>2, <1>3, <1>4, StateFileAssumption DEF EndOf
  <1>6. Wrap(EndOf(n)) = EndOf(n)
    <2>1. EndOf(n) \in Int /\ 0 <= EndOf(n) /\ EndOf(n) < Half
      BY <1>5, StateFileAssumption
    <2>2. QED
      BY <2>1, WrapIdentity
  <1>7. QED
    BY <1>2, <1>3, <1>4, <1>6 DEF Permitted, EndOf

(* Writing a directory after its children keeps the order of the file.     *)
LEMMA WriteKeepsOrder ==
    ASSUME WriterOK, WrittenOK, NEW n \in Node \ written, NEW size \in Size,
           Children[n] \subseteq written,
           WriteMessage(n, size), written' = written \union {n}
    PROVE  WrittenOK' /\ region'[n] # NULL
  <1> DEFINE r == [offset |-> offset, size |-> size]
  <1>1. /\ size \in Int /\ size > 0
        /\ offset \in Int
        /\ HeaderSize \in Int
        /\ offset' = offset + size
    BY StateFileAssumption, OffsetInt DEF WriterOK, WriteMessage
  <1>2. /\ region'[n] = r
        /\ \A m \in Node : m # n => region'[m] = region[m]
    BY DEF WriterOK, WriteMessage
  <1>3. r \in Region /\ r # NULL
    BY TreeAssumption DEF WriterOK, Region
  <1>4. /\ EndOf(n)' = offset'
        /\ \A m \in Node : m # n => EndOf(m)' = EndOf(m)
    BY <1>1, <1>2 DEF EndOf
  <1>5. /\ written \subseteq Node /\ n \in Node /\ n \notin written
        /\ \A m \in written : region[m] # NULL =>
              EndOf(m) <= offset /\ EndOf(m) \in Int
    <2>1. ASSUME NEW m \in written, region[m] # NULL
          PROVE  EndOf(m) \in Int
      <3>1. region[m] \in Region
        BY <2>1 DEF WriterOK, WrittenOK
      <3>2. QED
        BY <3>1, StateFileAssumption, OffsetInt DEF Region, EndOf
    <2>2. QED
      BY <2>1 DEF WrittenOK
  <1>6. offset >= HeaderSize
    BY DEF WrittenOK
  <1> HIDE DEF r
  <1>7. \A m \in Node \ written' : region'[m] = NULL
    BY <1>2 DEF WrittenOK
  <1>8. \A m \in written : n \notin Children[m] /\ Children[m] \subseteq written'
    BY <1>5 DEF WrittenOK
  <1>9. ASSUME NEW m \in written
        PROVE  /\ region'[m] = NULL => Children[m] = {} /\ m # Root
               /\ region'[m] # NULL => /\ region'[m].offset >= HeaderSize
                                       /\ region'[m].size > 0
                                       /\ EndOf(m)' <= offset'
               /\ \A c \in Children[m] :
                     region'[c] # NULL => EndOf(c)' <= region'[m].offset
    <2>1. m # n /\ m \in Node /\ region'[m] = region[m]
      BY <1>2, <1>5
    <2>2. \A c \in Children[m] : /\ c \in Node /\ c # n
                                 /\ region'[c] = region[c]
      BY <1>2, <1>5, <1>8 DEF WrittenOK
    <2>3. region[m] # NULL => EndOf(m)' <= offset'
      BY <1>1, <1>4, <1>5, <2>1
    <2>4. \A c \in Children[m] :
             region'[c] # NULL => EndOf(c)' <= region'[m].offset
      BY <1>4, <2>1, <2>2 DEF WrittenOK
    <2>5. QED
      BY <2>1, <2>3, <2>4 DEF WrittenOK
  <1>10. /\ region'[n].offset >= HeaderSize
         /\ region'[n].size > 0
         /\ EndOf(n)' <= offset'
         /\ \A c \in Children[n] :
               region'[c] # NULL => EndOf(c)' <= region'[n].offset
    <2>1. r.offset = offset /\ r.size = size
      BY DEF r
    <2>2. \A c \in Children[n] : /\ c \in written /\ c \in Node /\ c # n
                                 /\ region'[c] = region[c]
      BY <1>2, <1>5
    <2>3. QED
      BY <1>1, <1>2, <1>4, <1>5, <1>6, <2>1, <2>2
  <1>11. written' \subseteq Node /\ offset' >= HeaderSize
    BY <1>1, <1>5, <1>6
  <1>12. Children[n] \subseteq written'
    OBVIOUS
  <1>13. region'[n] # NULL
    BY <1>2, <1>3
  <1>14. \A m \in written' : m \in written \/ m = n
    OBVIOUS
  <1>15. QED
    BY <1>7, <1>8, <1>9, <1>10, <1>11, <1>12, <1>13, <1>14 DEF WrittenOK

(* What entering a directory and visiting a child do to the stack.         *)
Entered(n, limit, todo) ==
    /\ Len(stack) \in Nat /\ Len(stack) >= 1
    /\ Len(stack') = Len(stack) + 1
    /\ stack'[Len(stack) + 1] = [limit |-> limit, todo |-> todo]
    /\ \A i \in 1 .. Len(stack) :
          /\ stack'[i].limit = stack[i].limit
          /\ stack'[i].todo = IF i = Len(stack) THEN stack[i].todo \ {n}
                                                ELSE stack[i].todo

LEMMA EnterStack ==
    ASSUME FramesOK, stack # <<>>, NEW n, NEW limit, NEW todo,
           Enter(n, Visited(n), limit, todo)
    PROVE  Entered(n, limit, todo)
  <1> DEFINE k == Len(stack)
             g == [stack[k] EXCEPT !.todo = @ \ {n}]
             f == [limit |-> limit, todo |-> todo]
  <1>1. k \in Nat /\ k >= 1 /\ \A i \in 1 .. k : stack[i] \in Frame
    BY DEF FramesOK
  <1>2. g \in Frame /\ g.limit = stack[k].limit /\ g.todo = stack[k].todo \ {n}
    <2>1. stack[k] \in Frame
      BY <1>1
    <2>2. QED
      BY <2>1 DEF Frame
  <1>3. Visited(n) = [stack EXCEPT ![k] = g]
    BY <1>1 DEF Visited
  <1> HIDE DEF g, f
  <1>4. stack \in Seq(Frame)
    BY DEF FramesOK
  <1>5. /\ Visited(n) \in Seq(Frame) /\ Len(Visited(n)) = k
        /\ Visited(n)[k] = g
        /\ \A i \in 1 .. k : i # k => Visited(n)[i] = stack[i]
    BY <1>1, <1>2, <1>3, <1>4
  <1>6. stack' = Append(Visited(n), f)
    BY DEF Enter, f
  <1>7. /\ Len(stack') = k + 1 /\ stack'[k + 1] = f
        /\ \A i \in 1 .. k : stack'[i] = Visited(n)[i]
    BY <1>1, <1>5, <1>6
  <1>8. ASSUME NEW i \in 1 .. k
        PROVE  /\ stack'[i].limit = stack[i].limit
               /\ stack'[i].todo = IF i = k THEN stack[i].todo \ {n}
                                            ELSE stack[i].todo
    BY <1>2, <1>5, <1>7
  <1>9. QED
    BY <1>1, <1>7, <1>8 DEF f, Entered

(* Entering a child of a directory that was written: all of its children   *)
(* are still to be visited.                                                *)
LEMMA EnterOwnChild ==
    ASSUME FramesOK, WrittenOK, RestoredOK, status = "restoring", stack # <<>>,
           NEW n, n \in Top.todo, NEW limit, NEW todo,
           todo = Children[n], todo # {} => limit = region[n].offset,
           Enter(n, Visited(n), limit, todo)
    PROVE  RestoredOK'
  <1> DEFINE k == Len(stack)
  <1>0. /\ k \in Nat /\ k >= 1
        /\ Len(stack') = k + 1
        /\ stack'[k + 1] = [limit |-> limit, todo |-> todo]
        /\ \A i \in 1 .. k :
              /\ stack'[i].limit = stack[i].limit
              /\ stack'[i].todo = IF i = k THEN stack[i].todo \ {n}
                                           ELSE stack[i].todo
    <2>1. Entered(n, limit, todo)
      BY EnterStack
    <2>2. QED
      BY ONLY <2>1 DEF Entered
  <1>1. n \in stack[k].todo
    BY DEF Top
  <1> HIDE DEF k
  <1>2. PICK m \in written : n \in Children[m]
    <2>1. k = Len(stack) /\ k \in 1 .. Len(stack)
      BY <1>0 DEF k
    <2>2. QED
      BY <1>1, <2>1 DEF RestoredOK, FrameOf
  <1>3. n \in written
    BY <1>2 DEF WrittenOK
  <1>4. /\ restored' = restored \union {n}
        /\ written' = written /\ region' = region
        /\ status' = "restoring"
    BY DEF Enter, writer
  <1>5. restored' \subseteq written' /\ Root \in restored'
    BY <1>3, <1>4 DEF RestoredOK
  <1>6. ASSUME NEW i \in 1 .. k + 1
        PROVE  \E x \in written : FrameOf(stack[i], x)'
    <2>1. CASE i = k + 1
      <3>1. stack'[i].limit = limit /\ stack'[i].todo = todo
        BY <1>0, <2>1
      <3>2. FrameOf(stack[i], n)'
        BY <1>4, <3>1 DEF FrameOf
      <3>3. QED
        BY <1>3, <3>2
    <2>2. CASE i \in 1 .. k
      <3>1. i \in 1 .. Len(stack)
        BY <2>2 DEF k
      <3>2. PICK x \in written : FrameOf(stack[i], x)
        BY <3>1 DEF RestoredOK
      <3>3. stack'[i].todo \subseteq stack[i].todo
            /\ stack'[i].limit = stack[i].limit
        BY <1>0, <2>2
      <3>4. FrameOf(stack[i], x)'
        BY <1>4, <3>2, <3>3 DEF FrameOf
      <3>5. QED
        BY <3>4
    <2>3. QED
      BY <1>0, <2>1, <2>2
  <1>7. ASSUME NEW x \in restored', NEW c \in Children[x]
        PROVE  c \in restored' \/ \E i \in 1 .. k + 1 : c \in stack'[i].todo
    <2>1. CASE x = n
      <3>1. c \in stack'[k + 1].todo
        BY <1>0, <2>1
      <3>2. k + 1 \in 1 .. k + 1
        BY <1>0
      <3>3. QED
        BY <3>1, <3>2
    <2>2. CASE x \in restored /\ c \notin restored
      <3>1. PICK i \in 1 .. k : c \in stack[i].todo
        BY <2>2 DEF RestoredOK, k
      <3>2. c = n \/ c \in stack'[i].todo
        BY <1>0, <3>1
      <3>3. i \in 1 .. k + 1
        BY <1>0, <3>1
      <3>4. QED
        BY <1>4, <3>2, <3>3
    <2>3. QED
      BY <1>4, <2>1, <2>2
  <1>8. Len(stack') = k + 1
    BY <1>0
  <1>9. \A i \in 1 .. Len(stack') : \E x \in written' : FrameOf(stack[i], x)'
    BY <1>4, <1>6, <1>8
  <1>10. QED
    BY <1>5, <1>7, <1>8, <1>9 DEF RestoredOK

(* Returning from an activation that has visited all children.             *)
LEMMA ReturnOwn ==
    ASSUME FramesOK, RestoredOK, RestoreReturn
    PROVE  RestoredOK' /\ (status' = "restored" => stack' = <<>>)
  <1> DEFINE k == Len(stack)
  <1>1. /\ stack \in Seq(Frame) /\ k \in Nat /\ k >= 1
        /\ stack' = SubSeq(stack, 1, k - 1)
    BY DEF RestoreReturn, FramesOK
  <1>2. /\ stack[k].todo = {}
        /\ written' = written /\ region' = region /\ restored' = restored
        /\ status' = IF k = 1 THEN "restored" ELSE "restoring"
        /\ status = "restoring"
    BY DEF RestoreReturn, writer, Top
  <1>3. /\ Len(stack') = k - 1
        /\ \A i \in 1 .. k - 1 : stack'[i] = stack[i]
    <2> HIDE DEF k
    <2>1. k = Len(stack)
      BY DEF k
    <2>2. QED
      BY <1>1, <2>1
  <1>4. status' = "restored" => stack' = <<>>
    BY <1>1, <1>2, <1>3
  <1>5. ASSUME NEW i \in 1 .. k - 1
        PROVE  \E x \in written' : FrameOf(stack[i], x)'
    <2>1. i \in 1 .. Len(stack)
      BY <1>1
    <2>2. PICK x \in written : FrameOf(stack[i], x)
      BY <2>1 DEF RestoredOK
    <2>3. FrameOf(stack[i], x)'
      BY <1>2, <1>3, <2>2 DEF FrameOf
    <2>4. QED
      BY <1>2, <2>3
  <1>6. ASSUME NEW x \in restored, NEW c \in Children[x]
        PROVE  c \in restored \/ \E i \in 1 .. k - 1 : c \in stack'[i].todo
    <2>1. CASE c \notin restored
      <3>1. PICK i \in 1 .. k : c \in stack[i].todo
        BY <2>1 DEF RestoredOK
      <3>2. i # k
        BY <1>2, <3>1
      <3>3. i \in 1 .. k - 1
        BY <1>1, <3>1, <3>2
      <3>4. QED
        BY <1>3, <3>1, <3>3
    <2>2. QED
      BY <2>1
  <1>7. \A i \in 1 .. Len(stack') : \E x \in written' : FrameOf(stack[i], x)'
    BY <1>3, <1>5
  <1>8. restored' \subseteq written' /\ Root \in restored'
    BY <1>2 DEF RestoredOK
  <1>9. \A x \in restored' : \A c \in Children[x] :
           c \in restored' \/ \E i \in 1 .. Len(stack') : c \in stack'[i].todo
    BY <1>2, <1>3, <1>6
  <1>10. QED
    BY <1>4, <1>7, <1>8, <1>9 DEF RestoredOK

LEMMA OwnFileInvNext ==
    WriterOK /\ SInv /\ OwnFileInv /\ [Next]_vars => OwnFileInv'
  <1> SUFFICES ASSUME WriterOK, SInv, OwnFileInv, [Next]_vars, ~damaged'
               PROVE  (WrittenOK /\ RestoredOK /\ StatusOK)'
    BY DEF OwnFileInv
  <1>0. ~damaged
    BY DEF Next, SaveDirectory, Finalize, RestoreNext, OpenFile, RestoreChild,
           RestoreReturn, RestoreFails, Enter, Fail, writer, vars
  <1>1. WrittenOK /\ RestoredOK /\ StatusOK /\ FramesOK
    BY <1>0 DEF OwnFileInv, SInv
  <1>a. ASSUME UNCHANGED <<region, offset, written>> PROVE WrittenOK'
    BY <1>1, <1>a DEF WrittenOK, EndOf
  <1>b. ASSUME UNCHANGED <<status, stack, restored>>, status = "saving",
               written \subseteq written'
        PROVE  RestoredOK'
    BY <1>1, <1>b DEF RestoredOK, StatusOK
  <1>c. /\ offset \in Int /\ Maximum \in Int /\ Maximum \in Offset
        /\ \A n \in Node : StoredRegion(n) = {region[n]}
                           /\ StoredChildren(n) = {Children[n]}
    BY <1>0, StateFileAssumption, OffsetInt
       DEF StoredRegion, StoredChildren, WriterOK
  <1>2. ASSUME NEW n \in Node, NEW size \in Size, SaveDirectory(n, size)
        PROVE  (WrittenOK /\ RestoredOK /\ StatusOK)'
    <2>1. /\ n \in Node \ written /\ n # Root
          /\ Children[n] \subseteq written
          /\ written' = written \union {n}
          /\ status = "saving"
          /\ UNCHANGED <<status, stack, restored>>
      BY <1>2 DEF SaveDirectory
    <2>2. WrittenOK'
      <3>1. CASE Children[n] = {} /\ n \in Leafless
        <4>1. UNCHANGED <<region, offset>>
          BY <1>2, <3>1 DEF SaveDirectory
        <4>2. region[n] = NULL
          BY <1>1, <2>1 DEF WrittenOK
        <4>3. QED
          BY <1>1, <2>1, <3>1, <4>1, <4>2 DEF WrittenOK, EndOf
      <3>2. CASE ~(Children[n] = {} /\ n \in Leafless)
        <4>1. WriteMessage(n, size)
          BY <1>2, <3>2 DEF SaveDirectory
        <4>2. QED
          BY <1>1, <2>1, <4>1, WriteKeepsOrder
      <3>3. QED
        BY <3>1, <3>2
    <2>3. RestoredOK'
      BY <1>b, <2>1
    <2>4. StatusOK'
      BY <1>1, <2>1 DEF StatusOK
    <2>5. QED
      BY <2>2, <2>3, <2>4
  <1>3. ASSUME NEW size \in Size, Finalize(size)
        PROVE  (WrittenOK /\ RestoredOK /\ StatusOK)'
    <2>1. /\ Root \in Node \ written
          /\ Children[Root] \subseteq written
          /\ written' = written \union {Root}
          /\ WriteMessage(Root, size)
          /\ status = "saving" /\ status' = "saved"
          /\ UNCHANGED <<stack, restored>>
      BY <1>1, <1>3, StateFileAssumption DEF Finalize, StatusOK
    <2>2. WrittenOK'
      BY <1>1, <2>1, WriteKeepsOrder
    <2>3. stack = <<>> /\ restored = {}
      BY <1>1, <2>1 DEF StatusOK
    <2>4. RestoredOK'
      BY <2>1, <2>3 DEF RestoredOK
    <2>5. StatusOK'
      BY <2>1, <2>3 DEF StatusOK
    <2>6. QED
      BY <2>2, <2>4, <2>5
  <1>4. ASSUME NEW r \in StoredRegion(Root) \ {NULL},
               NEW todo \in StoredChildren(Root), OpenFile(r, todo)
        PROVE  (WrittenOK /\ RestoredOK /\ StatusOK)'
    <2>1. /\ r = region[Root] /\ r # NULL /\ todo = Children[Root]
          /\ status = "saved" /\ Root \in written
          /\ stack = <<>> /\ restored = {}
      BY <1>1, <1>4, <1>c, StateFileAssumption DEF OpenFile, StatusOK
    <2>2. CASE ~Permitted(r, Maximum)
      <3>1. /\ status' = "rejected"
            /\ UNCHANGED <<writer, stack, restored>>
        BY <1>4, <2>2 DEF OpenFile, Fail
      <3>2. ~(offset <= Maximum)
        <4>1. SUFFICES ASSUME offset <= Maximum PROVE FALSE
          OBVIOUS
        <4>2. EndOf(Root) \in Int /\ EndOf(Root) <= offset
          <5>1. region[Root] \in Region
            BY <2>1, StateFileAssumption DEF WriterOK
          <5>2. QED
            BY <1>1, <2>1, <5>1, StateFileAssumption, OffsetInt
               DEF WrittenOK, EndOf, Region
        <4>3. EndOf(Root) <= Maximum
          BY <1>c, <4>1, <4>2
        <4>4. QED
          BY <1>1, <1>c, <2>1, <2>2, <4>3, OwnRegionPermitted
      <3>3. RestoredOK'
        BY <2>1, <3>1 DEF RestoredOK
      <3>4. StatusOK'
        BY <1>1, <2>1, <3>1, <3>2 DEF StatusOK, writer
      <3>5. QED
        BY <1>a, <3>1, <3>3, <3>4 DEF writer
    <2>3. CASE Permitted(r, Maximum)
      <3> DEFINE f == [limit |-> r.offset, todo |-> todo]
      <3>1. /\ status' = "restoring"
            /\ stack' = Append(<<>>, f)
            /\ restored' = {Root}
            /\ UNCHANGED writer
        BY <1>4, <2>1, <2>3 DEF OpenFile, Enter
      <3>2. f.limit = r.offset /\ f.todo = todo
        OBVIOUS
      <3> HIDE DEF f
      <3>3. Len(stack') = 1 /\ stack'[1] = f
        BY <3>1
      <3>4. UNCHANGED <<region, offset, written>>
        BY <3>1 DEF writer
      <3>5. FrameOf(stack[1], Root)'
        BY <2>1, <3>2, <3>3, <3>4 DEF FrameOf
      <3>6. RestoredOK'
        BY <2>1, <3>1, <3>2, <3>3, <3>4, <3>5 DEF RestoredOK
      <3>7. StatusOK'
        BY <1>1, <2>1, <3>1, <3>4 DEF StatusOK
      <3>8. QED
        BY <1>a, <3>4, <3>6, <3>7
    <2>4. QED
      BY <2>2, <2>3
  <1>5. ASSUME NEW n \in Node, NEW r \in StoredRegion(n),
               NEW todo \in StoredChildren(n), RestoreChild(n, r, todo)
        PROVE  (WrittenOK /\ RestoredOK /\ StatusOK)'
    <2>1. /\ r = region[n] /\ todo = Children[n]
          /\ status = "restoring" /\ stack # <<>> /\ n \in Top.todo
      BY <1>5, <1>c DEF RestoreChild
    <2>2. Len(stack) \in 1 .. Len(stack) /\ Top.limit \in Offset
      <3>1. stack \in Seq(Frame) /\ stack # <<>>
        BY <1>1, <2>1 DEF FramesOK
      <3>2. Len(stack) \in 1 .. Len(stack) /\ Top \in Frame
        BY ONLY <3>1 DEF Top
      <3>3. QED
        BY <3>2 DEF Frame
    <2>3. PICK m \in written : FrameOf(Top, m)
      BY <1>1, <2>2 DEF RestoredOK, Top
    <2>4. /\ n \in Children[m] /\ n \in written
          /\ Top.limit = region[m].offset
      BY <1>1, <2>1, <2>3 DEF FrameOf, WrittenOK
    <2>5. r # NULL => Permitted(r, Top.limit)
      <3>1. SUFFICES ASSUME r # NULL PROVE Permitted(r, Top.limit)
        OBVIOUS
      <3>2. EndOf(n) <= Top.limit
        BY <1>1, <2>1, <2>4, <3>1 DEF WrittenOK
      <3>3. QED
        BY <1>1, <2>1, <2>2, <2>4, <3>1, <3>2, OwnRegionPermitted
    <2>6. \E limit : /\ Enter(n, Visited(n), limit, todo)
                     /\ todo # {} => limit = region[n].offset
      <3>1. CASE r = NULL
        <4>1. todo = {}
          BY <1>1, <2>1, <2>4, <3>1 DEF WrittenOK
        <4>2. Enter(n, Visited(n), 0, todo)
          BY <1>5, <3>1, <4>1 DEF RestoreChild
        <4>3. QED
          BY <4>1, <4>2
      <3>2. CASE r # NULL
        BY <1>5, <2>1, <2>5, <3>2 DEF RestoreChild
      <3>3. QED
        BY <3>1, <3>2
    <2>7. RestoredOK' /\ status' = "restoring"
          /\ UNCHANGED <<region, offset, written>>
      <3>1. PICK limit : /\ Enter(n, Visited(n), limit, todo)
                         /\ todo # {} => limit = region[n].offset
        BY <2>6
      <3>2. RestoredOK'
        BY <1>1, <2>1, <3>1, EnterOwnChild
      <3>3. QED
        BY <3>1, <3>2 DEF Enter, writer
    <2>8. StatusOK'
      BY <1>1, <2>1, <2>7 DEF StatusOK
    <2>9. QED
      BY <1>a, <2>7, <2>8
  <1>6. ASSUME RestoreReturn PROVE (WrittenOK /\ RestoredOK /\ StatusOK)'
    <2>1. /\ status = "restoring" /\ status' \in {"restored", "restoring"}
          /\ UNCHANGED <<region, offset, written>>
      BY <1>6 DEF RestoreReturn, writer
    <2>2. RestoredOK' /\ (status' = "restored" => stack' = <<>>)
      BY <1>1, <1>6, ReturnOwn
    <2>3. StatusOK'
      BY <1>1, <2>1, <2>2 DEF StatusOK
    <2>4. QED
      BY <1>a, <2>1, <2>2, <2>3
  <1>7. ASSUME RestoreFails PROVE (WrittenOK /\ RestoredOK /\ StatusOK)'
    <2>1. /\ status' = "failed" /\ status # "saving"
          /\ UNCHANGED <<region, offset, written, stack, restored>>
      BY <1>7 DEF RestoreFails, Fail, writer
    <2>2. RestoredOK'
      BY <1>1, <2>1 DEF RestoredOK, FrameOf
    <2>3. StatusOK'
      BY <1>1, <2>1 DEF StatusOK
    <2>4. QED
      BY <1>a, <2>1, <2>2, <2>3
  <1>8. CASE UNCHANGED vars
    BY <1>1, <1>8
       DEF vars, writer, WrittenOK, EndOf, RestoredOK, FrameOf, StatusOK
  <1>9. QED
    BY <1>2, <1>3, <1>4, <1>5, <1>6, <1>7, <1>8, Zenon DEF Next, RestoreNext

(* Once the last activation has returned, the directories that were        *)
(* restored are closed under taking children.                              *)
LEMMA AllRestored == WriterOK /\ OwnFileInv => OwnFileAccepted
  <1> SUFFICES ASSUME WriterOK, WrittenOK, RestoredOK, StatusOK,
                      offset <= Maximum
               PROVE  /\ status # "rejected"
                      /\ status = "restored" => restored = written
    BY DEF OwnFileInv, OwnFileAccepted
  <1>1. status # "rejected"
    BY DEF StatusOK
  <1>2. ASSUME status = "restored" PROVE restored = written
    <2>1. stack = <<>> /\ restored \subseteq written /\ written \subseteq Node
          /\ Root \in restored
      BY <1>2 DEF StatusOK, RestoredOK, WrittenOK
    <2>2. \A n \in restored : Children[n] \subseteq restored
      BY <2>1 DEF RestoredOK
    <2>3. restored = Node
      BY <2>1, <2>2, TreeAssumption
    <2>4. QED
      BY <2>1, <2>3
  <1>3. QED
    BY <1>1, <1>2

(* The reader accepts every file of the writer that does not exceed the    *)
(* maximum size, and restores all directories in it.                       *)
THEOREM OwnFileRestored == Spec => []OwnFileAccepted
  <1>1. Init => WriterOK /\ SInv /\ OwnFileInv
    BY StateFileAssumption, OffsetInt
       DEF Init, WriterOK, SInv, FramesOK, NoCycles, Region, OwnFileInv,
           WrittenOK, RestoredOK, StatusOK
  <1>2. QED
    BY <1>1, WriterNext, SInvNext, OwnFileInvNext, AllRestored, PTL DEF Spec
=============================================================================
