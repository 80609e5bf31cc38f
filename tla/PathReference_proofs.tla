------------------------ MODULE PathReference_proofs ------------------------
(***************************************************************************)
(* Proofs about path resolution by StageArtifacts() and BatchStat().       *)
(***************************************************************************)
EXTENDS PathReference, SequenceTheorems, WellFoundedInduction, TLAPS


-----------------------------------------------------------------------------
(* Induction over the natural numbers.  What is to be shown of all of them *)
(* is given as the set of those of which it is true.                       *)
LessThan == {p \in Nat \X Nat : p[1] < p[2]}

LEMMA LessThanWellFounded == IsWellFoundedOn(LessThan, Nat)
  <1>1. LessThan = OpToRel(<, Nat)
    BY Zenon DEF LessThan, OpToRel
  <1>2. QED
    BY <1>1, NatLessThanWellFounded, Zenon

LEMMA SetInduction ==
    ASSUME NEW S \in SUBSET Nat, 0 \in S, \A k \in S : k + 1 \in S
    PROVE  S = Nat
  <1> DEFINE T == Nat \ S
  <1>1. SUFFICES ASSUME T # {}
                 PROVE  FALSE
    OBVIOUS
  <1>2. T \subseteq Nat
    OBVIOUS
  <1> HIDE DEF T
  <1>3. PICK x \in T : \A y \in T : ~ (<<y, x>> \in LessThan)
    BY <1>1, <1>2, LessThanWellFounded, WFMin, Zenon
  <1>4. \A y \in T : ~ (y < x)
    BY <1>2, <1>3 DEF LessThan
  <1>5. x \in Nat /\ x \notin S
    BY <1>3 DEF T
  <1>6. x # 0 /\ x - 1 \in Nat
    BY <1>5
  <1>7. x - 1 \in S
    BY <1>4, <1>6 DEF T
  <1>8. QED
    BY <1>5, <1>6, <1>7

-----------------------------------------------------------------------------
(* The directories that are part of a tree.                                *)
Contents == [Dir -> [Name -> Entry]]

Word == STRING

LEMMA ConstantTypes ==
    /\ Root \in Dir
    /\ Name \subseteq Word
    /\ "" \notin Name /\ ".." \notin Name
    /\ MaxLinks \in Nat
  BY PathAssumption DEF Word

LEMMA EntryTypes ==
    /\ \A e \in Entry : e.type = "directory" => e.dir \in Dir /\ e = DirectoryEntry(e.dir)
    /\ \A d : DirectoryEntry(d).type = "directory" /\ DirectoryEntry(d).dir = d
    /\ \A d \in Dir : DirectoryEntry(d) \in Entry
    /\ \A f \in STRING : FileEntry(f) \in Entry /\ FileEntry(f).type = "file"
    /\ None \in Entry /\ None.type = "none"
    /\ Empty \in [Name -> Entry]
  <1>1. \A e \in [type : {"directory"}, dir : Dir] : e = [type |-> e.type, dir |-> e.dir]
    OBVIOUS
  <1>2. ASSUME NEW e \in Entry, e.type = "directory"
        PROVE  e.dir \in Dir /\ e = DirectoryEntry(e.dir)
    <2>1. e \in [type : {"directory"}, dir : Dir]
      BY <1>2 DEF Entry, None
    <2>2. QED
      BY <1>2, <2>1, <1>1 DEF DirectoryEntry
  <1>3. None \in Entry /\ None.type = "none"
    BY DEF Entry, None
  <1>4. QED
    BY <1>2, <1>3 DEF Entry, DirectoryEntry, FileEntry, Empty

LEMMA LinkedClosed ==
    ASSUME NEW tr \in Contents
    PROVE  /\ Linked(tr) \subseteq Dir
           /\ Root \in Linked(tr)
           /\ \A d \in Linked(tr), n \in Name, e \in Dir :
                 tr[d][n] = DirectoryEntry(e) => e \in Linked(tr)
  <1>1. Root \in Linked(tr)
    BY PathAssumption DEF Linked
  <1>2. ASSUME NEW d \in Linked(tr), NEW n \in Name, NEW e \in Dir,
               tr[d][n] = DirectoryEntry(e)
        PROVE  e \in Linked(tr)
    <2>1. e \in Subdirectories(tr, d)
      BY <1>2, EntryTypes DEF Subdirectories
    <2>2. ASSUME NEW S \in SUBSET Dir, Root \in S,
                 \A x \in S : Subdirectories(tr, x) \subseteq S
          PROVE  e \in S
      <3>1. d \in S
        BY <2>2 DEF Linked
      <3>2. QED
        BY <3>1, <2>1, <2>2
    <2>3. QED
      BY <2>2 DEF Linked
  <1>3. QED
    BY <1>1, <1>2 DEF Linked

LEMMA LinkedLeast ==
    ASSUME NEW tr \in Contents, NEW S \in SUBSET Dir, Root \in S,
           \A d \in S, n \in Name, e \in Dir : tr[d][n] = DirectoryEntry(e) => e \in S
    PROVE  Linked(tr) \subseteq S
  <1>1. ASSUME NEW d \in S, NEW e \in Subdirectories(tr, d)
        PROVE  e \in S
    <2>1. PICK n \in Name : tr[d][n].type = "directory" /\ e = tr[d][n].dir
      BY <1>1 DEF Subdirectories
    <2>2. tr[d][n] \in Entry
      BY DEF Contents
    <2>3. e \in Dir /\ tr[d][n] = DirectoryEntry(e)
      BY <2>1, <2>2, EntryTypes
    <2>4. QED
      BY <2>3
  <1>2. QED
    BY <1>1 DEF Linked

(* What is part of a tree is the root directory, or something refers to it.*)
LEMMA LinkedReferred ==
    ASSUME NEW tr \in Contents, NEW d \in Linked(tr), d # Root
    PROVE  \E e \in Linked(tr), n \in Name : tr[e][n] = DirectoryEntry(d)
  <1> DEFINE S == {x \in Linked(tr) :
                     \/ x = Root
                     \/ \E e \in Linked(tr), n \in Name : tr[e][n] = DirectoryEntry(x)}
  <1>1. S \in SUBSET Dir /\ Root \in S
    BY LinkedClosed
  <1>2. ASSUME NEW x \in S, NEW n \in Name, NEW e \in Dir, tr[x][n] = DirectoryEntry(e)
        PROVE  e \in S
    BY <1>2, LinkedClosed
  <1> HIDE DEF S
  <1>3. Linked(tr) \subseteq S
    BY <1>1, <1>2, LinkedLeast
  <1>4. QED
    BY <1>3 DEF S

-----------------------------------------------------------------------------
(* One directory entry changes.  It refers to no directory other than ones *)
(* that are new, which contain no directories.                             *)
Changed(tr, tr2, T, c, New) ==
    /\ tr2 \in Contents
    /\ T \in Linked(tr) /\ c \in Name
    /\ New \subseteq Dir \ Linked(tr)
    /\ \A d \in Dir \ New, n \in Name : (d = T /\ n = c) \/ tr2[d][n] = tr[d][n]
    /\ \A d \in New, n \in Name : tr2[d][n].type # "directory"
    /\ \A d \in Dir : tr2[T][c] = DirectoryEntry(d) => d \in New

Pruned(tr) == [d \in Dir |-> IF d \in Linked(tr) THEN tr[d] ELSE Empty]

LEMMA PrunedLinked ==
    ASSUME NEW tr \in Contents
    PROVE  Pruned(tr) \in Contents /\ Linked(Pruned(tr)) = Linked(tr)
  <1>1. Pruned(tr) \in Contents
    BY EntryTypes DEF Pruned, Contents
  <1>2. Linked(Pruned(tr)) \subseteq Linked(tr)
    <2> DEFINE S == Linked(tr)
    <2>1. S \in SUBSET Dir /\ Root \in S
      BY LinkedClosed
    <2>2. ASSUME NEW d \in S, NEW n \in Name, NEW e \in Dir,
                 Pruned(tr)[d][n] = DirectoryEntry(e)
          PROVE  e \in S
      BY <2>2, LinkedClosed DEF Pruned
    <2> HIDE DEF S
    <2>3. Linked(Pruned(tr)) \subseteq S
      BY <1>1, <2>1, <2>2, LinkedLeast
    <2>4. QED
      BY <2>3 DEF S
  <1>3. Linked(tr) \subseteq Linked(Pruned(tr))
    <2> DEFINE S == Linked(tr) \intersect Linked(Pruned(tr))
    <2>1. S \in SUBSET Dir /\ Root \in S
      BY <1>1, LinkedClosed
    <2>2. ASSUME NEW d \in S, NEW n \in Name, NEW e \in Dir,
                 tr[d][n] = DirectoryEntry(e)
          PROVE  e \in S
      <3>1. d \in Dir /\ Pruned(tr)[d][n] = tr[d][n]
        BY LinkedClosed DEF Pruned
      <3>2. e \in Linked(tr)
        BY <2>2, LinkedClosed
      <3>3. d \in Linked(Pruned(tr))
        OBVIOUS
      <3>4. e \in Linked(Pruned(tr))
        BY <1>1, <2>2, <3>1, <3>3, LinkedClosed
      <3>5. QED
        BY <3>2, <3>4
    <2> HIDE DEF S
    <2>3. Linked(tr) \subseteq S
      BY <2>1, <2>2, LinkedLeast
    <2>4. QED
      BY <2>3 DEF S
  <1>4. QED
    BY <1>1, <1>2, <1>3

LEMMA IsTreeContents ==
    ASSUME NEW tr, IsTree(tr)
    PROVE  tr \in Contents
  BY DEF IsTree, Contents

(* Every reference to a directory that is not new was there before.        *)
LEMMA ChangedReferences ==
    ASSUME NEW tr, NEW tr2, NEW T, NEW c, NEW New, IsTree(tr), Changed(tr, tr2, T, c, New)
    PROVE  /\ \A d, e \in Dir, n \in Name :
                 tr2[d][n] = DirectoryEntry(e) =>
                   \/ d = T /\ n = c /\ e \in New
                   \/ d \notin New /\ ~ (d = T /\ n = c) /\ tr[d][n] = DirectoryEntry(e)
           /\ Linked(tr2) \subseteq Linked(tr) \union New
  <1>1. tr \in Contents /\ tr2 \in Contents /\ T \in Dir /\ c \in Name
    BY IsTreeContents, LinkedClosed DEF Changed
  <1>2. ASSUME NEW d \in Dir, NEW e \in Dir, NEW n \in Name, tr2[d][n] = DirectoryEntry(e)
        PROVE  \/ d = T /\ n = c /\ e \in New
               \/ d \notin New /\ ~ (d = T /\ n = c) /\ tr[d][n] = DirectoryEntry(e)
    <2>1. tr2[d][n].type = "directory"
      BY <1>2, EntryTypes
    <2>2. d \notin New
      BY <2>1 DEF Changed
    <2>3. QED
      BY <1>2, <2>2 DEF Changed
  <1>3. Linked(tr2) \subseteq Linked(tr) \union New
    <2> DEFINE S == Linked(tr) \union New
    <2>1. S \in SUBSET Dir /\ Root \in S
      BY <1>1, LinkedClosed DEF Changed
    <2>2. ASSUME NEW d \in S, NEW n \in Name, NEW e \in Dir, tr2[d][n] = DirectoryEntry(e)
          PROVE  e \in S
      <3>1. CASE e \in New
        BY <3>1
      <3>2. CASE d \notin New /\ tr[d][n] = DirectoryEntry(e)
        BY <3>2, <1>1, LinkedClosed
      <3>3. QED
        BY <3>1, <3>2, <2>1, <2>2, <1>2
    <2> HIDE DEF S
    <2>3. Linked(tr2) \subseteq S
      BY <1>1, <2>1, <2>2, LinkedLeast
    <2>4. QED
      BY <2>3 DEF S
  <1>4. QED
    BY <1>2, <1>3

LEMMA NothingRefersToNew ==
    ASSUME NEW tr, IsTree(tr), NEW d \in Dir, NEW n \in Name, NEW e \in Dir,
           tr[d][n] = DirectoryEntry(e)
    PROVE  d \in Linked(tr) /\ e \in Linked(tr)
  <1>1. d \in Linked(tr)
    <2>1. tr[d] # Empty
      BY EntryTypes DEF Empty
    <2>2. QED
      BY <2>1 DEF IsTree
  <1>2. QED
    BY <1>1, IsTreeContents, LinkedClosed

LEMMA TreeUnique ==
    ASSUME NEW tr, IsTree(tr), NEW d \in Dir, NEW n \in Name, NEW e \in Dir, NEW m \in Name,
           NEW x \in Dir, tr[d][n] = DirectoryEntry(x), tr[e][m] = DirectoryEntry(x)
    PROVE  d = e /\ n = m /\ x # Root
  BY EntryTypes DEF IsTree

(* The tree that results.                                                  *)
LEMMA ChangedTree ==
    ASSUME NEW tr, NEW tr2, NEW T, NEW c, NEW New, IsTree(tr), Changed(tr, tr2, T, c, New)
    PROVE  /\ IsTree(Pruned(tr2))
           /\ Linked(Pruned(tr2)) = Linked(tr2)
           /\ Linked(tr2) \subseteq Linked(tr) \union New
           /\ \A d, e \in Dir, n \in Name :
                 Pruned(tr2)[d][n] = DirectoryEntry(e) =>
                   \/ d = T /\ n = c /\ e \in New
                   \/ d \notin New /\ ~ (d = T /\ n = c) /\ tr[d][n] = DirectoryEntry(e)
  <1> DEFINE P == Pruned(tr2)
  <1>1. tr \in Contents /\ tr2 \in Contents /\ T \in Dir /\ c \in Name
    BY IsTreeContents, LinkedClosed DEF Changed
  <1>2. P \in Contents /\ Linked(P) = Linked(tr2)
    BY <1>1, PrunedLinked
  <1>3. ASSUME NEW d \in Dir, NEW n \in Name, NEW e \in Dir, P[d][n] = DirectoryEntry(e)
        PROVE  tr2[d][n] = DirectoryEntry(e)
    <2>1. P[d] # Empty
      BY <1>3, EntryTypes DEF Empty
    <2>2. QED
      BY <1>3, <2>1 DEF Pruned
  <1>4. \A d, e \in Dir, n \in Name :
           P[d][n] = DirectoryEntry(e) =>
             \/ d = T /\ n = c /\ e \in New
             \/ d \notin New /\ ~ (d = T /\ n = c) /\ tr[d][n] = DirectoryEntry(e)
    BY <1>3, ChangedReferences
  <1>5. \A d \in Dir \ Linked(P) : P[d] = Empty
    BY <1>2 DEF Pruned
  <1> HIDE DEF P
  <1>6. ASSUME NEW d \in Dir, NEW e \in Dir, NEW m \in Name, NEW n \in Name, NEW x \in Dir,
               P[d][m] = DirectoryEntry(x), P[e][n] = DirectoryEntry(x)
        PROVE  d = e /\ m = n
    <2>1. CASE x \in New
      <3>1. x \notin Linked(tr)
        BY <2>1 DEF Changed
      <3>2. tr[d][m] # DirectoryEntry(x) /\ tr[e][n] # DirectoryEntry(x)
        BY <3>1, NothingRefersToNew
      <3>3. QED
        BY <3>2, <1>4, <1>6
    <2>2. CASE x \notin New
      <3>1. tr[d][m] = DirectoryEntry(x) /\ tr[e][n] = DirectoryEntry(x)
        BY <2>2, <1>4, <1>6
      <3>2. QED
        BY <3>1, TreeUnique
    <2>3. QED
      BY <2>1, <2>2
  <1>7. ASSUME NEW d \in Dir, NEW n \in Name, P[d][n] = DirectoryEntry(Root)
        PROVE  FALSE
    <2>1. Root \notin New /\ Root \in Dir
      BY <1>1, LinkedClosed, PathAssumption DEF Changed
    <2>2. tr[d][n] = DirectoryEntry(Root)
      BY <2>1, <1>4, <1>7
    <2>3. QED
      BY <2>2 DEF IsTree
  <1>8. ASSUME NEW d \in Dir, NEW e \in Dir, NEW m \in Name, NEW n \in Name,
               P[d][m].type = "directory", P[d][m] = P[e][n]
        PROVE  d = e /\ m = n
    <2>1. P[d][m] \in Entry
      BY <1>2 DEF Contents
    <2>2. P[d][m].dir \in Dir /\ P[d][m] = DirectoryEntry(P[d][m].dir)
      BY <2>1, <1>8, EntryTypes
    <2>3. QED
      BY <2>2, <1>6, <1>8
  <1>9. IsTree(P)
    BY <1>2, <1>5, <1>7, <1>8 DEF IsTree, Contents
  <1>10. QED
    BY <1>2, <1>4, <1>9, ChangedReferences DEF P

-----------------------------------------------------------------------------
(* Sequences.                                                              *)
ButLast(p) == SubSeq(p, 1, Len(p) - 1)

LEMMA ButLastProperties ==
    ASSUME NEW S, NEW p \in Seq(S), p # <<>>
    PROVE  /\ ButLast(p) \in Seq(S)
           /\ Len(p) \in Nat \ {0}
           /\ Len(ButLast(p)) = Len(p) - 1
           /\ \A i \in 1 .. Len(p) - 1 : ButLast(p)[i] = p[i]
           /\ p[Len(p)] \in S
           /\ p = Append(ButLast(p), p[Len(p)])
  <1> DEFINE n == Len(p)  x == p[Len(p)]
  <1>1. n \in Nat \ {0} /\ p \in [1 .. n -> S]
    BY EmptySeq, LenProperties
  <1>2. \A i \in 1 .. n - 1 : p[i] \in S
    BY <1>1
  <1>3. /\ ButLast(p) \in Seq(S)
        /\ Len(ButLast(p)) = n - 1
        /\ \A i \in 1 .. n - 1 : ButLast(p)[i] = p[i]
    BY <1>1, <1>2, SubSeqProperties DEF ButLast
  <1>4. x \in S
    BY <1>1
  <1> HIDE DEF x
  <1>5. /\ Append(ButLast(p), x) \in Seq(S)
        /\ Len(Append(ButLast(p), x)) = Len(ButLast(p)) + 1
        /\ \A i \in 1 .. Len(ButLast(p)) : Append(ButLast(p), x)[i] = ButLast(p)[i]
        /\ Append(ButLast(p), x)[Len(ButLast(p)) + 1] = x
    BY <1>3, <1>4, AppendProperties
  <1> HIDE DEF n
  <1>6. Len(Append(ButLast(p), x)) = n /\ n = Len(p)
    BY <1>1, <1>3, <1>5 DEF n
  <1>7. \A i \in 1 .. n : p[i] = Append(ButLast(p), x)[i]
    <2> TAKE i \in 1 .. n
    <2>1. CASE i = n
      <3>1. p[i] = x
        BY <2>1 DEF x, n
      <3>2. QED
        BY <3>1, <2>1, <1>1, <1>3, <1>5
    <2>2. CASE i # n
      BY <2>2, <1>1, <1>3, <1>5
    <2>3. QED
      BY <2>1, <2>2
  <1>8. p = Append(ButLast(p), x)
    BY <1>5, <1>6, <1>7, SeqEqual
  <1>9. QED
    BY <1>1, <1>3, <1>4, <1>8 DEF n, x

LEMMA ButLastAppend ==
    ASSUME NEW S, NEW p \in Seq(S), NEW x \in S
    PROVE  /\ Append(p, x) \in Seq(S)
           /\ Append(p, x) # <<>>
           /\ Len(Append(p, x)) = Len(p) + 1
           /\ \A i \in 1 .. Len(p) : Append(p, x)[i] = p[i]
           /\ Append(p, x)[Len(p) + 1] = x
           /\ Append(p, x)[Len(Append(p, x))] = x
           /\ ButLast(Append(p, x)) = p
  <1> DEFINE q == Append(p, x)
  <1>1. /\ q \in Seq(S)
        /\ q # <<>>
        /\ Len(q) = Len(p) + 1
        /\ \A i \in 1 .. Len(p) : q[i] = p[i]
        /\ q[Len(p) + 1] = x
    BY AppendProperties
  <1> HIDE DEF q
  <1>2. /\ ButLast(q) \in Seq(S) /\ Len(ButLast(q)) = Len(q) - 1
        /\ \A i \in 1 .. Len(q) - 1 : ButLast(q)[i] = q[i]
    BY <1>1, ButLastProperties
  <1>3. Len(p) \in Nat
    BY LenProperties
  <1>4. ButLast(q) = p
    <2> DEFINE m == Len(p)  r == ButLast(q)
    <2> HIDE DEF m, r
    <2>1. Len(r) = m /\ r \in Seq(S) /\ \A i \in 1 .. m : r[i] = p[i]
      BY <1>1, <1>2, <1>3 DEF m, r
    <2>2. r = p
      BY <2>1, SeqEqual DEF m
    <2>3. QED
      BY <2>2 DEF r
  <1>5. QED
    BY <1>1, <1>4 DEF q

LEMMA PrefixAppend ==
    ASSUME NEW S, NEW s \in Seq(S), NEW u \in Seq(S), NEW x \in S
    PROVE  /\ IsPrefix(s, u) => IsPrefix(s, Append(u, x))
           /\ IsPrefix(s, s)
           /\ IsPrefix(s, Append(u, x)) => IsPrefix(s, u) \/ s = Append(u, x)
  <1> DEFINE v == Append(u, x)  k == Len(s)  n == Len(u)
  <1>1. /\ v \in Seq(S) /\ Len(v) = n + 1
        /\ \A i \in 1 .. n : v[i] = u[i]
    BY ButLastAppend
  <1>2. k \in Nat /\ n \in Nat /\ u \in [1 .. n -> S]
    BY LenProperties
  <1>3. IsPrefix(s, s)
    BY <1>2, SubSeqFull DEF IsPrefix
  <1>4. IsPrefix(s, v) /\ k = n + 1 => s = v
    BY <1>1, SubSeqFull DEF IsPrefix
  <1> HIDE DEF v
  <1>5. ASSUME k <= n
        PROVE  SubSeq(v, 1, k) = SubSeq(u, 1, k)
    <2> DEFINE a == SubSeq(v, 1, k)  b == SubSeq(u, 1, k)
    <2> HIDE DEF k, n
    <2>1. (\A i \in 1 .. k : u[i] \in S) /\ (\A i \in 1 .. k : v[i] \in S)
      BY <1>1, <1>2, <1>5
    <2>2. a \in Seq(S) /\ Len(a) = k /\ \A i \in 1 .. k : a[i] = v[i]
      BY <1>2, <2>1, SubSeqProperties
    <2>3. b \in Seq(S) /\ Len(b) = k /\ \A i \in 1 .. k : b[i] = u[i]
      BY <1>2, <2>1, SubSeqProperties
    <2> HIDE DEF a, b
    <2>4. \A i \in 1 .. Len(a) : a[i] = b[i]
      BY <1>1, <1>2, <1>5, <2>2, <2>3
    <2>5. a = b
      BY <2>2, <2>3, <2>4, SeqEqual
    <2>6. QED
      BY <2>5 DEF a, b
  <1>6. k <= n \/ k = n + 1 \/ k > n + 1
    BY <1>2
  <1>7. k <= n => (IsPrefix(s, u) <=> IsPrefix(s, v))
    BY <1>1, <1>2, <1>5 DEF IsPrefix
  <1>8. k > n => ~ IsPrefix(s, u)
    BY <1>2 DEF IsPrefix
  <1>9. k > n + 1 => ~ IsPrefix(s, v)
    BY <1>1, <1>2 DEF IsPrefix
  <1> HIDE DEF k, n
  <1>11. (k <= n \/ k > n) /\ (k <= n \/ k = n + 1 \/ k > n + 1)
    BY <1>2
  <1>10. QED
    BY <1>3, <1>4, <1>7, <1>8, <1>9, <1>11 DEF v

-----------------------------------------------------------------------------
(* The directory that is at a place in a tree.                             *)
Trail(tr, p, ds) ==
    /\ ds[0] = Root
    /\ \A i \in 1 .. Len(p) : p[i] \in Name /\ tr[ds[i - 1]][p[i]] = DirectoryEntry(ds[i])

LeadsTo(tr, p, d) ==
    \E ds \in [0 .. Len(p) -> Dir] : Trail(tr, p, ds) /\ ds[Len(p)] = d

LEMMA LeadsToRoot ==
    ASSUME NEW tr, NEW d
    PROVE  LeadsTo(tr, <<>>, d) <=> d = Root
  <1>1. Len(<<>>) = 0
    BY EmptySeq
  <1>2. ASSUME d = Root
        PROVE  LeadsTo(tr, <<>>, d)
    <2> DEFINE ds == [i \in 0 .. 0 |-> Root]
    <2>0. Root \in Dir
      BY ConstantTypes
    <2>1. ds \in [0 .. 0 -> Dir] /\ ds[0] = Root
      BY <2>0
    <2>2. Trail(tr, <<>>, ds)
      BY <1>1, <2>1 DEF Trail
    <2> HIDE DEF ds
    <2>3. QED
      BY <1>1, <1>2, <2>1, <2>2 DEF LeadsTo
  <1>3. QED
    BY <1>1, <1>2 DEF LeadsTo, Trail

Under(tr, p, c, e) ==
    \E d \in Dir : LeadsTo(tr, p, d) /\ tr[d][c] = DirectoryEntry(e)

LEMMA LeadsToAppend ==
    ASSUME NEW tr, NEW S, NEW p \in Seq(S), NEW c \in S, NEW e
    PROVE  LeadsTo(tr, Append(p, c), e) <=>
             c \in Name /\ e \in Dir /\ Under(tr, p, c, e)
  <1> DEFINE q == Append(p, c)  n == Len(p)
  <1>1. /\ q \in Seq(S) /\ Len(q) = n + 1
        /\ \A i \in 1 .. n : q[i] = p[i]
        /\ q[n + 1] = c
    BY ButLastAppend
  <1>2. n \in Nat
    BY LenProperties
  <1> HIDE DEF q
  <1>3. ASSUME c \in Name, e \in Dir, NEW d \in Dir, LeadsTo(tr, p, d),
               tr[d][c] = DirectoryEntry(e)
        PROVE  LeadsTo(tr, q, e)
    <2>1. PICK ds \in [0 .. n -> Dir] : Trail(tr, p, ds) /\ ds[n] = d
      BY <1>3 DEF LeadsTo
    <2> DEFINE dt == [i \in 0 .. n + 1 |-> IF i = n + 1 THEN e ELSE ds[i]]
    <2> HIDE DEF n
    <2>2. dt \in [0 .. n + 1 -> Dir] /\ dt[n + 1] = e /\ \A i \in 0 .. n : dt[i] = ds[i]
      BY <1>2, <1>3
    <2> HIDE DEF dt
    <2>3. dt[0] = Root
      BY <1>2, <2>1, <2>2 DEF Trail
    <2>4. ASSUME NEW i \in 1 .. n + 1
          PROVE  q[i] \in Name /\ tr[dt[i - 1]][q[i]] = DirectoryEntry(dt[i])
      <3>1. CASE i = n + 1
        <4>1. i - 1 = n /\ dt[n] = d
          BY <3>1, <1>2, <2>1, <2>2
        <4>2. QED
          BY <3>1, <4>1, <1>1, <1>3, <2>2
      <3>2. CASE i \in 1 .. n
        <4>1. p[i] \in Name /\ tr[ds[i - 1]][p[i]] = DirectoryEntry(ds[i])
          BY <3>2, <2>1 DEF Trail, n
        <4>2. dt[i - 1] = ds[i - 1] /\ dt[i] = ds[i] /\ q[i] = p[i]
          BY <3>2, <2>2, <1>1, <1>2
        <4>3. QED
          BY <4>1, <4>2
      <3>3. QED
        BY <3>1, <3>2, <1>2
    <2>5. Trail(tr, q, dt)
      BY <1>1, <2>3, <2>4 DEF Trail
    <2>6. QED
      BY <1>1, <2>2, <2>5 DEF LeadsTo
  <1>4. ASSUME LeadsTo(tr, q, e)
        PROVE  c \in Name /\ e \in Dir /\ Under(tr, p, c, e)
    <2>1. PICK ds \in [0 .. n + 1 -> Dir] : Trail(tr, q, ds) /\ ds[n + 1] = e
      BY <1>1, <1>4 DEF LeadsTo
    <2> DEFINE dt == [i \in 0 .. n |-> ds[i]]
    <2> HIDE DEF n
    <2>2. dt \in [0 .. n -> Dir] /\ \A i \in 0 .. n : dt[i] = ds[i]
      BY <1>2
    <2> HIDE DEF dt
    <2>3. \A i \in 1 .. n + 1 : q[i] \in Name /\ tr[ds[i - 1]][q[i]] = DirectoryEntry(ds[i])
      BY <1>1, <2>1 DEF Trail
    <2>4. c \in Name /\ tr[ds[n]][c] = DirectoryEntry(e) /\ e \in Dir /\ ds[n] \in Dir
      <3>1. n + 1 \in 1 .. n + 1 /\ n + 1 - 1 = n /\ n + 1 \in 0 .. n + 1 /\ n \in 0 .. n + 1
        BY <1>2
      <3>2. q[n + 1] \in Name /\ tr[ds[n]][q[n + 1]] = DirectoryEntry(ds[n + 1])
        BY <3>1, <2>3
      <3>3. ds[n] \in Dir /\ ds[n + 1] \in Dir
        BY <3>1
      <3>4. QED
        BY <3>2, <3>3, <1>1, <2>1
    <2>5. ASSUME NEW i \in 1 .. n
          PROVE  p[i] \in Name /\ tr[dt[i - 1]][p[i]] = DirectoryEntry(dt[i])
      <3>1. i \in 1 .. n + 1 /\ i - 1 \in 0 .. n /\ i \in 0 .. n
        BY <1>2
      <3>2. QED
        BY <3>1, <1>1, <2>2, <2>3
    <2>6. dt[0] = Root
      BY <1>2, <2>1, <2>2 DEF Trail
    <2>7. Trail(tr, p, dt)
      BY <2>5, <2>6 DEF Trail, n
    <2>8. dt[n] = ds[n]
      BY <1>2, <2>2
    <2>9. LeadsTo(tr, p, ds[n])
      BY <2>2, <2>7, <2>8 DEF LeadsTo, n
    <2>10. QED
      BY <2>4, <2>9 DEF Under
  <1>5. QED
    BY <1>3, <1>4 DEF q, Under

LEMMA LeadsToLast ==
    ASSUME NEW tr, NEW p \in Seq(Word), p # <<>>, NEW d, LeadsTo(tr, p, d)
    PROVE  /\ ButLast(p) \in Seq(Word) /\ Len(ButLast(p)) = Len(p) - 1
           /\ p = Append(ButLast(p), p[Len(p)]) /\ p[Len(p)] \in Name
           /\ d \in Dir
  <1> DEFINE q == ButLast(p)  c == p[Len(p)]
  <1>1. q \in Seq(Word) /\ c \in Word /\ p = Append(q, c)
    BY ButLastProperties
  <1> HIDE DEF q, c
  <1>2. LeadsTo(tr, Append(q, c), d)
    BY <1>1
  <1>3. c \in Name /\ d \in Dir
    BY <1>1, <1>2, LeadsToAppend
  <1>4. Len(ButLast(p)) = Len(p) - 1
    BY ButLastProperties
  <1>5. QED
    BY <1>1, <1>3, <1>4 DEF q, c

LEMMA LeadsToParent ==
    ASSUME NEW tr, NEW p \in Seq(Word), p # <<>>, NEW d, LeadsTo(tr, p, d)
    PROVE  Under(tr, ButLast(p), p[Len(p)], d)
  <1> DEFINE q == ButLast(p)  c == p[Len(p)]
  <1>1. q \in Seq(Word) /\ c \in Word /\ p = Append(q, c)
    BY ButLastProperties
  <1> HIDE DEF q, c
  <1>2. LeadsTo(tr, Append(q, c), d)
    BY <1>1
  <1>3. Under(tr, q, c, d)
    BY <1>1, <1>2, LeadsToAppend
  <1>4. QED
    BY <1>3 DEF q, c

LEMMA LeadsToOther ==
    ASSUME NEW tr, IsTree(tr), NEW p \in Seq(Word), p # <<>>, NEW d, LeadsTo(tr, p, d)
    PROVE  d # Root
  <1>1. PICK x \in Dir : tr[x][p[Len(p)]] = DirectoryEntry(d)
    BY LeadsToParent DEF Under
  <1>2. p[Len(p)] \in Name
    BY LeadsToLast, Zenon
  <1>3. QED
    BY <1>1, <1>2 DEF IsTree

(* A place leads to one directory, which is part of the tree.              *)
LEMMA LeadsToUnique ==
    ASSUME NEW tr, IsTree(tr)
    PROVE  \A p \in Seq(Word) : \A d, e :
              LeadsTo(tr, p, d) /\ LeadsTo(tr, p, e) => d = e /\ d \in Linked(tr)
  <1> DEFINE P(p) == \A d, e : LeadsTo(tr, p, d) /\ LeadsTo(tr, p, e)
                                 => d = e /\ d \in Linked(tr)
             S == {k \in Nat : \A p \in Seq(Word) : Len(p) = k => P(p)}
  <1>1. P(<<>>)
    BY LeadsToRoot, IsTreeContents, LinkedClosed
  <1>2. ASSUME NEW p \in Seq(Word), p # <<>>, P(ButLast(p))
        PROVE  P(p)
    <2> SUFFICES ASSUME NEW d, NEW e, LeadsTo(tr, p, d), LeadsTo(tr, p, e)
                 PROVE  d = e /\ d \in Linked(tr)
      OBVIOUS
    <2> DEFINE q == ButLast(p)  c == p[Len(p)]
    <2>1. c \in Name /\ d \in Dir /\ e \in Dir
      BY <1>2, LeadsToLast, Zenon
    <2>0. Under(tr, q, c, d) /\ Under(tr, q, c, e) /\ P(q)
      BY <1>2, LeadsToParent
    <2> HIDE DEF q, c, P
    <2>2. PICK x \in Dir : LeadsTo(tr, q, x) /\ tr[x][c] = DirectoryEntry(d)
      BY <2>0, Zenon DEF Under
    <2>3. PICK y \in Dir : LeadsTo(tr, q, y) /\ tr[y][c] = DirectoryEntry(e)
      BY <2>0, Zenon DEF Under
    <2>4. x = y
      BY <2>0, <2>2, <2>3, Zenon DEF P
    <2>5. d = e
      BY <2>2, <2>3, <2>4, EntryTypes
    <2>6. d \in Linked(tr)
      BY <2>1, <2>2, NothingRefersToNew
    <2>7. QED
      BY <2>5, <2>6
  <1> HIDE DEF P
  <1>3. 0 \in S
    BY <1>1, EmptySeq
  <1>4. ASSUME NEW k \in S
        PROVE  k + 1 \in S
    BY <1>2, EmptySeq, ButLastProperties
  <1>5. S \in SUBSET Nat
    OBVIOUS
  <1> HIDE DEF S
  <1>6. S = Nat
    BY <1>3, <1>4, <1>5, SetInduction
  <1>7. \A p \in Seq(Word) : P(p)
    BY <1>6, LenProperties DEF S
  <1>8. QED
    BY <1>7 DEF P

(* A directory is in one place.                                            *)
LEMMA PlaceUnique ==
    ASSUME NEW tr, IsTree(tr)
    PROVE  \A p, q \in Seq(Word) : \A d :
              LeadsTo(tr, p, d) /\ LeadsTo(tr, q, d) => p = q
  <1> DEFINE P(p) == \A q \in Seq(Word) : \A d :
                        LeadsTo(tr, p, d) /\ LeadsTo(tr, q, d) => p = q
             S == {k \in Nat : \A p \in Seq(Word) : Len(p) = k => P(p)}
  <1>1. P(<<>>)
    BY LeadsToRoot, LeadsToOther
  <1>2. ASSUME NEW p \in Seq(Word), p # <<>>, P(ButLast(p))
        PROVE  P(p)
    <2> SUFFICES ASSUME NEW q \in Seq(Word), NEW d, LeadsTo(tr, p, d), LeadsTo(tr, q, d)
                 PROVE  p = q
      OBVIOUS
    <2>1. q # <<>>
      BY <1>2, LeadsToRoot, LeadsToOther
    <2> DEFINE b == p[Len(p)]  c == q[Len(q)]
    <2>2. /\ b \in Name /\ c \in Name /\ d \in Dir
          /\ ButLast(q) \in Seq(Word)
          /\ p = Append(ButLast(p), b)
          /\ q = Append(ButLast(q), c)
      BY <1>2, <2>1, LeadsToLast, Zenon
    <2>0. Under(tr, ButLast(p), b, d) /\ Under(tr, ButLast(q), c, d)
      BY <1>2, <2>1, LeadsToParent
    <2> HIDE DEF b, c
    <2>3. PICK x \in Dir : LeadsTo(tr, ButLast(p), x) /\ tr[x][b] = DirectoryEntry(d)
      BY <2>0, Zenon DEF Under
    <2>4. PICK y \in Dir : LeadsTo(tr, ButLast(q), y) /\ tr[y][c] = DirectoryEntry(d)
      BY <2>0, Zenon DEF Under
    <2>5. x = y /\ b = c
      BY <2>2, <2>3, <2>4, TreeUnique
    <2>6. ButLast(p) = ButLast(q)
      BY <1>2, <2>2, <2>3, <2>4, <2>5
    <2>7. QED
      BY <2>2, <2>5, <2>6
  <1> HIDE DEF P
  <1>3. 0 \in S
    BY <1>1, EmptySeq
  <1>4. ASSUME NEW k \in S
        PROVE  k + 1 \in S
    BY <1>2, EmptySeq, ButLastProperties
  <1>5. S \in SUBSET Nat
    OBVIOUS
  <1> HIDE DEF S
  <1>6. S = Nat
    BY <1>3, <1>4, <1>5, SetInduction
  <1>7. \A p \in Seq(Word) : P(p)
    BY <1>6, LenProperties DEF S
  <1>8. QED
    BY <1>7 DEF P

(* What remains in place when a directory entry changes.                   *)
LEMMA EntryKept ==
    ASSUME NEW tr, NEW tr2, NEW T, NEW c, NEW New, IsTree(tr), Changed(tr, tr2, T, c, New),
           NEW d \in Linked(tr), d \in Linked(Pruned(tr2)), NEW n \in Name,
           ~ (d = T /\ n = c)
    PROVE  Pruned(tr2)[d][n] = tr[d][n]
  <1>1. tr \in Contents /\ tr2 \in Contents /\ d \in Dir /\ d \notin New
    BY IsTreeContents, LinkedClosed DEF Changed
  <1>2. d \in Linked(tr2)
    BY <1>1, PrunedLinked
  <1>3. tr2[d][n] = tr[d][n]
    BY <1>1 DEF Changed
  <1>4. QED
    BY <1>1, <1>2, <1>3 DEF Pruned

LEMMA LeadsToKept ==
    ASSUME NEW tr, NEW tr2, NEW T, NEW c, NEW New, IsTree(tr), Changed(tr, tr2, T, c, New),
           NEW q \in Seq(Word), LeadsTo(tr, q, T)
    PROVE  \A p \in Seq(Word) : \A d :
              /\ LeadsTo(tr, p, d)
              /\ tr[T][c].type # "directory" \/ ~ IsPrefix(Append(q, c), p)
              => LeadsTo(Pruned(tr2), p, d)
  <1> DEFINE X == Append(q, c)
             P(p) == \A d : /\ LeadsTo(tr, p, d)
                            /\ tr[T][c].type # "directory" \/ ~ IsPrefix(X, p)
                            => LeadsTo(Pruned(tr2), p, d)
             S == {k \in Nat : \A p \in Seq(Word) : Len(p) = k => P(p)}
  <1>0. X \in Seq(Word) /\ c \in Name /\ T \in Dir /\ IsTree(Pruned(tr2))
    <2>1. c \in Name /\ c \in Word /\ T \in Linked(tr)
      BY ConstantTypes DEF Changed
    <2>2. QED
      BY <2>1, ButLastAppend, ChangedTree, IsTreeContents, LinkedClosed
  <1>1. P(<<>>)
    BY LeadsToRoot
  <1>2. ASSUME NEW p \in Seq(Word), p # <<>>, P(ButLast(p))
        PROVE  P(p)
    <2> SUFFICES ASSUME NEW d, LeadsTo(tr, p, d),
                        tr[T][c].type # "directory" \/ ~ IsPrefix(X, p)
                 PROVE  LeadsTo(Pruned(tr2), p, d)
      OBVIOUS
    <2> DEFINE r == ButLast(p)  n == p[Len(p)]
    <2>1. Under(tr, r, n, d) /\ P(r)
      BY <1>2, LeadsToParent
    <2>2. r \in Seq(Word) /\ p = Append(r, n) /\ n \in Name /\ n \in Word /\ d \in Dir
      BY <1>2, LeadsToLast, ConstantTypes
    <2> HIDE DEF r, n, P, X
    <2>3. PICK x \in Dir : LeadsTo(tr, r, x) /\ tr[x][n] = DirectoryEntry(d)
      BY <2>1, Zenon DEF Under
    <2>4. ~ IsPrefix(X, p) => ~ IsPrefix(X, r)
      BY <1>0, <2>2, PrefixAppend
    <2>5. LeadsTo(Pruned(tr2), r, x)
      BY <2>1, <2>3, <2>4 DEF P
    <2>6. x \in Linked(tr) /\ x \in Linked(Pruned(tr2))
      BY <1>0, <2>2, <2>3, <2>5, LeadsToUnique
    <2>7. ~ (x = T /\ n = c)
      <3>1. SUFFICES ASSUME x = T, n = c
                     PROVE  FALSE
        OBVIOUS
      <3>2. tr[T][c].type = "directory"
        BY <3>1, <2>3, EntryTypes
      <3>3. r = q
        BY <3>1, <2>2, <2>3, PlaceUnique
      <3>4. p = X
        BY <3>1, <3>3, <2>2 DEF X
      <3>5. IsPrefix(X, p)
        BY <3>4, <1>0, <2>2, PrefixAppend
      <3>6. QED
        BY <3>2, <3>5
    <2>8. Pruned(tr2)[x][n] = DirectoryEntry(d)
      BY <2>2, <2>3, <2>6, <2>7, EntryKept
    <2>9. Under(Pruned(tr2), r, n, d)
      BY <2>5, <2>8 DEF Under
    <2>10. LeadsTo(Pruned(tr2), Append(r, n), d)
      BY <2>2, <2>9, LeadsToAppend
    <2>11. QED
      BY <2>2, <2>10
  <1> HIDE DEF P
  <1>3. 0 \in S
    BY <1>1, EmptySeq
  <1>4. ASSUME NEW k \in S
        PROVE  k + 1 \in S
    BY <1>2, EmptySeq, ButLastProperties
  <1>5. S \in SUBSET Nat
    OBVIOUS
  <1> HIDE DEF S
  <1>6. S = Nat
    BY <1>3, <1>4, <1>5, SetInduction
  <1>7. \A p \in Seq(Word) : P(p)
    BY <1>6, LenProperties DEF S
  <1>8. QED
    BY <1>7 DEF P

(* What is not a directory stays if it is not what changes, and if nothing *)
(* changes above it.                                                       *)
AtPlace(tr, p, e) == \E d \in Dir : LeadsTo(tr, ButLast(p), d) /\ tr[d][p[Len(p)]] = e

LEMMA AtPlaceKept ==
    ASSUME NEW tr, NEW tr2, NEW T, NEW c, NEW New, IsTree(tr), Changed(tr, tr2, T, c, New),
           NEW q \in Seq(Word), LeadsTo(tr, q, T),
           NEW p \in Seq(Name), p # <<>>, NEW e, AtPlace(tr, p, e),
           ~ IsPrefix(Append(q, c), p) \/ (tr[T][c].type # "directory" /\ Append(q, c) # p)
    PROVE  AtPlace(Pruned(tr2), p, e)
  <1> DEFINE r == ButLast(p)  n == p[Len(p)]  X == Append(q, c)
  <1>1. r \in Seq(Name) /\ p = Append(r, n) /\ n \in Name
    BY ButLastProperties
  <1>2. r \in Seq(Word) /\ n \in Word /\ p \in Seq(Word) /\ Name \subseteq Word
    BY <1>1, ConstantTypes, SeqMonotonic
  <1>3. PICK x \in Dir : LeadsTo(tr, r, x) /\ tr[x][n] = e
    BY DEF AtPlace
  <1>4. c \in Name /\ c \in Word
    BY ConstantTypes DEF Changed
  <1> HIDE DEF r, n, X
  <1>5. X \in Seq(Word)
    BY <1>4, ButLastAppend DEF X
  <1>6. ~ IsPrefix(X, p) => ~ IsPrefix(X, r) /\ X # p
    BY <1>1, <1>2, <1>5, PrefixAppend
  <1>7. LeadsTo(Pruned(tr2), r, x)
    BY <1>2, <1>3, <1>6, LeadsToKept DEF X
  <1>8. IsTree(Pruned(tr2))
    BY ChangedTree
  <1>9. x \in Linked(tr) /\ x \in Linked(Pruned(tr2))
    BY <1>2, <1>3, <1>7, <1>8, LeadsToUnique
  <1>10. ~ (x = T /\ n = c)
    <2>1. SUFFICES ASSUME x = T, n = c
                   PROVE  FALSE
      OBVIOUS
    <2>2. r = q
      BY <2>1, <1>2, <1>3, PlaceUnique
    <2>3. p = X
      BY <2>1, <2>2, <1>1 DEF X
    <2>4. QED
      BY <2>3, <1>6 DEF X
  <1>11. Pruned(tr2)[x][n] = e
    BY <1>1, <1>3, <1>9, <1>10, EntryKept
  <1>12. QED
    BY <1>7, <1>11 DEF AtPlace, r, n

-----------------------------------------------------------------------------
(* The places that a path goes through.                                    *)
PlaceStep(before, x) ==
    CASE x = "" -> before
      [] x = ".." -> SubSeq(before, 1, Len(before) - 1)
      [] OTHER -> Append(before, x)

PlacesUpTo(c, m, place) ==
    place = [i \in 0 .. m |-> IF i = 0 THEN <<>> ELSE PlaceStep(place[i - 1], c[i])]

LEMMA PlacesExist ==
    ASSUME NEW c
    PROVE  \A m \in Nat : \E place : PlacesUpTo(c, m, place)
  <1> DEFINE S == {m \in Nat : \E place : PlacesUpTo(c, m, place)}
  <1>1. 0 \in S
    <2> DEFINE f == [i \in 0 .. 0 |-> <<>>]
    <2>1. f = [i \in 0 .. 0 |-> IF i = 0 THEN <<>> ELSE PlaceStep(f[i - 1], c[i])]
      OBVIOUS
    <2>2. PlacesUpTo(c, 0, f)
      BY <2>1 DEF PlacesUpTo
    <2>3. QED
      BY <2>2
  <1>2. ASSUME NEW m \in S
        PROVE  m + 1 \in S
    <2>1. PICK f : PlacesUpTo(c, m, f)
      OBVIOUS
    <2> DEFINE g == [i \in 0 .. m + 1 |-> IF i = m + 1 THEN PlaceStep(f[m], c[m + 1])
                                          ELSE f[i]]
               h == [i \in 0 .. m + 1 |-> IF i = 0 THEN <<>>
                                          ELSE PlaceStep(g[i - 1], c[i])]
    <2>2. m \in Nat
      OBVIOUS
    <2>3. \A i \in 0 .. m : f[i] = IF i = 0 THEN <<>> ELSE PlaceStep(f[i - 1], c[i])
      BY <2>1 DEF PlacesUpTo
    <2>4. ASSUME NEW i \in 0 .. m + 1
          PROVE  g[i] = h[i]
      <3>1. CASE i = m + 1
        <4>1. i # 0 /\ i - 1 = m /\ m \in 0 .. m + 1 /\ m # m + 1
          BY <3>1, <2>2
        <4>2. g[i] = PlaceStep(f[m], c[m + 1]) /\ g[m] = f[m]
          BY <3>1, <4>1
        <4>3. h[i] = PlaceStep(g[m], c[m + 1])
          BY <3>1, <4>1
        <4>4. QED
          BY <4>2, <4>3
      <3>2. CASE i # m + 1
        <4>1. i \in 0 .. m /\ (i # 0 => i - 1 \in 0 .. m + 1 /\ i - 1 # m + 1)
          BY <3>2, <2>2
        <4>2. i # 0 => g[i - 1] = f[i - 1]
          BY <4>1
        <4>3. g[i] = f[i]
          BY <3>2, <4>1
        <4>4. h[i] = IF i = 0 THEN <<>> ELSE PlaceStep(f[i - 1], c[i])
          BY <4>2
        <4>5. QED
          BY <2>3, <4>1, <4>3, <4>4
      <3>3. QED
        BY <3>1, <3>2
    <2>5. g = h
      BY <2>4
    <2>6. PlacesUpTo(c, m + 1, g)
      BY <2>5 DEF PlacesUpTo
    <2>7. QED
      BY <2>2, <2>6
  <1>3. S \in SUBSET Nat
    OBVIOUS
  <1> HIDE DEF S
  <1>4. S = Nat
    BY <1>1, <1>2, <1>3, SetInduction
  <1>5. QED
    BY <1>4 DEF S

LEMMA PlaceFunction ==
    ASSUME NEW p \in Path
    PROVE  PlacesUpTo(p.components, Len(p.components), Place(p))
  <1> DEFINE c == p.components
  <1>1. Len(c) \in Nat
    BY LenProperties DEF Path
  <1>2. Place(p) = CHOOSE place : PlacesUpTo(c, Len(c), place)
    BY Zenon DEF Place, PlacesUpTo, PlaceStep
  <1>3. \E place : PlacesUpTo(c, Len(c), place)
    BY <1>1, PlacesExist
  <1>4. QED
    BY <1>2, <1>3

Comps(p) == p.components

LEMMA PathTypes ==
    ASSUME NEW p \in Path
    PROVE  Comps(p) \in Seq(Word) /\ Len(Comps(p)) \in Nat /\ p.absolute \in BOOLEAN
  BY LenProperties DEF Path, Comps, Word

LEMMA PlaceEquations ==
    ASSUME NEW p \in Path
    PROVE  /\ Place(p)[0] = <<>>
           /\ \A i \in 0 .. Len(Comps(p)) - 1 :
                 /\ Comps(p)[i + 1] = "" => Place(p)[i + 1] = Place(p)[i]
                 /\ Comps(p)[i + 1] = ".." => Place(p)[i + 1] = ButLast(Place(p)[i])
                 /\ Comps(p)[i + 1] # "" /\ Comps(p)[i + 1] # ".." =>
                      Place(p)[i + 1] = Append(Place(p)[i], Comps(p)[i + 1])
  <1> DEFINE n == Len(Comps(p))  f == Place(p)  c == Comps(p)
  <1>1. n \in Nat
    BY PathTypes
  <1>2. f = [i \in 0 .. n |-> IF i = 0 THEN <<>> ELSE PlaceStep(f[i - 1], c[i])]
    BY PlaceFunction DEF PlacesUpTo, Comps
  <1> HIDE DEF n, f, c
  <1>3. f[0] = <<>>
    BY <1>1, <1>2
  <1>4. ASSUME NEW i \in 0 .. n - 1
        PROVE  f[i + 1] = PlaceStep(f[i], c[i + 1])
    <2>1. i + 1 \in 0 .. n /\ i + 1 # 0 /\ i + 1 - 1 = i
      BY <1>1
    <2>2. f[i + 1] = PlaceStep(f[i + 1 - 1], c[i + 1])
      BY <1>2, <2>1
    <2>3. QED
      BY <2>1, <2>2
  <1>5. QED
    BY <1>3, <1>4 DEF n, f, c, PlaceStep, ButLast

LEMMA ButLastType ==
    ASSUME NEW S, NEW q \in Seq(S)
    PROVE  ButLast(q) \in Seq(S) /\ (q = <<>> => ButLast(q) = <<>>)
  <1>1. CASE q = <<>>
    <2>1. ButLast(q) = <<>>
      BY <1>1, SubSeqEmpty, EmptySeq DEF ButLast
    <2>2. QED
      BY <1>1, <2>1
  <1>2. CASE q # <<>>
    BY <1>2, ButLastProperties
  <1>3. QED
    BY <1>1, <1>2

LEMMA PlaceType ==
    ASSUME NEW p \in Path
    PROVE  \A i \in 0 .. Len(Comps(p)) : Place(p)[i] \in Seq(Word)
  <1> DEFINE n == Len(Comps(p))  f == Place(p)  c == Comps(p)
             S == {i \in Nat : i <= n => f[i] \in Seq(Word)}
  <1>1. n \in Nat /\ c \in Seq(Word) /\ c \in [1 .. n -> Word]
    BY PathTypes, LenProperties
  <1>2. 0 \in S
    BY PlaceEquations, EmptySeq
  <1>3. ASSUME NEW i \in S
        PROVE  i + 1 \in S
    <2>1. SUFFICES ASSUME i + 1 <= n
                   PROVE  f[i + 1] \in Seq(Word)
      OBVIOUS
    <2>2. i \in Nat /\ i + 1 \in 1 .. n /\ i \in 0 .. n - 1 /\ f[i] \in Seq(Word)
      BY <1>1, <2>1
    <2>3. c[i + 1] \in Word
      BY <1>1, <2>2
    <2>4. \/ f[i + 1] = f[i]
          \/ f[i + 1] = ButLast(f[i])
          \/ f[i + 1] = Append(f[i], c[i + 1])
      BY <2>2, PlaceEquations
    <2> HIDE DEF f, n, c
    <2>5. ButLast(f[i]) \in Seq(Word) /\ Append(f[i], c[i + 1]) \in Seq(Word)
      BY <2>2, <2>3, ButLastType, ButLastAppend
    <2>6. QED
      BY <2>2, <2>4, <2>5
  <1>4. S \in SUBSET Nat
    OBVIOUS
  <1> HIDE DEF S
  <1>5. S = Nat
    BY <1>2, <1>3, <1>4, SetInduction
  <1>6. QED
    BY <1>1, <1>5 DEF S

(* Everything above a place that a path goes through is such a place too.  *)
LEMMA PlacePrefix ==
    ASSUME NEW p \in Path
    PROVE  \A i \in 0 .. Len(Comps(p)) : \A X \in Seq(Word) :
              IsPrefix(X, Place(p)[i]) => \E j \in 0 .. i : X = Place(p)[j]
  <1> DEFINE n == Len(Comps(p))  f == Place(p)  c == Comps(p)
             Q(i) == \A X \in Seq(Word) : IsPrefix(X, f[i]) => \E j \in 0 .. i : X = f[j]
             S == {i \in Nat : i <= n => Q(i)}
  <1>1. n \in Nat /\ c \in Seq(Word) /\ c \in [1 .. n -> Word]
    BY PathTypes, LenProperties
  <1>2. 0 \in S
    <2>1. ASSUME NEW X \in Seq(Word), IsPrefix(X, f[0])
          PROVE  X = f[0]
      <3>1. f[0] = <<>>
        BY PlaceEquations
      <3>2. Len(X) \in Nat /\ Len(X) <= 0
        BY <2>1, <3>1, LenProperties, EmptySeq DEF IsPrefix
      <3>3. X = <<>>
        BY <3>2, EmptySeq
      <3>4. QED
        BY <3>1, <3>3
    <2>2. Q(0)
      BY <2>1
    <2>3. QED
      BY <2>2
  <1>3. ASSUME NEW i \in S
        PROVE  i + 1 \in S
    <2>1. SUFFICES ASSUME i + 1 <= n
                   PROVE  Q(i + 1)
      OBVIOUS
    <2>2. i \in Nat /\ i + 1 \in 1 .. n /\ i \in 0 .. n - 1 /\ i \in 0 .. n /\ Q(i)
      BY <1>1, <2>1
    <2>3. SUFFICES ASSUME NEW X \in Seq(Word), IsPrefix(X, f[i + 1])
                   PROVE  \E j \in 0 .. i + 1 : X = f[j]
      OBVIOUS
    <2>4. c[i + 1] \in Word /\ f[i] \in Seq(Word)
      BY <1>1, <2>2, PlaceType
    <2>5. \/ f[i + 1] = f[i]
          \/ f[i + 1] = ButLast(f[i])
          \/ f[i + 1] = Append(f[i], c[i + 1])
      BY <2>2, PlaceEquations
    <2> HIDE DEF f, n, c, Q
    <2>6. IsPrefix(X, ButLast(f[i])) => IsPrefix(X, f[i])
      <3>1. CASE f[i] = <<>>
        BY <3>1, <2>4, ButLastType
      <3>2. CASE f[i] # <<>>
        <4> DEFINE q == f[i]  b == ButLast(f[i])  x == f[i][Len(f[i])]
        <4>1. q = Append(b, x) /\ b \in Seq(Word) /\ x \in Word
          BY <3>2, <2>4, ButLastProperties
        <4> HIDE DEF q, b, x
        <4>2. IsPrefix(X, b) => IsPrefix(X, Append(b, x))
          BY <4>1, PrefixAppend
        <4>3. QED
          BY <4>1, <4>2 DEF q, b
      <3>3. QED
        BY <3>1, <3>2
    <2>7. IsPrefix(X, Append(f[i], c[i + 1])) => IsPrefix(X, f[i]) \/ X = Append(f[i], c[i + 1])
      BY <2>4, PrefixAppend
    <2>8. IsPrefix(X, f[i]) \/ X = f[i + 1]
      BY <2>3, <2>5, <2>6, <2>7
    <2>9. CASE IsPrefix(X, f[i])
      <3>1. PICK j \in 0 .. i : X = f[j]
        BY <2>2, <2>9 DEF Q
      <3>2. j \in 0 .. i + 1
        BY <2>2
      <3>3. QED
        BY <3>1, <3>2
    <2>10. CASE X = f[i + 1]
      BY <2>2, <2>10
    <2>11. QED
      BY <2>8, <2>9, <2>10
  <1>4. S \in SUBSET Nat
    OBVIOUS
  <1> HIDE DEF S
  <1>5. S = Nat
    BY <1>2, <1>3, <1>4, SetInduction
  <1>6. QED
    BY <1>1, <1>5 DEF S

-----------------------------------------------------------------------------
(* What is at a place, by its definition and in terms of LeadsTo.          *)
EntryStep(tr, before, n) == IF before.type = "directory" THEN tr[before.dir][n] ELSE None

EntriesUpTo(tr, p, m, entry) ==
    entry = [i \in 1 .. m |-> IF i = 1 THEN tr[Root][p[1]]
                              ELSE EntryStep(tr, entry[i - 1], p[i])]

LEMMA EntriesExist ==
    ASSUME NEW tr, NEW p
    PROVE  \A m \in Nat : \E entry : EntriesUpTo(tr, p, m, entry)
  <1> DEFINE First == tr[Root][p[1]]
             S == {m \in Nat : \E entry : EntriesUpTo(tr, p, m, entry)}
  <1>1. 0 \in S
    <2> DEFINE f == [i \in 1 .. 0 |-> First]
    <2>1. f = [i \in 1 .. 0 |-> IF i = 1 THEN First ELSE EntryStep(tr, f[i - 1], p[i])]
      OBVIOUS
    <2>2. EntriesUpTo(tr, p, 0, f)
      BY <2>1 DEF EntriesUpTo
    <2>3. QED
      BY <2>2
  <1>2. ASSUME NEW m \in S
        PROVE  m + 1 \in S
    <2>1. PICK f : EntriesUpTo(tr, p, m, f)
      OBVIOUS
    <2> DEFINE New == IF m = 0 THEN First ELSE EntryStep(tr, f[m], p[m + 1])
               g == [i \in 1 .. m + 1 |-> IF i = m + 1 THEN New ELSE f[i]]
               h == [i \in 1 .. m + 1 |-> IF i = 1 THEN First
                                          ELSE EntryStep(tr, g[i - 1], p[i])]
    <2>2. m \in Nat
      OBVIOUS
    <2>3. \A i \in 1 .. m : f[i] = IF i = 1 THEN First ELSE EntryStep(tr, f[i - 1], p[i])
      BY <2>1 DEF EntriesUpTo
    <2> HIDE DEF First
    <2>4. ASSUME NEW i \in 1 .. m + 1
          PROVE  g[i] = h[i]
      <3>1. CASE i = m + 1 /\ m # 0
        <4>1. i # 1 /\ i - 1 = m /\ m \in 1 .. m + 1 /\ m # m + 1
          BY <3>1, <2>2
        <4>2. g[i] = EntryStep(tr, f[m], p[m + 1]) /\ g[m] = f[m]
          BY <3>1, <4>1
        <4>3. h[i] = EntryStep(tr, g[m], p[m + 1])
          BY <3>1, <4>1
        <4>4. QED
          BY <4>2, <4>3
      <3>2. CASE i = m + 1 /\ m = 0
        BY <3>2
      <3>3. CASE i # m + 1
        <4>1. i \in 1 .. m /\ (i # 1 => i - 1 \in 1 .. m + 1 /\ i - 1 # m + 1)
          BY <3>3, <2>2
        <4>2. i # 1 => g[i - 1] = f[i - 1]
          BY <4>1
        <4>3. g[i] = f[i]
          BY <3>3, <4>1
        <4>4. h[i] = IF i = 1 THEN First ELSE EntryStep(tr, f[i - 1], p[i])
          BY <4>2
        <4>5. QED
          BY <2>3, <4>1, <4>3, <4>4
      <3>4. QED
        BY <3>1, <3>2, <3>3
    <2>5. g = h
      BY <2>4
    <2>6. EntriesUpTo(tr, p, m + 1, g)
      BY <2>5 DEF EntriesUpTo, First
    <2>7. QED
      BY <2>2, <2>6
  <1>3. S \in SUBSET Nat
    OBVIOUS
  <1> HIDE DEF S
  <1>4. S = Nat
    BY <1>1, <1>2, <1>3, SetInduction
  <1>5. QED
    BY <1>4 DEF S

LEMMA SubSeqNext ==
    ASSUME NEW S, NEW p \in Seq(S), NEW i \in 0 .. Len(p) - 1
    PROVE  /\ SubSeq(p, 1, i) \in Seq(S)
           /\ p[i + 1] \in S
           /\ SubSeq(p, 1, i + 1) = Append(SubSeq(p, 1, i), p[i + 1])
  <1> DEFINE n == Len(p)  a == SubSeq(p, 1, i)  b == SubSeq(p, 1, i + 1)  x == p[i + 1]
  <1>1. n \in Nat /\ p \in [1 .. n -> S]
    BY LenProperties
  <1> HIDE DEF n
  <1>2. i \in 0 .. n - 1
    BY DEF n
  <1>3. x \in S /\ (\A j \in 1 .. i : p[j] \in S) /\ (\A j \in 1 .. i + 1 : p[j] \in S)
    BY <1>1, <1>2
  <1>4. a \in Seq(S) /\ Len(a) = i /\ \A j \in 1 .. i : a[j] = p[j]
    BY <1>1, <1>2, <1>3, SubSeqProperties
  <1>5. b \in Seq(S) /\ Len(b) = i + 1 /\ \A j \in 1 .. i + 1 : b[j] = p[j]
    BY <1>1, <1>2, <1>3, SubSeqProperties
  <1> HIDE DEF a, b, x
  <1>6. /\ Append(a, x) \in Seq(S) /\ Len(Append(a, x)) = i + 1
        /\ \A j \in 1 .. i : Append(a, x)[j] = a[j]
        /\ Append(a, x)[i + 1] = x
    BY <1>3, <1>4, ButLastAppend
  <1>7. \A j \in 1 .. Len(b) : b[j] = Append(a, x)[j]
    <2> TAKE j \in 1 .. Len(b)
    <2>1. j \in 1 .. i \/ j = i + 1
      BY <1>2, <1>5
    <2>2. i + 1 \in 1 .. i + 1 /\ (j \in 1 .. i => j \in 1 .. i + 1)
      BY <1>2
    <2>3. b[i + 1] = x
      BY <2>2, <1>5 DEF x
    <2>4. QED
      BY <2>1, <2>2, <2>3, <1>4, <1>5, <1>6
  <1>8. b = Append(a, x)
    BY <1>5, <1>6, <1>7, SeqEqual
  <1>9. QED
    BY <1>3, <1>4, <1>8 DEF a, b, x

LEMMA EntryAtPlace ==
    ASSUME NEW tr, IsTree(tr), NEW p \in Seq(Name), p # <<>>
    PROVE  /\ EntryAt(tr, p) # None => AtPlace(tr, p, EntryAt(tr, p))
           /\ \A e : AtPlace(tr, p, e) => EntryAt(tr, p) = e
  <1> DEFINE n == Len(p)
             f == CHOOSE entry : EntriesUpTo(tr, p, Len(p), entry)
  <1>1. n \in Nat \ {0} /\ p \in [1 .. n -> Name] /\ Name \subseteq Word /\ p \in Seq(Word)
    BY EmptySeq, LenProperties, ConstantTypes, SeqMonotonic
  <1>2. EntryAt(tr, p) = f[n]
    BY Zenon DEF EntryAt, EntriesUpTo, EntryStep
  <1>3. EntriesUpTo(tr, p, n, f)
    BY <1>1, EntriesExist
  <1> HIDE DEF n, f
  <1> DEFINE g == [i \in 0 .. n |-> IF i = 0 THEN DirectoryEntry(Root) ELSE f[i]]
             pr(i) == SubSeq(p, 1, i)
  <1>4. ASSUME NEW i \in 0 .. n - 1
        PROVE  f[i + 1] = EntryStep(tr, g[i], p[i + 1]) /\ g[i + 1] = f[i + 1]
    <2>1. i + 1 \in 1 .. n /\ i + 1 - 1 = i /\ i \in 0 .. n /\ i + 1 \in 0 .. n /\ i + 1 # 0
      BY <1>1
    <2>2. f[i + 1] = IF i + 1 = 1 THEN tr[Root][p[1]] ELSE EntryStep(tr, f[i + 1 - 1], p[i + 1])
      BY <1>3, <2>1 DEF EntriesUpTo
    <2>3. CASE i = 0
      <3>1. g[0] = DirectoryEntry(Root) /\ i + 1 = 1
        BY <2>1, <2>3
      <3>2. QED
        BY <2>1, <2>2, <2>3, <3>1, EntryTypes DEF EntryStep
    <2>4. CASE i # 0
      <3>1. g[i] = f[i] /\ i + 1 # 1
        BY <2>1, <2>4
      <3>2. QED
        BY <2>1, <2>2, <3>1
    <2>5. QED
      BY <2>3, <2>4
  <1>5. g[0] = DirectoryEntry(Root)
    BY <1>1
  <1> HIDE DEF g
  <1> DEFINE Q(i) == g[i] \in Entry /\ \A d : LeadsTo(tr, pr(i), d) <=> d \in Dir /\ g[i] = DirectoryEntry(d)
             S == {i \in Nat : i <= n => Q(i)}
  <1>6. 0 \in S
    <2>1. pr(0) = <<>>
      BY SubSeqEmpty
    <2>2. g[0] \in Entry
      BY <1>5, EntryTypes, ConstantTypes
    <2>3. \A d : LeadsTo(tr, <<>>, d) <=> d \in Dir /\ g[0] = DirectoryEntry(d)
      <3> TAKE d
      <3>1. g[0] = DirectoryEntry(d) <=> d = Root
        BY <1>5, EntryTypes
      <3>2. LeadsTo(tr, <<>>, d) <=> d = Root
        BY LeadsToRoot
      <3>3. QED
        BY <3>1, <3>2, ConstantTypes
    <2>4. Q(0)
      BY <2>1, <2>2, <2>3
    <2>5. QED
      BY <2>4
  <1>7. ASSUME NEW i \in S
        PROVE  i + 1 \in S
    <2>1. SUFFICES ASSUME i + 1 <= n
                   PROVE  Q(i + 1)
      OBVIOUS
    <2>2. i \in Nat /\ i \in 0 .. n - 1 /\ i + 1 \in 1 .. n /\ Q(i)
      BY <1>1, <2>1
    <2> DEFINE c == p[i + 1]
    <2>3. c \in Name /\ c \in Word /\ pr(i) \in Seq(Word) /\ pr(i + 1) = Append(pr(i), c)
      BY <1>1, <2>2, SubSeqNext DEF n
    <2>4. g[i + 1] = EntryStep(tr, g[i], c)
      BY <1>4, <2>2
    <2>5. g[i + 1] \in Entry
      BY <2>2, <2>3, <2>4, EntryTypes, IsTreeContents DEF EntryStep, Contents
    <2> HIDE DEF c, pr
    <2>6. ASSUME NEW d
          PROVE  LeadsTo(tr, pr(i + 1), d) <=> d \in Dir /\ g[i + 1] = DirectoryEntry(d)
      <3>1. LeadsTo(tr, pr(i + 1), d) <=> d \in Dir /\ Under(tr, pr(i), c, d)
        BY <2>3, LeadsToAppend
      <3>2. Under(tr, pr(i), c, d) => g[i + 1] = DirectoryEntry(d)
        <4>1. SUFFICES ASSUME NEW x \in Dir, LeadsTo(tr, pr(i), x), tr[x][c] = DirectoryEntry(d)
                       PROVE  g[i + 1] = DirectoryEntry(d)
          BY DEF Under
        <4>2. g[i] = DirectoryEntry(x)
          BY <4>1, <2>2
        <4>3. QED
          BY <4>1, <4>2, <2>4, EntryTypes DEF EntryStep
      <3>3. ASSUME d \in Dir, g[i + 1] = DirectoryEntry(d)
            PROVE  Under(tr, pr(i), c, d)
        <4>1. g[i].type = "directory"
          BY <3>3, <2>4, EntryTypes DEF EntryStep
        <4>2. g[i].dir \in Dir /\ g[i] = DirectoryEntry(g[i].dir)
          BY <4>1, <2>2, EntryTypes
        <4>3. tr[g[i].dir][c] = DirectoryEntry(d)
          BY <3>3, <4>1, <2>4 DEF EntryStep
        <4>4. LeadsTo(tr, pr(i), g[i].dir)
          BY <4>2, <2>2
        <4>5. QED
          BY <4>2, <4>3, <4>4 DEF Under
      <3>4. QED
        BY <3>1, <3>2, <3>3
    <2>7. QED
      BY <2>5, <2>6
  <1>8. S \in SUBSET Nat
    OBVIOUS
  <1> HIDE DEF S
  <1>9. S = Nat
    BY <1>6, <1>7, <1>8, SetInduction
  <1>10. n - 1 \in 0 .. n - 1 /\ n - 1 + 1 = n
    BY <1>1
  <1> DEFINE m == n - 1
  <1>11. Q(m)
    BY <1>9, <1>10, <1>1 DEF S
  <1>12. pr(m) = ButLast(p)
    BY DEF ButLast, n
  <1>13. EntryAt(tr, p) = EntryStep(tr, g[m], p[n])
    BY <1>2, <1>4, <1>10
  <1> HIDE DEF m, pr
  <1>14. ASSUME NEW e, AtPlace(tr, p, e)
         PROVE  EntryAt(tr, p) = e
    <2>1. PICK d \in Dir : LeadsTo(tr, pr(m), d) /\ tr[d][p[n]] = e
      BY <1>12, <1>14 DEF AtPlace, n
    <2>2. g[m] = DirectoryEntry(d)
      BY <2>1, <1>11
    <2>3. QED
      BY <2>1, <2>2, <1>13, EntryTypes DEF EntryStep
  <1>15. ASSUME EntryAt(tr, p) # None
         PROVE  AtPlace(tr, p, EntryAt(tr, p))
    <2>1. g[m].type = "directory" /\ EntryAt(tr, p) = tr[g[m].dir][p[n]]
      BY <1>13, <1>15 DEF EntryStep
    <2>2. g[m].dir \in Dir /\ g[m] = DirectoryEntry(g[m].dir)
      BY <2>1, <1>11, EntryTypes
    <2>3. LeadsTo(tr, pr(m), g[m].dir)
      BY <2>2, <1>11
    <2>4. QED
      BY <2>1, <2>2, <2>3, <1>12 DEF AtPlace, n
  <1>16. QED
    BY <1>14, <1>15

-----------------------------------------------------------------------------
(* The progress of a component walker.  The components that remain are the *)
(* ones after the first n.                                                 *)
Progress(c, n, todo) ==
    /\ n \in 0 .. Len(c)
    /\ Len(todo) = Len(c) - n
    /\ \A j \in 1 .. Len(todo) : todo[j] = c[n + j]

LEMMA ProgressTail ==
    ASSUME NEW R, NEW c \in Seq(R), NEW todo \in Seq(R), NEW n, Progress(c, n, todo),
           todo # <<>>
    PROVE  /\ n \in 0 .. Len(c) - 1
           /\ Head(todo) = c[n + 1]
           /\ Progress(c, n + 1, Tail(todo))
           /\ Len(todo) = 1 <=> n + 1 = Len(c)
           /\ Tail(todo) \in Seq(R) /\ Head(todo) \in R
  <1> DEFINE m == Len(c)  k == Len(todo)  r == Tail(todo)
  <1>1. m \in Nat /\ k \in Nat \ {0}
    BY LenProperties, EmptySeq
  <1>2. /\ r \in Seq(R) /\ Head(todo) \in R /\ Len(r) = k - 1
        /\ \A i \in 1 .. Len(r) : r[i] = todo[i + 1]
        /\ Head(todo) = todo[1]
    BY HeadTailProperties
  <1>3. n \in 0 .. m /\ k = m - n /\ \A j \in 1 .. k : todo[j] = c[n + j]
    BY DEF Progress
  <1> HIDE DEF m, k, r
  <1>4. n \in 0 .. m - 1 /\ Head(todo) = c[n + 1] /\ (k = 1 <=> n + 1 = m)
    BY <1>1, <1>2, <1>3
  <1>5. n + 1 \in 0 .. m /\ Len(r) = m - (n + 1)
    BY <1>1, <1>2, <1>3
  <1>6. ASSUME NEW j \in 1 .. Len(r)
        PROVE  r[j] = c[n + 1 + j]
    <2>1. j + 1 \in 1 .. k /\ n + (j + 1) = n + 1 + j
      BY <1>1, <1>2, <1>3
    <2>2. r[j] = todo[j + 1] /\ todo[j + 1] = c[n + (j + 1)]
      BY <1>2, <1>3, <2>1
    <2>3. QED
      BY <2>1, <2>2
  <1>7. QED
    BY <1>2, <1>4, <1>5, <1>6 DEF Progress, m, k, r

(* The directories that staging has entered are the ones of a place, unless*)
(* they have been removed.                                                 *)
StackAt(tr, pl, stack) ==
    /\ Len(stack) = Len(pl) + 1
    /\ stack[1] = Root
    /\ \A k \in 1 .. Len(pl) :
          /\ pl[k] \in Name
          /\ stack[k + 1] \in Linked(tr) => tr[stack[k]][pl[k]] = DirectoryEntry(stack[k + 1])

LEMMA StackRoot ==
    ASSUME NEW tr
    PROVE  StackAt(tr, <<>>, <<Root>>)
  <1>1. Len(<<>>) = 0 /\ Len(<<Root>>) = 1 /\ <<Root>>[1] = Root
    OBVIOUS
  <1>2. QED
    BY <1>1 DEF StackAt

LEMMA StackPush ==
    ASSUME NEW tr, NEW pl \in Seq(Word), NEW stack \in Seq(Dir), StackAt(tr, pl, stack),
           NEW c \in Name, NEW d \in Dir,
           d \in Linked(tr) => tr[stack[Len(stack)]][c] = DirectoryEntry(d)
    PROVE  StackAt(tr, Append(pl, c), Append(stack, d))
  <1> DEFINE m == Len(pl)  p2 == Append(pl, c)  s2 == Append(stack, d)
  <1>1. m \in Nat /\ c \in Word
    BY LenProperties, ConstantTypes
  <1>2. Len(p2) = m + 1 /\ (\A k \in 1 .. m : p2[k] = pl[k]) /\ p2[m + 1] = c
    BY <1>1, ButLastAppend
  <1>3. /\ Len(stack) = m + 1
        /\ stack[1] = Root
        /\ \A k \in 1 .. m :
              /\ pl[k] \in Name
              /\ stack[k + 1] \in Linked(tr) =>
                   tr[stack[k]][pl[k]] = DirectoryEntry(stack[k + 1])
    BY DEF StackAt
  <1>4. /\ Len(s2) = Len(stack) + 1
        /\ \A k \in 1 .. Len(stack) : s2[k] = stack[k]
        /\ s2[Len(stack) + 1] = d
    BY ButLastAppend
  <1> HIDE DEF m, p2, s2
  <1>5. /\ Len(s2) = m + 1 + 1
        /\ \A k \in 1 .. m + 1 : s2[k] = stack[k]
        /\ s2[m + 1 + 1] = d
        /\ d \in Linked(tr) => tr[stack[m + 1]][c] = DirectoryEntry(d)
    BY <1>3, <1>4
  <1>6. Len(s2) = Len(p2) + 1 /\ s2[1] = Root
    BY <1>1, <1>2, <1>3, <1>5
  <1>7. ASSUME NEW k \in 1 .. m + 1
        PROVE  /\ p2[k] \in Name
               /\ s2[k + 1] \in Linked(tr) => tr[s2[k]][p2[k]] = DirectoryEntry(s2[k + 1])
    <2>1. CASE k = m + 1
      <3>1. s2[k] = stack[m + 1] /\ s2[k + 1] = d /\ p2[k] = c
        BY <2>1, <1>1, <1>2, <1>5
      <3>2. QED
        BY <3>1, <1>5
    <2>2. CASE k \in 1 .. m
      <3>1. k + 1 \in 1 .. m + 1
        BY <2>2, <1>1
      <3>2. s2[k] = stack[k] /\ s2[k + 1] = stack[k + 1] /\ p2[k] = pl[k]
        BY <2>2, <3>1, <1>2, <1>5
      <3>3. QED
        BY <2>2, <3>2, <1>3
    <2>3. QED
      BY <2>1, <2>2, <1>1
  <1>8. QED
    BY <1>2, <1>6, <1>7 DEF StackAt, p2, s2

LEMMA StackPop ==
    ASSUME NEW tr, NEW pl \in Seq(Word), NEW stack \in Seq(Dir), StackAt(tr, pl, stack),
           Len(stack) > 1
    PROVE  /\ StackAt(tr, ButLast(pl), ButLast(stack))
           /\ ButLast(stack) \in Seq(Dir)
           /\ pl # <<>>
  <1> DEFINE m == Len(pl)  p2 == ButLast(pl)  s2 == ButLast(stack)
  <1>1. m \in Nat
    BY LenProperties
  <1>2. /\ Len(stack) = m + 1
        /\ stack[1] = Root
        /\ \A k \in 1 .. m :
              /\ pl[k] \in Name
              /\ stack[k + 1] \in Linked(tr) =>
                   tr[stack[k]][pl[k]] = DirectoryEntry(stack[k + 1])
    BY DEF StackAt
  <1> HIDE DEF m
  <1>3. m > 0 /\ m + 1 - 1 = m
    BY <1>1, <1>2
  <1>4. pl # <<>> /\ stack # <<>>
    BY <1>1, <1>2, <1>3, EmptySeq DEF m
  <1>5. Len(p2) = m - 1 /\ \A k \in 1 .. m - 1 : p2[k] = pl[k]
    BY <1>4, ButLastProperties DEF m
  <1>6. /\ s2 \in Seq(Dir) /\ Len(s2) = Len(stack) - 1
        /\ \A k \in 1 .. Len(stack) - 1 : s2[k] = stack[k]
    BY <1>4, ButLastProperties
  <1> HIDE DEF p2, s2
  <1>7. Len(s2) = m /\ \A k \in 1 .. m : s2[k] = stack[k]
    BY <1>1, <1>2, <1>3, <1>6
  <1>8. Len(s2) = Len(p2) + 1 /\ s2[1] = Root
    BY <1>1, <1>2, <1>3, <1>5, <1>7
  <1>9. ASSUME NEW k \in 1 .. m - 1
        PROVE  /\ p2[k] \in Name
               /\ s2[k + 1] \in Linked(tr) => tr[s2[k]][p2[k]] = DirectoryEntry(s2[k + 1])
    <2>1. k \in 1 .. m /\ k + 1 \in 1 .. m
      BY <1>1
    <2>2. s2[k] = stack[k] /\ s2[k + 1] = stack[k + 1] /\ p2[k] = pl[k]
      BY <2>1, <1>5, <1>7
    <2>3. QED
      BY <2>1, <2>2, <1>2
  <1>10. QED
    BY <1>4, <1>5, <1>6, <1>8, <1>9 DEF StackAt, p2, s2

(* If the last one has not been removed, none has.                         *)
LEMMA StackLeadsTo ==
    ASSUME NEW tr, IsTree(tr), NEW pl \in Seq(Word), NEW stack \in Seq(Dir),
           StackAt(tr, pl, stack), stack[Len(stack)] \in Linked(tr)
    PROVE  LeadsTo(tr, pl, stack[Len(stack)])
  <1> DEFINE m == Len(pl)
             S == {j \in Nat : j <= m => stack[m + 1 - j] \in Linked(tr)}
  <1>1. m \in Nat
    BY LenProperties
  <1>2. /\ Len(stack) = m + 1
        /\ stack[1] = Root
        /\ \A k \in 1 .. m :
              /\ pl[k] \in Name
              /\ stack[k + 1] \in Linked(tr) =>
                   tr[stack[k]][pl[k]] = DirectoryEntry(stack[k + 1])
    BY DEF StackAt
  <1>3. stack \in [1 .. Len(stack) -> Dir]
    BY LenProperties
  <1> HIDE DEF m
  <1>4. \A k \in 1 .. m + 1 : stack[k] \in Dir
    BY <1>2, <1>3
  <1>5. 0 \in S
    <2>1. m + 1 - 0 = m + 1
      BY <1>1
    <2>2. QED
      BY <1>2, <2>1
  <1>6. ASSUME NEW j \in S
        PROVE  j + 1 \in S
    <2>1. SUFFICES ASSUME j + 1 <= m
                   PROVE  stack[m + 1 - (j + 1)] \in Linked(tr)
      OBVIOUS
    <2> DEFINE k == m - j
    <2>2. j \in Nat /\ k \in 1 .. m /\ k + 1 = m + 1 - j /\ k = m + 1 - (j + 1)
            /\ k \in 1 .. m + 1 /\ k + 1 \in 1 .. m + 1
      BY <1>1, <2>1
    <2>3. j <= m
      BY <1>1, <2>1, <2>2
    <2> HIDE DEF k
    <2>7. stack[m + 1 - j] \in Linked(tr)
      BY <2>3
    <2>8. stack[k + 1] \in Linked(tr)
      BY <2>2, <2>7
    <2>4. tr[stack[k]][pl[k]] = DirectoryEntry(stack[k + 1]) /\ pl[k] \in Name
      BY <1>2, <2>2, <2>8
    <2>5. stack[k] \in Linked(tr)
      BY <1>4, <2>2, <2>4, NothingRefersToNew
    <2>6. QED
      BY <2>2, <2>5
  <1>7. S \in SUBSET Nat
    OBVIOUS
  <1> HIDE DEF S
  <1>8. S = Nat
    BY <1>5, <1>6, <1>7, SetInduction
  <1>9. ASSUME NEW k \in 1 .. m + 1
        PROVE  stack[k] \in Linked(tr)
    <2> DEFINE j == m + 1 - k
    <2>1. j \in Nat /\ j <= m /\ m + 1 - j = k
      BY <1>1
    <2> HIDE DEF j
    <2>2. j \in S
      BY <2>1, <1>8
    <2>3. QED
      BY <2>1, <2>2 DEF S
  <1> DEFINE ds == [i \in 0 .. m |-> stack[i + 1]]
  <1>10. ds \in [0 .. m -> Dir]
    BY <1>1, <1>4
  <1>11. ds[0] = Root /\ ds[m] = stack[m + 1]
    BY <1>1, <1>2
  <1>12. ASSUME NEW i \in 1 .. m
         PROVE  pl[i] \in Name /\ tr[ds[i - 1]][pl[i]] = DirectoryEntry(ds[i])
    <2>1. i - 1 \in 0 .. m /\ i \in 0 .. m /\ i - 1 + 1 = i /\ i + 1 \in 1 .. m + 1
      BY <1>1
    <2>2. ds[i - 1] = stack[i] /\ ds[i] = stack[i + 1]
      BY <2>1
    <2>3. stack[i + 1] \in Linked(tr)
      BY <2>1, <1>9
    <2>4. QED
      BY <2>2, <2>3, <1>2
  <1> HIDE DEF ds
  <1>13. Trail(tr, pl, ds)
    BY <1>11, <1>12 DEF Trail, m
  <1>14. QED
    BY <1>2, <1>10, <1>11, <1>13 DEF LeadsTo, m

LEMMA StackKept ==
    ASSUME NEW tr, NEW tr2, NEW T, NEW c, NEW New, IsTree(tr), Changed(tr, tr2, T, c, New),
           NEW pl \in Seq(Word), NEW stack \in Seq(Dir), StackAt(tr, pl, stack),
           \A k \in 1 .. Len(stack) : stack[k] \notin New
    PROVE  StackAt(Pruned(tr2), pl, stack)
  <1> DEFINE P == Pruned(tr2)  m == Len(pl)
  <1>1. m \in Nat /\ stack \in [1 .. Len(stack) -> Dir]
    BY LenProperties
  <1>2. /\ Len(stack) = m + 1
        /\ stack[1] = Root
        /\ \A k \in 1 .. m :
              /\ pl[k] \in Name
              /\ stack[k + 1] \in Linked(tr) =>
                   tr[stack[k]][pl[k]] = DirectoryEntry(stack[k + 1])
    BY DEF StackAt
  <1>3. /\ IsTree(P) /\ Linked(P) \subseteq Linked(tr) \union New
        /\ \A d, e \in Dir, n \in Name :
              P[d][n] = DirectoryEntry(e) =>
                \/ d = T /\ n = c /\ e \in New
                \/ d \notin New /\ ~ (d = T /\ n = c) /\ tr[d][n] = DirectoryEntry(e)
    BY ChangedTree
  <1> HIDE DEF P, m
  <1>4. ASSUME NEW k \in 1 .. m, stack[k + 1] \in Linked(P)
        PROVE  P[stack[k]][pl[k]] = DirectoryEntry(stack[k + 1])
    <2> DEFINE x == stack[k + 1]  y == stack[k]  n == pl[k]
    <2>1. k + 1 \in 1 .. m + 1 /\ k \in 1 .. m + 1
      BY <1>1
    <2>2. x \in Dir /\ y \in Dir /\ x \notin New /\ n \in Name
      BY <2>1, <1>1, <1>2
    <2>3. x \in Linked(tr) /\ x \in Linked(P)
      BY <1>3, <1>4, <2>2
    <2>4. tr[y][n] = DirectoryEntry(x)
      BY <1>2, <2>3
    <2> HIDE DEF x, y, n
    <2>5. x # Root
      BY <2>2, <2>4, TreeUnique
    <2>6. PICK e \in Linked(P), b \in Name : P[e][b] = DirectoryEntry(x)
      BY <2>3, <2>5, <1>3, IsTreeContents, LinkedReferred
    <2>7. e \in Dir
      BY <1>3, IsTreeContents, LinkedClosed
    <2>8. tr[e][b] = DirectoryEntry(x)
      BY <2>2, <2>6, <2>7, <1>3
    <2>9. e = y /\ b = n
      BY <2>2, <2>4, <2>7, <2>8, TreeUnique
    <2>10. QED
      BY <2>6, <2>9 DEF x, y, n
  <1>5. QED
    BY <1>2, <1>4 DEF StackAt, P, m

-----------------------------------------------------------------------------
(* Calls, and what the actions make of them.                               *)
Response ==
    Entry \union {Missing, Directory, Unknown, Error, IOError} \union {"OK", "error"}

CallOf(kind, R) ==
    [kind        : {kind},
     pc          : {"next", "walk"},
     requests    : Seq(R),
     responses   : Seq(Response),
     todo        : Seq(Word),
     stack       : Seq(Dir),
     stat        : Response,
     links       : Nat,
     undisturbed : BOOLEAN]

LEMMA ResponseTypes ==
    /\ \A e \in Entry : e \in Response
    /\ Missing \in Response /\ Directory \in Response /\ Unknown \in Response
    /\ Error \in Response /\ IOError \in Response
    /\ "OK" \in Response /\ "error" \in Response
  BY DEF Response

LEMMA CallFields ==
    ASSUME NEW kind, NEW R, NEW c \in CallOf(kind, R)
    PROVE  /\ c.kind = kind /\ c.pc \in {"next", "walk"}
           /\ c.requests \in Seq(R) /\ c.responses \in Seq(Response)
           /\ c.todo \in Seq(Word) /\ c.stack \in Seq(Dir) /\ c.stat \in Response
           /\ c.links \in Nat /\ c.undisturbed \in BOOLEAN
  BY DEF CallOf

LEMMA NewCallFields ==
    ASSUME NEW kind, NEW R, NEW requests \in Seq(R)
    PROVE  LET x == NewCall(kind, requests) IN
           /\ x \in CallOf(kind, R)
           /\ x.kind = kind /\ x.pc = "next" /\ x.requests = requests
           /\ x.responses = <<>> /\ x.undisturbed
  <1>0. Root \in Dir
    BY ConstantTypes
  <1>1. <<Root>> \in Seq(Dir)
    BY <1>0
  <1>3. <<>> \in Seq(Word) /\ <<>> \in Seq(Response)
    BY EmptySeq
  <1>2. QED
    BY <1>1, <1>3, ResponseTypes DEF NewCall, CallOf

Skipped(c, todo) == [c EXCEPT !.todo = todo]

LEMMA SkippedFields ==
    ASSUME NEW kind, NEW R, NEW c \in CallOf(kind, R), NEW todo \in Seq(Word)
    PROVE  LET x == Skipped(c, todo) IN
           /\ x \in CallOf(kind, R)
           /\ x.kind = c.kind /\ x.pc = c.pc /\ x.requests = c.requests
           /\ x.responses = c.responses /\ x.todo = todo /\ x.stack = c.stack
           /\ x.stat = c.stat /\ x.links = c.links /\ x.undisturbed = c.undisturbed
  BY DEF CallOf, Skipped

Moved(c, todo, stack) == [c EXCEPT !.todo = todo, !.stack = stack]

LEMMA MovedFields ==
    ASSUME NEW kind, NEW R, NEW c \in CallOf(kind, R), NEW todo \in Seq(Word),
           NEW stack \in Seq(Dir)
    PROVE  LET x == Moved(c, todo, stack) IN
           /\ x \in CallOf(kind, R)
           /\ x.kind = c.kind /\ x.pc = c.pc /\ x.requests = c.requests
           /\ x.responses = c.responses /\ x.todo = todo /\ x.stack = stack
           /\ x.stat = c.stat /\ x.links = c.links /\ x.undisturbed = c.undisturbed
  BY DEF CallOf, Moved

LEMMA RespondedFields ==
    ASSUME NEW kind, NEW R, NEW c \in CallOf(kind, R), NEW r \in Response, c.requests # <<>>
    PROVE  LET x == Responded(c, r) IN
           /\ x \in CallOf(kind, R)
           /\ x.kind = c.kind /\ x.pc = "next" /\ x.requests = Tail(c.requests)
           /\ x.responses = Append(c.responses, r) /\ x.todo = c.todo /\ x.stack = c.stack
           /\ x.stat = c.stat /\ x.links = c.links /\ x.undisturbed = c.undisturbed
  <1>1. c.requests \in Seq(R) /\ c.responses \in Seq(Response)
    BY CallFields
  <1>2. Tail(c.requests) \in Seq(R) /\ Append(c.responses, r) \in Seq(Response)
    BY <1>1, HeadTailProperties, AppendProperties
  <1> DEFINE a == Tail(c.requests)  b == Append(c.responses, r)
  <1>3. Responded(c, r) = [c EXCEPT !.pc = "next", !.requests = a, !.responses = b]
    BY DEF Responded, CallOf
  <1> HIDE DEF a, b
  <1>4. a \in Seq(R) /\ b \in Seq(Response)
    BY <1>2 DEF a, b
  <1> DEFINE x == [c EXCEPT !.pc = "next", !.requests = a, !.responses = b]
  <1>5. /\ x \in CallOf(kind, R)
        /\ x.kind = c.kind /\ x.pc = "next" /\ x.requests = a
        /\ x.responses = b /\ x.todo = c.todo /\ x.stack = c.stack
        /\ x.stat = c.stat /\ x.links = c.links /\ x.undisturbed = c.undisturbed
    BY <1>4 DEF CallOf
  <1> HIDE DEF x
  <1>6. Responded(c, r) = x
    BY <1>3 DEF x
  <1>7. QED
    BY <1>5, <1>6 DEF a, b

Begun(c, todo, stack) == 
    [c EXCEPT !.pc = "walk", !.todo = todo, !.stack = stack, !.stat = Unknown,
              !.links = 0]

LEMMA BegunFields ==
    ASSUME NEW kind, NEW R, NEW c \in CallOf(kind, R), NEW todo \in Seq(Word),
           NEW stack \in Seq(Dir)
    PROVE  LET x == Begun(c, todo, stack) IN
           /\ x \in CallOf(kind, R)
           /\ x.kind = c.kind /\ x.pc = "walk" /\ x.requests = c.requests
           /\ x.responses = c.responses /\ x.todo = todo /\ x.stack = stack
           /\ x.stat = Unknown /\ x.links = 0 /\ x.undisturbed = c.undisturbed
  BY ResponseTypes DEF CallOf, Begun

Stated(c, todo, stack, stat) == 
    [c EXCEPT !.todo = todo, !.stack = stack, !.stat = stat]

LEMMA StatedFields ==
    ASSUME NEW kind, NEW R, NEW c \in CallOf(kind, R), NEW todo \in Seq(Word),
           NEW stack \in Seq(Dir), NEW stat \in Response
    PROVE  LET x == Stated(c, todo, stack, stat) IN
           /\ x \in CallOf(kind, R)
           /\ x.kind = c.kind /\ x.pc = c.pc /\ x.requests = c.requests
           /\ x.responses = c.responses /\ x.todo = todo /\ x.stack = stack
           /\ x.stat = stat /\ x.links = c.links /\ x.undisturbed = c.undisturbed
  BY DEF CallOf, Stated

Ended(c, todo, stat) == [c EXCEPT !.todo = todo, !.stat = stat]

LEMMA EndedFields ==
    ASSUME NEW kind, NEW R, NEW c \in CallOf(kind, R), NEW todo \in Seq(Word),
           NEW stat \in Response
    PROVE  LET x == Ended(c, todo, stat) IN
           /\ x \in CallOf(kind, R)
           /\ x.kind = c.kind /\ x.pc = c.pc /\ x.requests = c.requests
           /\ x.responses = c.responses /\ x.todo = todo /\ x.stack = c.stack
           /\ x.stat = stat /\ x.links = c.links /\ x.undisturbed = c.undisturbed
  BY DEF CallOf, Ended

Followed(c) == [c EXCEPT !.stat = Unknown, !.links = @ + 1]

LEMMA FollowedFields ==
    ASSUME NEW kind, NEW R, NEW c \in CallOf(kind, R)
    PROVE  LET x == Followed(c) IN
           /\ x \in CallOf(kind, R)
           /\ x.kind = c.kind /\ x.pc = c.pc /\ x.requests = c.requests
           /\ x.responses = c.responses /\ x.todo = c.todo /\ x.stack = c.stack
           /\ x.stat = Unknown /\ x.links = c.links + 1 /\ x.undisturbed = c.undisturbed
  <1> DEFINE l == c.links + 1  u == Unknown
  <1>1. l \in Nat /\ u \in Response
    BY CallFields, ResponseTypes
  <1> HIDE DEF l, u
  <1> DEFINE x == [c EXCEPT !.stat = u, !.links = l]
  <1>2. /\ x \in CallOf(kind, R)
        /\ x.kind = c.kind /\ x.pc = c.pc /\ x.requests = c.requests
        /\ x.responses = c.responses /\ x.todo = c.todo /\ x.stack = c.stack
        /\ x.stat = u /\ x.links = l /\ x.undisturbed = c.undisturbed
    BY <1>1 DEF CallOf
  <1>3. QED
    BY <1>2 DEF l, u, Followed

FailedWith(c, r) == 
    [c EXCEPT !.pc = "next", !.requests = <<>>, !.responses = <<r>>]

LEMMA FailedFields ==
    ASSUME NEW kind, NEW R, NEW c \in CallOf(kind, R), NEW r \in Response
    PROVE  LET x == FailedWith(c, r) IN
           /\ x \in CallOf(kind, R)
           /\ x.kind = c.kind /\ x.pc = "next" /\ x.requests = <<>> /\ x.responses = <<r>>
           /\ x.undisturbed = c.undisturbed
  <1> DEFINE none == <<>>  one == <<r>>
  <1>1. none \in Seq(R) /\ one \in Seq(Response)
    BY EmptySeq
  <1> HIDE DEF none, one
  <1> DEFINE x == [c EXCEPT !.pc = "next", !.requests = none, !.responses = one]
  <1>2. /\ x \in CallOf(kind, R)
        /\ x.kind = c.kind /\ x.pc = "next" /\ x.requests = none /\ x.responses = one
        /\ x.undisturbed = c.undisturbed
    BY <1>1 DEF CallOf
  <1>3. QED
    BY <1>2 DEF none, one, FailedWith

LEMMA DisturbedFields ==
    ASSUME NEW kind, NEW R, NEW c \in CallOf(kind, R), NEW b \in BOOLEAN
    PROVE  LET x == [c EXCEPT !.undisturbed = @ /\ b] IN
           /\ x \in CallOf(kind, R)
           /\ x.kind = c.kind /\ x.pc = c.pc /\ x.requests = c.requests
           /\ x.responses = c.responses /\ x.todo = c.todo /\ x.stack = c.stack
           /\ x.stat = c.stat /\ x.links = c.links
           /\ x.undisturbed <=> c.undisturbed /\ b
  <1> DEFINE v == c.undisturbed /\ b
  <1>1. v \in BOOLEAN
    OBVIOUS
  <1>2. [c EXCEPT !.undisturbed = @ /\ b] = [c EXCEPT !.undisturbed = v]
    OBVIOUS
  <1> HIDE DEF v
  <1> DEFINE x == [c EXCEPT !.undisturbed = v]
  <1>3. /\ x \in CallOf(kind, R)
        /\ x.kind = c.kind /\ x.pc = c.pc /\ x.requests = c.requests
        /\ x.responses = c.responses /\ x.todo = c.todo /\ x.stack = c.stack
        /\ x.stat = c.stat /\ x.links = c.links
        /\ x.undisturbed = v
    BY <1>1 DEF CallOf
  <1>4. QED
    BY <1>2, <1>3, Zenon DEF v

-----------------------------------------------------------------------------
(* The type invariant.  The root directory is in no other directory, every *)
(* directory is in one place, and what was removed is empty.               *)
StageCall == CallOf("stage", Artifact)
StatCall  == CallOf("stat", Path)

TypeInv ==
    /\ scenario \in Scenario
    /\ IsTree(tree)
    /\ call \in [Thread -> StageCall \union StatCall]
    /\ \A t \in Thread : /\ call[t].kind = scenario.calls[t].kind
                         /\ call[t].pc = "walk" => call[t].requests # <<>>

LEMMA ScenarioTypes ==
    ASSUME NEW s \in Scenario
    PROVE  /\ IsTree(s.tree)
           /\ \A t \in Thread :
                 /\ s.calls[t].kind \in {"stat", "stage"}
                 /\ s.calls[t].kind = "stat" => s.calls[t].requests \in Seq(Path)
                 /\ s.calls[t].kind = "stage" => s.calls[t].requests \in Seq(Artifact)
  <1>1. IsTree(s.tree)
    BY PathAssumption, Zenon
  <1>2. ASSUME NEW t \in Thread
        PROVE  s.calls[t] \in [kind : {"stat"}, requests : Seq(Path)]
                              \union [kind : {"stage"}, requests : Seq(Artifact)]
    <2>1. s.calls[t] \in UNION {{x.calls[u] : u \in Thread} : x \in Scenario}
      <3>1. s.calls[t] \in {s.calls[u] : u \in Thread}
        OBVIOUS
      <3>2. {s.calls[u] : u \in Thread} \in {{x.calls[u] : u \in Thread} : x \in Scenario}
        BY Zenon
      <3>3. QED
        BY <3>1, <3>2, Zenon
    <2>2. QED
      BY <2>1, PathAssumption, Zenon
  <1>4. ASSUME NEW c \in [kind : {"stat"}, requests : Seq(Path)]
                         \union [kind : {"stage"}, requests : Seq(Artifact)]
        PROVE  /\ c.kind \in {"stat", "stage"}
               /\ c.kind = "stat" => c.requests \in Seq(Path)
               /\ c.kind = "stage" => c.requests \in Seq(Artifact)
    <2>1. CASE c \in [kind : {"stat"}, requests : Seq(Path)]
      BY <2>1
    <2>2. CASE c \in [kind : {"stage"}, requests : Seq(Artifact)]
      BY <2>2
    <2>3. QED
      BY <2>1, <2>2
  <1>3. QED
    BY <1>1, <1>2, <1>4, Zenon

LEMMA CallKinds ==
    ASSUME NEW c \in StageCall \union StatCall
    PROVE  /\ c.kind \in {"stage", "stat"}
           /\ c.kind = "stage" => c \in StageCall
           /\ c.kind = "stat" => c \in StatCall
  BY CallFields DEF StageCall, StatCall

(* The other calls, when one call makes a step.                            *)
Same(c, c2) ==
    /\ c2.kind = c.kind /\ c2.pc = c.pc /\ c2.requests = c.requests
    /\ c2.responses = c.responses /\ c2.todo = c.todo /\ c2.stack = c.stack
    /\ c2.stat = c.stat /\ c2.links = c.links

OthersSame(t) ==
    \A u \in Thread \ {t} :
        /\ call'[u] \in StageCall \union StatCall
        /\ Same(call[u], call'[u])
        /\ call'[u].undisturbed => call[u].undisturbed /\ tree' = tree

LEMMA ContinueOthers ==
    ASSUME TypeInv, NEW t \in Thread, NEW c, Continue(t, c)
    PROVE  /\ call'[t] = c /\ tree' = tree /\ scenario' = scenario
           /\ OthersSame(t) /\ DOMAIN call' = Thread
           /\ call' = [u \in Thread |-> call'[u]]
  <1>1. call' = [call EXCEPT ![t] = c] /\ tree' = tree /\ scenario' = scenario
    BY DEF Continue
  <1>2. call \in [Thread -> StageCall \union StatCall]
    BY DEF TypeInv
  <1>3. \A u \in Thread \ {t} : call'[u] = call[u]
    BY <1>1, <1>2
  <1>4. QED
    BY <1>1, <1>2, <1>3 DEF OthersSame, Same

LEMMA UpdateOthers ==
    ASSUME TypeInv, NEW t \in Thread, NEW tr, NEW c, Update(t, tr, c)
    PROVE  /\ call'[t] = c /\ tree' = Pruned(tr) /\ scenario' = scenario
           /\ OthersSame(t) /\ DOMAIN call' = Thread
           /\ call' = [u \in Thread |-> call'[u]]
  <1>1. /\ tree' = Pruned(tr) /\ scenario' = scenario
        /\ call' = [u \in Thread |->
                      IF u = t THEN c
                      ELSE [call[u] EXCEPT !.undisturbed = @ /\ tree' = tree]]
    BY DEF Update, Pruned
  <1>2. ASSUME NEW u \in Thread \ {t}
        PROVE  /\ call'[u] \in StageCall \union StatCall
               /\ Same(call[u], call'[u])
               /\ call'[u].undisturbed => call[u].undisturbed /\ tree' = tree
    <2> DEFINE b == (tree' = tree)  x == call[u]
    <2>1. call'[u] = [x EXCEPT !.undisturbed = @ /\ b]
      BY <1>1
    <2>2. b \in BOOLEAN
      OBVIOUS
    <2>3. x \in StageCall \/ x \in StatCall
      BY DEF TypeInv
    <2> HIDE DEF b, x
    <2> DEFINE y == [x EXCEPT !.undisturbed = @ /\ b]
    <2>4. /\ y \in StageCall \union StatCall
          /\ y.kind = x.kind /\ y.pc = x.pc /\ y.requests = x.requests
          /\ y.responses = x.responses /\ y.todo = x.todo /\ y.stack = x.stack
          /\ y.stat = x.stat /\ y.links = x.links
          /\ y.undisturbed <=> x.undisturbed /\ b
      <3>1. CASE x \in StageCall
        BY <2>2, <3>1, DisturbedFields DEF StageCall
      <3>2. CASE x \in StatCall
        BY <2>2, <3>2, DisturbedFields DEF StatCall
      <3>3. QED
        BY <2>3, <3>1, <3>2
    <2> HIDE DEF y
    <2>5. call'[u] = y
      BY <2>1 DEF y
    <2>6. QED
      <3>1. call'[u] \in StageCall \union StatCall /\ Same(call[u], call'[u])
        BY <2>4, <2>5 DEF Same, x
      <3>2. y.undisturbed => x.undisturbed /\ b
        BY <2>4, Zenon
      <3>3. QED
        BY <3>1, <3>2, <2>5, Zenon DEF b, x
  <1>3. OthersSame(t)
    BY <1>2 DEF OthersSame
  <1>4. DOMAIN call' = Thread /\ call' = [u \in Thread |-> call'[u]]
    BY <1>1
  <1>5. QED
    BY <1>1, <1>3, <1>4

-----------------------------------------------------------------------------
(* The steps of staging: what becomes of the call c and of the tree tr.    *)
Last(c) == c.stack[Len(c.stack)]

ErrorStep(tr, trn, c, c2) ==
    /\ trn = tr
    /\ c.requests # <<>>
    /\ c2.pc = "next" /\ c2.requests = Tail(c.requests)
    /\ c2.responses = Append(c.responses, "error")

BeginStep(tr, trn, c, c2) ==
    /\ trn = tr
    /\ c.pc = "next" /\ c.requests # <<>> /\ ~ Head(c.requests).path.absolute
    /\ c2.pc = "walk" /\ c2.requests = c.requests /\ c2.responses = c.responses
    /\ c2.todo = Comps(Head(c.requests).path) /\ c2.stack = <<Root>>

Moves(c, c2) ==
    /\ c.pc = "walk" /\ c.todo # <<>>
    /\ c2.pc = "walk" /\ c2.requests = c.requests /\ c2.responses = c.responses
    /\ c2.todo = Tail(c.todo)

DotStep(tr, trn, c, c2) ==
    trn = tr /\ Moves(c, c2) /\ Head(c.todo) = "" /\ c2.stack = c.stack

UpStep(tr, trn, c, c2) ==
    /\ trn = tr /\ Moves(c, c2)
    /\ Head(c.todo) = ".." /\ Len(c.stack) > 1 /\ c2.stack = ButLast(c.stack)

AtEntry(tr, c) ==
    /\ c.pc = "walk" /\ c.todo # <<>> /\ c.requests # <<>> /\ c.stack # <<>>
    /\ Head(c.todo) \in Name /\ Last(c) \in Linked(tr)

EnterStep(tr, trn, c, c2, d) ==
    /\ trn = tr /\ Moves(c, c2) /\ AtEntry(tr, c) /\ Len(c.todo) # 1
    /\ d \in Dir /\ tr[Last(c)][Head(c.todo)] = DirectoryEntry(d)
    /\ c2.stack = Append(c.stack, d)

CreateStep(tr, trn, c, c2, tr2, d) ==
    /\ Moves(c, c2) /\ AtEntry(tr, c) /\ Len(c.todo) # 1
    /\ tr[Last(c)][Head(c.todo)].type # "directory"
    /\ d \in Dir /\ Changed(tr, tr2, Last(c), Head(c.todo), {d})
    /\ tr2[Last(c)][Head(c.todo)] = DirectoryEntry(d) /\ trn = Pruned(tr2)
    /\ c2.stack = Append(c.stack, d)

StoreStep(tr, trn, c, c2, tr2, New) ==
    /\ AtEntry(tr, c) /\ Len(c.todo) = 1
    /\ Changed(tr, tr2, Last(c), Head(c.todo), New) /\ trn = Pruned(tr2)
    /\ \/ /\ Head(c.requests).type = "file"
          /\ tr2[Last(c)][Head(c.todo)] = FileEntry(Head(c.requests).digest)
       \/ /\ Head(c.requests).type = "tree"
          /\ \E d \in Dir : tr2[Last(c)][Head(c.todo)] = DirectoryEntry(d)
    /\ c2.pc = "next" /\ c2.requests = Tail(c.requests)
    /\ c2.responses = Append(c.responses, "OK")

Unentered(New) ==
    \A u \in Thread : \A k \in 1 .. Len(call[u].stack) : call[u].stack[k] \notin New

QuietStep(t) ==
    \/ ErrorStep(tree, tree', call[t], call'[t])
    \/ BeginStep(tree, tree', call[t], call'[t])
    \/ DotStep(tree, tree', call[t], call'[t])
    \/ UpStep(tree, tree', call[t], call'[t])
    \/ \E d : EnterStep(tree, tree', call[t], call'[t], d)

StageStep(t) ==
    \/ QuietStep(t)
    \/ \E tr2, d : CreateStep(tree, tree', call[t], call'[t], tr2, d) /\ Unentered({d})
    \/ \E tr2, New : StoreStep(tree, tree', call[t], call'[t], tr2, New) /\ Unentered(New)

(* What every step of a call has in common.                                *)
CallStep(t, C) ==
    /\ scenario' = scenario
    /\ call' = [u \in Thread |-> call'[u]]
    /\ OthersSame(t)
    /\ call'[t] \in C
    /\ call'[t].undisturbed = call[t].undisturbed

LEMMA StageCallTypes ==
    ASSUME TypeInv, NEW t \in Thread, call[t].kind = "stage"
    PROVE  /\ call[t] \in StageCall
           /\ call[t].todo \in Seq(Word) /\ call[t].stack \in Seq(Dir)
           /\ call[t].requests \in Seq(Artifact) /\ call[t].responses \in Seq(Response)
           /\ call[t].requests # <<>> =>
                 /\ Head(call[t].requests) \in Artifact
                 /\ Head(call[t].requests).path \in Path
                 /\ Head(call[t].requests).type \in {"file", "tree"}
                 /\ Head(call[t].requests).digest \in STRING
                 /\ Tail(call[t].requests) \in Seq(Artifact)
           /\ call[t].todo # <<>> => Tail(call[t].todo) \in Seq(Word) /\ Head(call[t].todo) \in Word
           /\ call[t].stack # <<>> => Last(call[t]) \in Dir /\ ButLast(call[t].stack) \in Seq(Dir)
  <1> DEFINE c == call[t]
  <1>1. c \in StageCall
    BY CallKinds DEF TypeInv
  <1> HIDE DEF c
  <1>2. /\ c.todo \in Seq(Word) /\ c.stack \in Seq(Dir)
        /\ c.requests \in Seq(Artifact) /\ c.responses \in Seq(Response)
    BY <1>1, CallFields DEF StageCall
  <1>3. ASSUME c.requests # <<>>
        PROVE  /\ Head(c.requests) \in Artifact
               /\ Tail(c.requests) \in Seq(Artifact)
    BY <1>2, <1>3, HeadTailProperties
  <1>4. \A a \in Artifact : a.path \in Path /\ a.type \in {"file", "tree"} /\ a.digest \in STRING
    BY DEF Artifact
  <1>5. c.todo # <<>> => Tail(c.todo) \in Seq(Word) /\ Head(c.todo) \in Word
    BY <1>2, HeadTailProperties
  <1>6. c.stack # <<>> => Last(c) \in Dir /\ ButLast(c.stack) \in Seq(Dir)
    BY <1>2, ButLastProperties DEF Last
  <1>7. QED
    BY <1>1, <1>2, <1>3, <1>4, <1>5, <1>6 DEF c

LEMMA RefusedStep ==
    ASSUME TypeInv, NEW t \in Thread, call[t].kind = "stage", call[t].requests # <<>>,
           Continue(t, Responded(call[t], "error"))
    PROVE  CallStep(t, StageCall) /\ StageStep(t)
  <1> DEFINE x == Responded(call[t], "error")
  <1>1. call[t] \in StageCall /\ "error" \in Response
    BY StageCallTypes, ResponseTypes
  <1>2. /\ x \in StageCall /\ x.pc = "next" /\ x.requests = Tail(call[t].requests)
        /\ x.responses = Append(call[t].responses, "error")
        /\ x.undisturbed = call[t].undisturbed
    BY <1>1, RespondedFields DEF StageCall
  <1>3. /\ call'[t] = x /\ tree' = tree /\ scenario' = scenario /\ OthersSame(t)
        /\ call' = [u \in Thread |-> call'[u]]
    BY ContinueOthers
  <1> HIDE DEF x
  <1>4. CallStep(t, StageCall)
    BY <1>2, <1>3 DEF CallStep
  <1>5. ErrorStep(tree, tree', call[t], call'[t])
    BY <1>2, <1>3 DEF ErrorStep
  <1>6. QED
    BY <1>4, <1>5 DEF StageStep, QuietStep

LEMMA SkipDotStep ==
    ASSUME TypeInv, NEW t \in Thread, call[t].kind = "stage", SkipDot(t)
    PROVE  CallStep(t, StageCall) /\ StageStep(t)
  <1> DEFINE todo == Tail(call[t].todo)  x == Skipped(call[t], todo)
  <1>1. /\ call[t].pc = "walk" /\ call[t].todo # <<>> /\ Head(call[t].todo) = ""
        /\ Continue(t, x)
    BY DEF SkipDot, Component, Skipped
  <1>2. call[t] \in StageCall /\ todo \in Seq(Word)
    BY <1>1, StageCallTypes
  <1> HIDE DEF todo
  <1>3. /\ x \in StageCall /\ x.pc = call[t].pc /\ x.requests = call[t].requests
        /\ x.responses = call[t].responses /\ x.todo = todo /\ x.stack = call[t].stack
        /\ x.undisturbed = call[t].undisturbed
    BY <1>2, SkippedFields DEF StageCall
  <1> HIDE DEF x
  <1>4. /\ call'[t] = x /\ tree' = tree /\ scenario' = scenario /\ OthersSame(t)
        /\ call' = [u \in Thread |-> call'[u]]
    BY <1>1, ContinueOthers
  <1>5. CallStep(t, StageCall)
    BY <1>3, <1>4 DEF CallStep
  <1>6. DotStep(tree, tree', call[t], call'[t])
    BY <1>1, <1>3, <1>4 DEF DotStep, Moves, todo
  <1>7. QED
    BY <1>5, <1>6 DEF StageStep, QuietStep

LEMMA StageSingleArtifactStep ==
    ASSUME TypeInv, NEW t \in Thread, StageSingleArtifact(t)
    PROVE  CallStep(t, StageCall) /\ StageStep(t)
  <1>1. call[t].kind = "stage" /\ call[t].pc = "next" /\ call[t].requests # <<>>
    BY DEF StageSingleArtifact, At
  <1> DEFINE path == Head(call[t].requests).path
  <1>2. CASE path.absolute
    <2>1. Continue(t, Responded(call[t], "error"))
      BY <1>2 DEF StageSingleArtifact, Request
    <2>2. QED
      BY <1>1, <2>1, RefusedStep
  <1>3. CASE ~ path.absolute
    <2> DEFINE todo == Comps(path)  stack == <<Root>>
               x == Begun(call[t], todo, stack)
    <2>1. Continue(t, x)
      BY <1>3 DEF StageSingleArtifact, Request, BeginPath, Comps, Begun
    <2>2. call[t] \in StageCall /\ path \in Path
      BY <1>1, StageCallTypes
    <2>3. todo \in Seq(Word) /\ Root \in Dir
      BY <2>2, PathTypes, ConstantTypes
    <2>4. stack \in Seq(Dir)
      BY <2>3
    <2> HIDE DEF todo, stack
    <2>5. /\ x \in StageCall /\ x.pc = "walk" /\ x.requests = call[t].requests
          /\ x.responses = call[t].responses /\ x.todo = todo /\ x.stack = stack
          /\ x.undisturbed = call[t].undisturbed
      BY <2>2, <2>3, <2>4, BegunFields DEF StageCall
    <2> HIDE DEF x
    <2>6. /\ call'[t] = x /\ tree' = tree /\ scenario' = scenario /\ OthersSame(t)
          /\ call' = [u \in Thread |-> call'[u]]
      BY <2>1, ContinueOthers
    <2>7. CallStep(t, StageCall)
      BY <2>5, <2>6 DEF CallStep
    <2>8. BeginStep(tree, tree', call[t], call'[t])
      BY <1>1, <1>3, <2>5, <2>6 DEF BeginStep, todo, stack
    <2>9. QED
      BY <2>7, <2>8 DEF StageStep, QuietStep
  <1>4. QED
    BY <1>2, <1>3

LEMMA StageOnUpStep ==
    ASSUME TypeInv, NEW t \in Thread, StageOnUp(t)
    PROVE  CallStep(t, StageCall) /\ StageStep(t)
  <1>1. /\ call[t].kind = "stage" /\ call[t].pc = "walk" /\ call[t].todo # <<>>
        /\ call[t].stack # <<>> /\ Head(call[t].todo) = ".."
    BY DEF StageOnUp, AtUp, Walking, Component
  <1>2. call[t].requests # <<>>
    BY <1>1 DEF TypeInv
  <1>3. CASE ~ (Len(call[t].stack) > 1)
    <2>1. Continue(t, Responded(call[t], "error"))
      BY <1>3 DEF StageOnUp
    <2>2. QED
      BY <1>1, <1>2, <2>1, RefusedStep
  <1>4. CASE Len(call[t].stack) > 1
    <2> DEFINE todo == Tail(call[t].todo)  stack == ButLast(call[t].stack)
               x == Moved(call[t], todo, stack)
    <2>1. call[t] \in StageCall /\ todo \in Seq(Word) /\ stack \in Seq(Dir)
      BY <1>1, StageCallTypes
    <2>2. Pop(t) = x
      BY <2>1 DEF Pop, ButLast, StageCall, CallOf, Moved
    <2>3. Continue(t, x)
      BY <1>4, <2>2 DEF StageOnUp
    <2> HIDE DEF todo, stack
    <2>4. /\ x \in StageCall /\ x.pc = call[t].pc /\ x.requests = call[t].requests
          /\ x.responses = call[t].responses /\ x.todo = todo /\ x.stack = stack
          /\ x.undisturbed = call[t].undisturbed
      BY <2>1, MovedFields DEF StageCall
    <2> HIDE DEF x
    <2>5. /\ call'[t] = x /\ tree' = tree /\ scenario' = scenario /\ OthersSame(t)
          /\ call' = [u \in Thread |-> call'[u]]
      BY <2>3, ContinueOthers
    <2>6. CallStep(t, StageCall)
      BY <2>4, <2>5 DEF CallStep
    <2>7. UpStep(tree, tree', call[t], call'[t])
      BY <1>1, <1>4, <2>4, <2>5 DEF UpStep, Moves, todo, stack
    <2>8. QED
      BY <2>6, <2>7 DEF StageStep, QuietStep
  <1>5. QED
    BY <1>3, <1>4

LEMMA StageFailsStep ==
    ASSUME TypeInv, NEW t \in Thread, StageFails(t)
    PROVE  CallStep(t, StageCall) /\ StageStep(t)
  <1>1. /\ call[t].kind = "stage" /\ call[t].pc = "walk"
        /\ Continue(t, Responded(call[t], "error"))
    BY DEF StageFails, At
  <1>2. call[t].requests # <<>>
    BY <1>1 DEF TypeInv
  <1>3. QED
    BY <1>1, <1>2, RefusedStep

(* A directory is created, or a file or the contents of a tree are stored. *)
WithDirectory(tr, T, c, d) == [tr EXCEPT ![T][c] = DirectoryEntry(d)]

WithFile(tr, T, c, f) == [tr EXCEPT ![T][c] = FileEntry(f)]

WithTree(tr, T, c, d, f) ==
    [tr EXCEPT ![T][c] = DirectoryEntry(d), ![d] = [n \in Name |-> FileEntry(f)]]

LEMMA ChangedByDirectory ==
    ASSUME NEW tr, IsTree(tr), NEW T \in Linked(tr), NEW c \in Name,
           NEW d \in Dir \ Linked(tr)
    PROVE  LET tr2 == WithDirectory(tr, T, c, d) IN
           Changed(tr, tr2, T, c, {d}) /\ tr2[T][c] = DirectoryEntry(d)
  <1> DEFINE e == DirectoryEntry(d)
             tr2 == [tr EXCEPT ![T][c] = e]
  <1>1. tr \in Contents /\ T \in Dir /\ T # d /\ e \in Entry
    BY IsTreeContents, LinkedClosed, EntryTypes
  <1>2. \A x \in Dir : e = DirectoryEntry(x) => x = d
    BY EntryTypes
  <1>3. \A n \in Name : tr[d][n].type # "directory"
    BY EntryTypes DEF IsTree, Empty
  <1> HIDE DEF e
  <1>4. /\ tr2 \in Contents /\ tr2[T][c] = e
        /\ \A x \in Dir, n \in Name : (x = T /\ n = c) \/ tr2[x][n] = tr[x][n]
    BY <1>1 DEF Contents
  <1> HIDE DEF tr2
  <1>5. \A n \in Name : tr2[d][n].type # "directory"
    BY <1>1, <1>3, <1>4
  <1>6. Changed(tr, tr2, T, c, {d})
    BY <1>1, <1>2, <1>4, <1>5 DEF Changed
  <1>7. QED
    BY <1>4, <1>6 DEF tr2, e, WithDirectory

LEMMA ChangedByFile ==
    ASSUME NEW tr, IsTree(tr), NEW T \in Linked(tr), NEW c \in Name, NEW f \in STRING
    PROVE  LET tr2 == WithFile(tr, T, c, f) IN
           Changed(tr, tr2, T, c, {}) /\ tr2[T][c] = FileEntry(f)
  <1> DEFINE e == FileEntry(f)
             tr2 == [tr EXCEPT ![T][c] = e]
  <1>1. tr \in Contents /\ T \in Dir /\ e \in Entry
    BY IsTreeContents, LinkedClosed, EntryTypes
  <1>2. \A x \in Dir : e # DirectoryEntry(x)
    BY EntryTypes DEF FileEntry, DirectoryEntry
  <1> HIDE DEF e
  <1>4. /\ tr2 \in Contents /\ tr2[T][c] = e
        /\ \A x \in Dir, n \in Name : (x = T /\ n = c) \/ tr2[x][n] = tr[x][n]
    BY <1>1 DEF Contents
  <1> HIDE DEF tr2
  <1>6. Changed(tr, tr2, T, c, {})
    BY <1>1, <1>2, <1>4 DEF Changed
  <1>7. QED
    BY <1>4, <1>6 DEF tr2, e, WithFile

LEMMA ChangedByTree ==
    ASSUME NEW tr, IsTree(tr), NEW T \in Linked(tr), NEW c \in Name,
           NEW d \in Dir \ Linked(tr), NEW f \in STRING
    PROVE  LET tr2 == WithTree(tr, T, c, d, f) IN
           Changed(tr, tr2, T, c, {d}) /\ tr2[T][c] = DirectoryEntry(d)
  <1> DEFINE e == DirectoryEntry(d)
             files == [n \in Name |-> FileEntry(f)]
             tr2 == [tr EXCEPT ![T][c] = e, ![d] = files]
  <1>1. tr \in Contents /\ T \in Dir /\ T # d /\ e \in Entry
    BY IsTreeContents, LinkedClosed, EntryTypes
  <1>2. \A x \in Dir : e = DirectoryEntry(x) => x = d
    BY EntryTypes
  <1>3. files \in [Name -> Entry] /\ \A n \in Name : files[n].type # "directory"
    BY EntryTypes
  <1> HIDE DEF e, files
  <1>4. /\ tr2 \in Contents /\ tr2[T][c] = e
        /\ \A x \in Dir \ {d}, n \in Name : (x = T /\ n = c) \/ tr2[x][n] = tr[x][n]
        /\ tr2[d] = files
    BY <1>1, <1>3 DEF Contents
  <1> HIDE DEF tr2
  <1>5. \A n \in Name : tr2[d][n].type # "directory"
    BY <1>3, <1>4
  <1>6. Changed(tr, tr2, T, c, {d})
    BY <1>1, <1>2, <1>4, <1>5 DEF Changed
  <1>7. QED
    BY <1>4, <1>6 DEF tr2, e, files, WithTree

LEMMA FreshProperties ==
    ASSUME TypeInv, Fresh # {}
    PROVE  NewDirectory \in Dir \ Linked(tree) /\ Unentered({NewDirectory})
  <1>1. NewDirectory \in Fresh
    BY DEF NewDirectory
  <1>2. \A t \in Thread : call[t].stack \in Seq(Dir)
    BY CallFields DEF TypeInv, StageCall, StatCall
  <1>3. \A t \in Thread : DOMAIN call[t].stack = 1 .. Len(call[t].stack)
    BY <1>2, LenProperties
  <1>4. QED
    BY <1>1, <1>3 DEF Fresh, Unentered

LEMMA StageOnDirectoryStep ==
    ASSUME TypeInv, NEW t \in Thread, StageOnDirectory(t)
    PROVE  CallStep(t, StageCall) /\ StageStep(t)
  <1> DEFINE T == Last(call[t])  n == Head(call[t].todo)  todo == Tail(call[t].todo)
  <1>1. /\ call[t].kind = "stage" /\ call[t].pc = "walk" /\ call[t].todo # <<>>
        /\ call[t].stack # <<>> /\ n \in Name /\ T \in Linked(tree)
        /\ Len(call[t].todo) # 1
    BY DEF StageOnDirectory, AtName, Walking, Component, IsTerminal, Top, Last
  <1>2. call[t].requests # <<>>
    BY <1>1 DEF TypeInv
  <1>3. AtEntry(tree, call[t])
    BY <1>1, <1>2 DEF AtEntry
  <1>4. /\ call[t] \in StageCall /\ todo \in Seq(Word) /\ call[t].stack \in Seq(Dir)
        /\ T \in Dir /\ IsTree(tree)
    BY <1>1, StageCallTypes DEF TypeInv
  <1>5. ASSUME NEW d \in Dir
        PROVE  LET x == Push(t, d) IN
               /\ x \in StageCall /\ x.pc = call[t].pc /\ x.requests = call[t].requests
               /\ x.responses = call[t].responses /\ x.todo = todo
               /\ x.stack = Append(call[t].stack, d)
               /\ x.undisturbed = call[t].undisturbed
    <2> DEFINE stack == Append(call[t].stack, d)
    <2>1. stack \in Seq(Dir)
      BY <1>4, AppendProperties
    <2>2. Push(t, d) = Moved(call[t], todo, stack)
      BY <1>4 DEF Push, Moved, StageCall, CallOf
    <2> HIDE DEF stack, todo
    <2>3. LET x == Moved(call[t], todo, stack) IN
          /\ x \in StageCall /\ x.pc = call[t].pc /\ x.requests = call[t].requests
          /\ x.responses = call[t].responses /\ x.todo = todo /\ x.stack = stack
          /\ x.undisturbed = call[t].undisturbed
      BY <1>4, <2>1, MovedFields DEF StageCall
    <2>4. QED
      BY <2>2, <2>3 DEF stack
  <1>6. tree[T][n] \in Entry /\ Child(t) = tree[T][n]
    BY <1>1, <1>4 DEF IsTree, Child, Top, Component, Last
  <1>7. CASE tree[T][n].type = "directory"
    <2> DEFINE d == tree[T][n].dir  x == Push(t, d)
    <2>1. d \in Dir /\ tree[T][n] = DirectoryEntry(d)
      BY <1>6, <1>7, EntryTypes
    <2>2. Continue(t, x)
      BY <1>6, <1>7 DEF StageOnDirectory
    <2> HIDE DEF d
    <2>3. /\ x \in StageCall /\ x.pc = call[t].pc /\ x.requests = call[t].requests
          /\ x.responses = call[t].responses /\ x.todo = todo
          /\ x.stack = Append(call[t].stack, d) /\ x.undisturbed = call[t].undisturbed
      BY <2>1, <1>5
    <2> HIDE DEF x
    <2>4. /\ call'[t] = x /\ tree' = tree /\ scenario' = scenario /\ OthersSame(t)
          /\ call' = [u \in Thread |-> call'[u]]
      BY <2>2, ContinueOthers
    <2>5. CallStep(t, StageCall)
      BY <2>3, <2>4 DEF CallStep
    <2>6. EnterStep(tree, tree', call[t], call'[t], d)
      BY <1>1, <1>3, <2>1, <2>3, <2>4 DEF EnterStep, Moves
    <2>7. QED
      BY <2>5, <2>6 DEF StageStep, QuietStep
  <1>8. CASE tree[T][n].type # "directory"
    <2> DEFINE d == NewDirectory  x == Push(t, d)
               tr2 == WithDirectory(tree, T, n, d)
    <2>1. Fresh # {} /\ Update(t, tr2, x)
      BY <1>6, <1>8 DEF StageOnDirectory, CreateAndEnter, Top, Component, Last, WithDirectory
    <2>2. d \in Dir \ Linked(tree) /\ Unentered({d})
      BY <2>1, FreshProperties
    <2>9. T \in Linked(tree) /\ n \in Name /\ IsTree(tree) /\ d \in Dir \ Linked(tree)
      BY <1>1, <1>4, <2>2
    <2> HIDE DEF d, T, n
    <2>3. Changed(tree, tr2, T, n, {d}) /\ tr2[T][n] = DirectoryEntry(d)
      BY <2>9, ChangedByDirectory, Zenon
    <2>4. /\ x \in StageCall /\ x.pc = call[t].pc /\ x.requests = call[t].requests
          /\ x.responses = call[t].responses /\ x.todo = todo
          /\ x.stack = Append(call[t].stack, d) /\ x.undisturbed = call[t].undisturbed
      BY <2>2, <1>5
    <2> HIDE DEF x, tr2
    <2>5. /\ call'[t] = x /\ tree' = Pruned(tr2) /\ scenario' = scenario /\ OthersSame(t)
          /\ call' = [u \in Thread |-> call'[u]]
      BY <2>1, UpdateOthers
    <2>6. CallStep(t, StageCall)
      BY <2>4, <2>5 DEF CallStep
    <2>7. CreateStep(tree, tree', call[t], call'[t], tr2, d)
      BY <1>1, <1>3, <1>8, <2>2, <2>3, <2>4, <2>5 DEF CreateStep, Moves, T, n
    <2>8. QED
      BY <2>2, <2>6, <2>7 DEF StageStep
  <1>9. QED
    BY <1>7, <1>8

LEMMA StoredStep ==
    ASSUME TypeInv, NEW t \in Thread, AtEntry(tree, call[t]), call[t].kind = "stage",
           Len(call[t].todo) = 1, NEW tr2, NEW New,
           Changed(tree, tr2, Last(call[t]), Head(call[t].todo), New), Unentered(New),
           \/ /\ Head(call[t].requests).type = "file"
              /\ tr2[Last(call[t])][Head(call[t].todo)] =
                   FileEntry(Head(call[t].requests).digest)
           \/ /\ Head(call[t].requests).type = "tree"
              /\ \E d \in Dir : tr2[Last(call[t])][Head(call[t].todo)] = DirectoryEntry(d),
           Update(t, tr2, Responded(call[t], "OK"))
    PROVE  CallStep(t, StageCall) /\ StageStep(t)
  <1> DEFINE x == Responded(call[t], "OK")
  <1>1. call[t] \in StageCall /\ "OK" \in Response /\ call[t].requests # <<>>
    BY StageCallTypes, ResponseTypes DEF AtEntry
  <1>2. /\ x \in StageCall /\ x.pc = "next" /\ x.requests = Tail(call[t].requests)
        /\ x.responses = Append(call[t].responses, "OK")
        /\ x.undisturbed = call[t].undisturbed
    BY <1>1, RespondedFields DEF StageCall
  <1> HIDE DEF x
  <1>3. /\ call'[t] = x /\ tree' = Pruned(tr2) /\ scenario' = scenario /\ OthersSame(t)
        /\ call' = [u \in Thread |-> call'[u]]
    BY UpdateOthers DEF x
  <1>4. CallStep(t, StageCall)
    BY <1>2, <1>3 DEF CallStep
  <1>5. StoreStep(tree, tree', call[t], call'[t], tr2, New)
    BY <1>2, <1>3 DEF StoreStep
  <1>6. QED
    BY <1>4, <1>5 DEF StageStep

LEMMA StageFileStep ==
    ASSUME TypeInv, NEW t \in Thread, StageFile(t)
    PROVE  CallStep(t, StageCall) /\ StageStep(t)
  <1> DEFINE T == Last(call[t])  n == Head(call[t].todo)
             f == Head(call[t].requests).digest
             tr2 == WithFile(tree, T, n, f)
  <1>1. /\ call[t].kind = "stage" /\ call[t].pc = "walk" /\ call[t].todo # <<>>
        /\ call[t].stack # <<>> /\ n \in Name /\ T \in Linked(tree)
        /\ Len(call[t].todo) = 1 /\ Head(call[t].requests).type = "file"
        /\ Update(t, tr2, Responded(call[t], "OK"))
    BY DEF StageFile, AtName, At, Walking, Component, IsTerminal, Top, Last, Request, WithFile
  <1>2. call[t].requests # <<>> /\ IsTree(tree)
    BY <1>1 DEF TypeInv
  <1>3. AtEntry(tree, call[t])
    BY <1>1, <1>2 DEF AtEntry
  <1>4. f \in STRING
    BY <1>1, <1>2, StageCallTypes
  <1> HIDE DEF f, T, n
  <1>5. Changed(tree, tr2, T, n, {}) /\ tr2[T][n] = FileEntry(f)
    BY <1>1, <1>2, <1>4, ChangedByFile
  <1>6. Unentered({})
    BY DEF Unentered
  <1> HIDE DEF tr2
  <1>7. QED
    BY <1>1, <1>3, <1>5, <1>6, StoredStep DEF T, n, f

LEMMA StageTreeStep ==
    ASSUME TypeInv, NEW t \in Thread, StageTree(t)
    PROVE  CallStep(t, StageCall) /\ StageStep(t)
  <1> DEFINE T == Last(call[t])  n == Head(call[t].todo)
             f == Head(call[t].requests).digest
             d == NewDirectory
             tr2 == WithTree(tree, T, n, d, f)
  <1>1. /\ call[t].kind = "stage" /\ call[t].pc = "walk" /\ call[t].todo # <<>>
        /\ call[t].stack # <<>> /\ n \in Name /\ T \in Linked(tree)
        /\ Len(call[t].todo) = 1 /\ Head(call[t].requests).type = "tree"
        /\ Fresh # {}
        /\ Update(t, tr2, Responded(call[t], "OK"))
    BY DEF StageTree, AtName, At, Walking, Component, IsTerminal, Top, Last, Request, WithTree
  <1>2. call[t].requests # <<>> /\ IsTree(tree)
    BY <1>1 DEF TypeInv
  <1>3. AtEntry(tree, call[t])
    BY <1>1, <1>2 DEF AtEntry
  <1>4. f \in STRING
    BY <1>1, <1>2, StageCallTypes
  <1>5. d \in Dir \ Linked(tree) /\ Unentered({d})
    BY <1>1, FreshProperties
  <1> HIDE DEF f, T, n, d
  <1>6. Changed(tree, tr2, T, n, {d}) /\ tr2[T][n] = DirectoryEntry(d)
    BY <1>1, <1>2, <1>4, <1>5, ChangedByTree
  <1> HIDE DEF tr2
  <1>7. \E x \in Dir : tr2[T][n] = DirectoryEntry(x)
    BY <1>5, <1>6
  <1>8. QED
    BY <1>1, <1>3, <1>5, <1>6, <1>7, StoredStep DEF T, n

-----------------------------------------------------------------------------
(* The reference definition of lstat(), one component at a time.           *)
LastStep(tr, c, links, follow, k, before) ==
    [d \in Dir |-> StatComponent(tr, d, c[Len(c) - k + 1], From(c, Len(c) - k + 2),
                                 links, before, follow)]

Ends == [d \in Dir |-> Directory]

LastUpTo(tr, c, links, follow, m, f) ==
    f = [k \in 0 .. m |-> IF k = 0 THEN Ends
                          ELSE LastStep(tr, c, links, follow, k, f[k - 1])]

LEMMA LastExists ==
    ASSUME NEW tr, NEW c, NEW links, NEW follow
    PROVE  \A m \in Nat : \E f : LastUpTo(tr, c, links, follow, m, f)
  <1> DEFINE Step(k, before) == LastStep(tr, c, links, follow, k, before)
             S == {m \in Nat : \E f : LastUpTo(tr, c, links, follow, m, f)}
  <1>1. 0 \in S
    <2> DEFINE f == [k \in 0 .. 0 |-> Ends]
    <2>1. f = [k \in 0 .. 0 |-> IF k = 0 THEN Ends ELSE Step(k, f[k - 1])]
      OBVIOUS
    <2>2. LastUpTo(tr, c, links, follow, 0, f)
      BY <2>1 DEF LastUpTo
    <2>3. QED
      BY <2>2
  <1>2. ASSUME NEW m \in S
        PROVE  m + 1 \in S
    <2>1. PICK f : LastUpTo(tr, c, links, follow, m, f)
      OBVIOUS
    <2> DEFINE g == [k \in 0 .. m + 1 |-> IF k = m + 1 THEN Step(m + 1, f[m]) ELSE f[k]]
               h == [k \in 0 .. m + 1 |-> IF k = 0 THEN Ends ELSE Step(k, g[k - 1])]
    <2>2. m \in Nat
      OBVIOUS
    <2>3. \A k \in 0 .. m : f[k] = IF k = 0 THEN Ends ELSE Step(k, f[k - 1])
      BY <2>1 DEF LastUpTo
    <2> HIDE DEF Step
    <2>4. ASSUME NEW k \in 0 .. m + 1
          PROVE  g[k] = h[k]
      <3>1. CASE k = m + 1
        <4>1. k # 0 /\ k - 1 = m /\ m \in 0 .. m + 1 /\ m # m + 1
          BY <3>1, <2>2
        <4>2. g[k] = Step(m + 1, f[m]) /\ g[m] = f[m]
          BY <3>1, <4>1
        <4>3. h[k] = Step(m + 1, g[m])
          BY <3>1, <4>1
        <4>4. QED
          BY <4>2, <4>3
      <3>2. CASE k # m + 1
        <4>1. k \in 0 .. m /\ (k # 0 => k - 1 \in 0 .. m + 1 /\ k - 1 # m + 1)
          BY <3>2, <2>2
        <4>2. k # 0 => g[k - 1] = f[k - 1]
          BY <4>1
        <4>3. g[k] = f[k]
          BY <3>2, <4>1
        <4>4. h[k] = IF k = 0 THEN Ends ELSE Step(k, f[k - 1])
          BY <4>2
        <4>5. QED
          BY <2>3, <4>1, <4>3, <4>4
      <3>3. QED
        BY <3>1, <3>2
    <2>5. g = h
      BY <2>4
    <2>6. LastUpTo(tr, c, links, follow, m + 1, g)
      BY <2>5 DEF LastUpTo, Step
    <2>7. QED
      BY <2>2, <2>6
  <1>3. S \in SUBSET Nat
    OBVIOUS
  <1> HIDE DEF S
  <1>4. S = Nat
    BY <1>1, <1>2, <1>3, SetInduction
  <1>5. QED
    BY <1>4 DEF S

LEMMA StatLastEquations ==
    ASSUME NEW tr, NEW c \in Seq(Word), NEW links, NEW follow
    PROVE  /\ StatLast(tr, c, links, follow)[0] = Ends
           /\ \A k \in 1 .. Len(c) :
                 StatLast(tr, c, links, follow)[k] =
                   LastStep(tr, c, links, follow, k, StatLast(tr, c, links, follow)[k - 1])
  <1> DEFINE f == StatLast(tr, c, links, follow)  n == Len(c)
  <1>1. n \in Nat
    BY LenProperties
  <1>2. f = CHOOSE g : LastUpTo(tr, c, links, follow, n, g)
    BY Zenon DEF StatLast, LastUpTo, LastStep, Ends
  <1>3. LastUpTo(tr, c, links, follow, n, f)
    BY <1>1, <1>2, LastExists
  <1> HIDE DEF f, n
  <1>4. f[0] = Ends /\ \A k \in 1 .. n : f[k] = LastStep(tr, c, links, follow, k, f[k - 1])
    BY <1>1, <1>3 DEF LastUpTo
  <1>5. QED
    BY <1>4 DEF f, n

LEMMA FromTail ==
    ASSUME NEW c \in Seq(Word), c # <<>>, NEW i \in Nat \ {0}, i <= Len(c)
    PROVE  /\ From(c, i + 1) = From(Tail(c), i)
           /\ i < Len(c) => c[i + 1] = Tail(c)[i]
  <1> DEFINE r == Tail(c)  n == Len(c)  a == From(c, i + 1)  b == From(r, i)
  <1>1. n \in Nat \ {0} /\ c \in [1 .. n -> Word]
    BY EmptySeq, LenProperties
  <1>2. /\ r \in Seq(Word) /\ Len(r) = n - 1
        /\ \A j \in 1 .. Len(r) : r[j] = c[j + 1]
    BY HeadTailProperties
  <1>3. r \in [1 .. Len(r) -> Word]
    BY <1>2, LenProperties
  <1> DEFINE m == n - 1
  <1>4. Len(r) = m /\ m \in Nat /\ m + 1 = n
    BY <1>1, <1>2
  <1> HIDE DEF n, r
  <1>5. (\A j \in i + 1 .. n : c[j] \in Word) /\ (\A j \in i .. m : r[j] \in Word)
    BY <1>1, <1>3, <1>4
  <1> HIDE DEF m
  <1>6. /\ a \in Seq(Word) /\ Len(a) = IF i + 1 <= n THEN n - (i + 1) + 1 ELSE 0
        /\ \A j \in 1 .. n - (i + 1) + 1 : a[j] = c[i + 1 + j - 1]
    BY <1>1, <1>5, SubSeqProperties DEF From, n
  <1>7. /\ b \in Seq(Word) /\ Len(b) = IF i <= m THEN m - i + 1 ELSE 0
        /\ \A j \in 1 .. m - i + 1 : b[j] = r[i + j - 1]
    BY <1>4, <1>5, SubSeqProperties DEF From
  <1> HIDE DEF a, b
  <1>8. i <= n
    BY DEF n
  <1>9. Len(a) = m + 1 - i /\ Len(b) = m + 1 - i
    BY <1>4, <1>6, <1>7, <1>8
  <1>10. ASSUME NEW j \in 1 .. m + 1 - i
         PROVE  a[j] = b[j]
    <2>1. j \in 1 .. n - (i + 1) + 1 /\ i + 1 + j - 1 = i + j
      BY <1>4, <1>8
    <2>2. j \in 1 .. m - i + 1 /\ i + j - 1 \in 1 .. m /\ i + j - 1 + 1 = i + j
      BY <1>4, <1>8
    <2>3. a[j] = c[i + j]
      BY <2>1, <1>6
    <2>4. b[j] = r[i + j - 1]
      BY <2>2, <1>7
    <2>5. r[i + j - 1] = c[i + j - 1 + 1]
      BY <2>2, <1>2, <1>4
    <2>6. QED
      BY <2>2, <2>3, <2>4, <2>5
  <1>11. a = b
    BY <1>6, <1>7, <1>9, <1>10, SeqEqual
  <1>12. i < n => r[i] = c[i + 1]
    BY <1>2, <1>4
  <1>13. QED
    BY <1>11, <1>12 DEF a, b, r, n

(* The result for the last components does not depend on the first ones.   *)
LEMMA StatLastTail ==
    ASSUME NEW tr, NEW c \in Seq(Word), c # <<>>, NEW links, NEW follow
    PROVE  StatLast(tr, c, links, follow)[Len(c) - 1] =
             StatLast(tr, Tail(c), links, follow)[Len(Tail(c))]
  <1> DEFINE r == Tail(c)  n == Len(c)  m == Len(r)
             f == StatLast(tr, c, links, follow)
             g == StatLast(tr, r, links, follow)
             S == {k \in Nat : k <= m => f[k] = g[k]}
  <1>1. n \in Nat \ {0} /\ r \in Seq(Word) /\ m = n - 1 /\ m \in Nat
    BY EmptySeq, LenProperties, HeadTailProperties
  <1>2. f[0] = Ends /\ \A k \in 1 .. n : f[k] = LastStep(tr, c, links, follow, k, f[k - 1])
    BY StatLastEquations
  <1>3. g[0] = Ends /\ \A k \in 1 .. m : g[k] = LastStep(tr, r, links, follow, k, g[k - 1])
    <2>1. r \in Seq(Word)
      BY <1>1
    <2> HIDE DEF r
    <2>2. QED
      BY <2>1, StatLastEquations
  <1>4. ASSUME NEW k \in 1 .. m, NEW before
        PROVE  LastStep(tr, c, links, follow, k, before) =
                 LastStep(tr, r, links, follow, k, before)
    <2> DEFINE i == m - k + 1
    <2> HIDE DEF n, m, f, g
    <2>1. /\ i \in Nat \ {0} /\ i <= n /\ i < n /\ i + 1 <= n
          /\ n - k + 1 = i + 1 /\ n - k + 2 = i + 1 + 1 /\ m - k + 2 = i + 1
      BY <1>1
    <2> HIDE DEF i
    <2>2. c[i + 1] = r[i] /\ From(c, i + 1 + 1) = From(r, i + 1)
      BY <2>1, FromTail DEF n
    <2>3. i = m - k + 1
      BY DEF i
    <2>4. c[n - k + 1] = r[m - k + 1] /\ From(c, n - k + 2) = From(r, m - k + 2)
      BY <2>1, <2>2, <2>3
    <2>5. QED
      BY <2>4 DEF LastStep, n, m
  <1> HIDE DEF f, g, n, m
  <1>5. 0 \in S
    BY <1>2, <1>3
  <1>6. ASSUME NEW k \in S
        PROVE  k + 1 \in S
    <2>1. SUFFICES ASSUME k + 1 <= m
                   PROVE  f[k + 1] = g[k + 1]
      OBVIOUS
    <2>2. k \in Nat /\ k + 1 \in 1 .. n /\ k + 1 \in 1 .. m /\ k + 1 - 1 = k /\ f[k] = g[k]
      BY <1>1, <2>1
    <2>3. f[k + 1] = LastStep(tr, c, links, follow, k + 1, f[k])
      BY <1>2, <2>2
    <2>4. g[k + 1] = LastStep(tr, r, links, follow, k + 1, f[k])
      BY <1>3, <2>2
    <2>5. QED
      BY <1>4, <2>2, <2>3, <2>4
  <1>7. S \in SUBSET Nat
    OBVIOUS
  <1> HIDE DEF S
  <1>8. S = Nat
    BY <1>5, <1>6, <1>7, SetInduction
  <1>9. f[m] = g[m]
    BY <1>1, <1>8 DEF S
  <1>10. QED
    BY <1>1, <1>9 DEF f, g, n, m

LinksUpTo(tr, m, f) ==
    f = [l \in 0 .. m |-> IF l = 0 THEN StatAll(tr, 0, <<>>) ELSE StatAll(tr, l, f[l - 1])]

LEMMA LinksExist ==
    ASSUME NEW tr
    PROVE  \A m \in Nat : \E f : LinksUpTo(tr, m, f)
  <1> DEFINE Step(l, before) == StatAll(tr, l, before)
             First == StatAll(tr, 0, <<>>)
             S == {m \in Nat : \E f : LinksUpTo(tr, m, f)}
  <1>1. 0 \in S
    <2> DEFINE f == [l \in 0 .. 0 |-> First]
    <2> HIDE DEF First
    <2>1. f = [l \in 0 .. 0 |-> IF l = 0 THEN First ELSE Step(l, f[l - 1])]
      OBVIOUS
    <2>2. LinksUpTo(tr, 0, f)
      BY <2>1 DEF LinksUpTo, First
    <2>3. QED
      BY <2>2
  <1>2. ASSUME NEW m \in S
        PROVE  m + 1 \in S
    <2>1. PICK f : LinksUpTo(tr, m, f)
      OBVIOUS
    <2> DEFINE g == [l \in 0 .. m + 1 |-> IF l = m + 1 THEN Step(m + 1, f[m]) ELSE f[l]]
               h == [l \in 0 .. m + 1 |-> IF l = 0 THEN First ELSE Step(l, g[l - 1])]
    <2>2. m \in Nat
      OBVIOUS
    <2>3. \A l \in 0 .. m : f[l] = IF l = 0 THEN First ELSE Step(l, f[l - 1])
      BY <2>1 DEF LinksUpTo
    <2> HIDE DEF Step, First
    <2>4. ASSUME NEW l \in 0 .. m + 1
          PROVE  g[l] = h[l]
      <3>1. CASE l = m + 1
        <4>1. l # 0 /\ l - 1 = m /\ m \in 0 .. m + 1 /\ m # m + 1
          BY <3>1, <2>2
        <4>2. g[l] = Step(m + 1, f[m]) /\ g[m] = f[m]
          BY <3>1, <4>1
        <4>3. h[l] = Step(m + 1, g[m])
          BY <3>1, <4>1
        <4>4. QED
          BY <4>2, <4>3
      <3>2. CASE l # m + 1
        <4>1. l \in 0 .. m /\ (l # 0 => l - 1 \in 0 .. m + 1 /\ l - 1 # m + 1)
          BY <3>2, <2>2
        <4>2. l # 0 => g[l - 1] = f[l - 1]
          BY <4>1
        <4>3. g[l] = f[l]
          BY <3>2, <4>1
        <4>4. h[l] = IF l = 0 THEN First ELSE Step(l, f[l - 1])
          BY <4>2
        <4>5. QED
          BY <2>3, <4>1, <4>3, <4>4
      <3>3. QED
        BY <3>1, <3>2
    <2>5. g = h
      BY <2>4
    <2>6. LinksUpTo(tr, m + 1, g)
      BY <2>5 DEF LinksUpTo, Step, First
    <2>7. QED
      BY <2>2, <2>6
  <1>3. S \in SUBSET Nat
    OBVIOUS
  <1> HIDE DEF S
  <1>4. S = Nat
    BY <1>1, <1>2, <1>3, SetInduction
  <1>5. QED
    BY <1>4 DEF S

(* What follows a symbolic link, if l links may be followed.               *)
Following(tr, l) == IF l = 0 THEN <<>> ELSE StatWithLinks(tr, l - 1)

LEMMA StatWithLinksEquation ==
    ASSUME NEW tr, NEW l \in Nat
    PROVE  StatWithLinks(tr, l) = StatAll(tr, l, Following(tr, l))
  <1> DEFINE F(m) == CHOOSE f : LinksUpTo(tr, m, f)
             First == StatAll(tr, 0, <<>>)
  <1>1. \A m \in Nat : StatWithLinks(tr, m) = F(m)[m]
    BY Zenon DEF StatWithLinks, LinksUpTo
  <1>2. ASSUME NEW m \in Nat
        PROVE  LinksUpTo(tr, m, F(m))
    BY LinksExist
  <1> HIDE DEF F
  <1>3. \A m \in Nat : \A i \in 0 .. m :
           F(m)[i] = IF i = 0 THEN First ELSE StatAll(tr, i, F(m)[i - 1])
    BY <1>2 DEF LinksUpTo
  <1> HIDE DEF First
  <1>4. ASSUME NEW m \in Nat
        PROVE  F(m)[0] = First
    <2>1. 0 \in 0 .. m
      OBVIOUS
    <2>2. QED
      BY <1>3, <2>1
  <1>5. \A m \in Nat : \A i \in 1 .. m : F(m)[i] = StatAll(tr, i, F(m)[i - 1])
    BY <1>3
  <1> DEFINE S == {i \in Nat : \A m, n \in Nat : i <= m /\ i <= n => F(m)[i] = F(n)[i]}
  <1>6. 0 \in S
    BY <1>4
  <1>7. ASSUME NEW i \in S
        PROVE  i + 1 \in S
    <2>1. SUFFICES ASSUME NEW m \in Nat, NEW n \in Nat, i + 1 <= m, i + 1 <= n
                   PROVE  F(m)[i + 1] = F(n)[i + 1]
      OBVIOUS
    <2>2. i \in Nat /\ i + 1 \in 1 .. m /\ i + 1 \in 1 .. n /\ i + 1 - 1 = i /\ i <= m /\ i <= n
      BY <2>1
    <2>3. F(m)[i] = F(n)[i]
      BY <2>2
    <2>4. F(m)[i + 1] = StatAll(tr, i + 1, F(m)[i]) /\ F(n)[i + 1] = StatAll(tr, i + 1, F(n)[i])
      BY <2>2, <1>5
    <2>5. QED
      BY <2>3, <2>4
  <1>8. S \in SUBSET Nat
    OBVIOUS
  <1> HIDE DEF S
  <1>9. S = Nat
    BY <1>6, <1>7, <1>8, SetInduction
  <1>10. CASE l = 0
    BY <1>1, <1>4, <1>10 DEF Following, First
  <1>11. CASE l # 0
    <2>1. l - 1 \in Nat /\ l \in 1 .. l /\ l - 1 <= l - 1 /\ l - 1 <= l
      BY <1>11
    <2>2. F(l)[l] = StatAll(tr, l, F(l)[l - 1])
      BY <2>1, <1>5
    <2>3. F(l)[l - 1] = F(l - 1)[l - 1]
      BY <2>1, <1>9 DEF S
    <2>4. StatWithLinks(tr, l - 1) = F(l - 1)[l - 1] /\ StatWithLinks(tr, l) = F(l)[l]
      BY <2>1, <1>1
    <2>5. QED
      BY <1>11, <2>2, <2>3, <2>4 DEF Following
  <1>12. QED
    BY <1>10, <1>11

StatFrom(tr, l, d, c) == StatWithLinks(tr, l)[<<d, c>>]

LEMMA StatFromLast ==
    ASSUME NEW tr, NEW l \in Nat, NEW d \in Dir, NEW c \in Seq(Word)
    PROVE  StatFrom(tr, l, d, c) = StatLast(tr, c, l, Following(tr, l))[Len(c)][d]
  <1> DEFINE f == Following(tr, l)
             x == <<d, c>>
  <1>1. c \in Seq(STRING)
    BY DEF Word
  <1>2. x \in Dir \X Seq(STRING) /\ x[1] = d /\ x[2] = c
    BY <1>1
  <1> HIDE DEF f, x
  <1>3. StatAll(tr, l, f)[x] = StatLast(tr, x[2], l, f)[Len(x[2])][x[1]]
    BY <1>2 DEF StatAll
  <1>4. StatWithLinks(tr, l) = StatAll(tr, l, f)
    BY StatWithLinksEquation DEF f
  <1>5. QED
    BY <1>2, <1>3, <1>4 DEF StatFrom, f, x

LEMMA StatFromNothing ==
    ASSUME NEW tr, NEW l \in Nat, NEW d \in Dir
    PROVE  StatFrom(tr, l, d, <<>>) = Directory
  <1> DEFINE c == <<>>  f == Following(tr, l)
  <1>1. c \in Seq(Word) /\ Len(c) = 0
    BY EmptySeq
  <1> HIDE DEF c, f
  <1>6. c \in Seq(Word)
    BY <1>1
  <1>2. StatLast(tr, c, l, f)[0] = Ends
    BY <1>6, StatLastEquations, Zenon
  <1>3. StatFrom(tr, l, d, c) = StatLast(tr, c, l, f)[Len(c)][d]
    BY <1>1, StatFromLast DEF f
  <1>4. Ends[d] = Directory
    BY DEF Ends
  <1>5. QED
    BY <1>1, <1>2, <1>3, <1>4 DEF c

(* One component is resolved, and then the others.                         *)
LEMMA StatFromHead ==
    ASSUME NEW tr, NEW l \in Nat, NEW d \in Dir, NEW c \in Seq(Word), c # <<>>
    PROVE  \E next :
              /\ \A e \in Dir : next[e] = StatFrom(tr, l, e, Tail(c))
              /\ StatFrom(tr, l, d, c) =
                   StatComponent(tr, d, Head(c), Tail(c), l, next, Following(tr, l))
  <1> DEFINE f == Following(tr, l)  n == Len(c)  r == Tail(c)
             next == StatLast(tr, r, l, f)[Len(r)]
  <1>1. n \in Nat \ {0} /\ r \in Seq(Word) /\ Head(c) = c[1]
    BY EmptySeq, HeadTailProperties
  <1>2. From(c, 2) = r
    BY TailIsSubSeq DEF From
  <1> HIDE DEF f, r
  <1>3. \A e \in Dir : next[e] = StatFrom(tr, l, e, r)
    BY <1>1, StatFromLast DEF f
  <1>4. StatLast(tr, c, l, f)[n - 1] = next
    BY StatLastTail DEF r
  <1> HIDE DEF next
  <1>5. StatLast(tr, c, l, f)[n] = LastStep(tr, c, l, f, n, next)
    <2>1. n \in 1 .. n
      BY <1>1
    <2>2. \A k \in 1 .. n : StatLast(tr, c, l, f)[k] =
                              LastStep(tr, c, l, f, k, StatLast(tr, c, l, f)[k - 1])
      BY StatLastEquations
    <2>3. QED
      BY <2>1, <2>2, <1>4
  <1>6. StatFrom(tr, l, d, c) = StatLast(tr, c, l, f)[n][d]
    BY StatFromLast DEF f
  <1>7. n - n + 1 = 1 /\ n - n + 2 = 2
    BY <1>1
  <1>8. LastStep(tr, c, l, f, n, next)[d] =
          StatComponent(tr, d, c[1], From(c, 2), l, next, f)
    <2>1. LastStep(tr, c, l, f, n, next)[d] =
            StatComponent(tr, d, c[n - n + 1], From(c, n - n + 2), l, next, f)
      BY DEF LastStep
    <2> HIDE DEF n
    <2>2. QED
      BY <1>7, <2>1
  <1>9. QED
    BY <1>1, <1>2, <1>3, <1>5, <1>6, <1>8 DEF f, r

LEMMA StatFromCases ==
    ASSUME NEW tr, NEW l \in Nat, NEW d \in Dir, NEW c \in Seq(Word), c # <<>>,
           NEW e, e = tr[d][Head(c)]
    PROVE  /\ Head(c) = "" => StatFrom(tr, l, d, c) = StatFrom(tr, l, d, Tail(c))
           /\ Head(c) = ".." /\ d = Root => StatFrom(tr, l, d, c) = Unknown
           /\ Head(c) = ".." /\ d # Root /\ Parent(tr, d) \in Dir =>
                 StatFrom(tr, l, d, c) = StatFrom(tr, l, Parent(tr, d), Tail(c))
           /\ Head(c) \in Name /\ e = None => StatFrom(tr, l, d, c) = Missing
           /\ Head(c) \in Name /\ e.type = "directory" /\ e.dir \in Dir =>
                 StatFrom(tr, l, d, c) = StatFrom(tr, l, e.dir, Tail(c))
           /\ Head(c) \in Name /\ e.type \in {"file", "symlink"} /\ Tail(c) = <<>> =>
                 StatFrom(tr, l, d, c) = e
           /\ Head(c) \in Name /\ e.type = "file" /\ Tail(c) # <<>> =>
                 StatFrom(tr, l, d, c) = Error
           /\ Head(c) \in Name /\ e.type = "symlink" /\ Tail(c) # <<>> /\ l = 0 =>
                 StatFrom(tr, l, d, c) = Error
           /\ Head(c) \in Name /\ e.type = "symlink" /\ Tail(c) # <<>> /\ l # 0 =>
                 StatFrom(tr, l, d, c) =
                   StatScope(d, e.target.absolute, e.target.components \o Tail(c),
                             StatWithLinks(tr, l - 1))
  <1> DEFINE h == Head(c)  r == Tail(c)  f == Following(tr, l)
  <1>1. PICK next : /\ \A x \in Dir : next[x] = StatFrom(tr, l, x, r)
                    /\ StatFrom(tr, l, d, c) = StatComponent(tr, d, h, r, l, next, f)
    BY StatFromHead
  <1>2. "" \notin Name /\ ".." \notin Name
    BY ConstantTypes
  <1>3. None.type = "none"
    BY EntryTypes
  <1>4. l # 0 => f = StatWithLinks(tr, l - 1)
    BY DEF Following
  <1> DEFINE v == StatComponent(tr, d, h, r, l, next, f)
             scope == StatScope(d, e.target.absolute, e.target.components \o r, f)
  <1> HIDE DEF h, r, f
  <1>5. e = tr[d][h]
    BY DEF h
  <1>6. v = CASE h = "" -> next[d]
              [] h = ".." -> IF d = Root THEN Unknown ELSE next[Parent(tr, d)]
              [] h \in Name /\ e = None -> Missing
              [] h \in Name /\ e.type = "directory" -> next[e.dir]
              [] h \in Name /\ e.type \in {"file", "symlink"} ->
                   IF r = <<>> THEN e
                   ELSE IF e.type = "file" \/ l = 0 THEN Error
                   ELSE scope
    BY <1>5 DEF StatComponent
  <1> HIDE DEF v, scope
  <1>7. /\ h = "" => v = next[d]
        /\ h = ".." => v = IF d = Root THEN Unknown ELSE next[Parent(tr, d)]
    BY <1>2, <1>6
  <1>8. /\ h \in Name /\ e = None => v = Missing
        /\ h \in Name /\ e.type = "directory" => v = next[e.dir]
        /\ h \in Name /\ e.type \in {"file", "symlink"} =>
             v = IF r = <<>> THEN e ELSE IF e.type = "file" \/ l = 0 THEN Error ELSE scope
    BY <1>2, <1>3, <1>6
  <1>9. StatFrom(tr, l, d, c) = v
    BY <1>1 DEF v
  <1>10. /\ h = "" => StatFrom(tr, l, d, c) = StatFrom(tr, l, d, r)
         /\ h = ".." /\ d = Root => StatFrom(tr, l, d, c) = Unknown
         /\ h = ".." /\ d # Root /\ Parent(tr, d) \in Dir =>
              StatFrom(tr, l, d, c) = StatFrom(tr, l, Parent(tr, d), r)
    BY <1>1, <1>7, <1>9
  <1>11. /\ h \in Name /\ e = None => StatFrom(tr, l, d, c) = Missing
         /\ h \in Name /\ e.type = "directory" /\ e.dir \in Dir =>
              StatFrom(tr, l, d, c) = StatFrom(tr, l, e.dir, r)
    BY <1>1, <1>8, <1>9
  <1>12. /\ h \in Name /\ e.type \in {"file", "symlink"} /\ r = <<>> =>
              StatFrom(tr, l, d, c) = e
         /\ h \in Name /\ e.type = "file" /\ r # <<>> => StatFrom(tr, l, d, c) = Error
         /\ h \in Name /\ e.type = "symlink" /\ r # <<>> /\ l = 0 =>
              StatFrom(tr, l, d, c) = Error
         /\ h \in Name /\ e.type = "symlink" /\ r # <<>> /\ l # 0 =>
              StatFrom(tr, l, d, c) = scope
    BY <1>8, <1>9
  <1>13. l # 0 => scope = StatScope(d, e.target.absolute, e.target.components \o r,
                                    StatWithLinks(tr, l - 1))
    BY <1>4 DEF scope
  <1>14. QED
    BY <1>10, <1>11, <1>12, <1>13 DEF h, r

LEMMA StatFromEntry ==
    ASSUME NEW tr, NEW l \in Nat, NEW d \in Dir, NEW c \in Seq(Word), c # <<>>,
           Head(c) \in Name, NEW e, tr[d][Head(c)] = e
    PROVE  /\ e.type \in {"file", "symlink"} /\ Tail(c) = <<>> => StatFrom(tr, l, d, c) = e
           /\ e.type = "file" /\ Tail(c) # <<>> => StatFrom(tr, l, d, c) = Error
           /\ e.type = "symlink" /\ Tail(c) # <<>> /\ l = 0 => StatFrom(tr, l, d, c) = Error
           /\ e.type = "symlink" /\ Tail(c) # <<>> /\ l # 0 =>
                 StatFrom(tr, l, d, c) =
                   StatScope(d, e.target.absolute, e.target.components \o Tail(c),
                             StatWithLinks(tr, l - 1))
  BY StatFromCases, Zenon

LEMMA StatFromDirectory ==
    ASSUME NEW tr, NEW l \in Nat, NEW d \in Dir, NEW c \in Seq(Word), c # <<>>,
           Head(c) \in Name, NEW f \in Dir, tr[d][Head(c)] = DirectoryEntry(f)
    PROVE  StatFrom(tr, l, d, c) = StatFrom(tr, l, f, Tail(c))
  <1> DEFINE h == Head(c)  r == Tail(c)  follow == Following(tr, l)
             e == DirectoryEntry(f)
  <1>1. PICK next : /\ \A x \in Dir : next[x] = StatFrom(tr, l, x, r)
                    /\ StatFrom(tr, l, d, c) = StatComponent(tr, d, h, r, l, next, follow)
    BY StatFromHead
  <1>2. h # "" /\ h # ".." /\ h \in Name /\ tr[d][h] = e
    BY ConstantTypes
  <1>3. e.type = "directory" /\ e.dir = f /\ e # None
    BY EntryTypes
  <1> HIDE DEF h, r, follow, e
  <1>4. StatComponent(tr, d, h, r, l, next, follow) = next[f]
    BY <1>2, <1>3 DEF StatComponent
  <1>5. QED
    BY <1>1, <1>4 DEF r

-----------------------------------------------------------------------------
(* BatchStat(), as long as nothing is staged: the directories on the stack *)
(* are the ones above the current one.                                     *)
StackUp(tr, stack) ==
    /\ stack[Len(stack)] \in Linked(tr)
    /\ \E pl \in Seq(Word) : StackAt(tr, pl, stack)

LEMMA StackUpRoot ==
    ASSUME NEW tr, IsTree(tr)
    PROVE  StackUp(tr, <<Root>>)
  <1>1. Root \in Linked(tr)
    BY IsTreeContents, LinkedClosed
  <1>2. <<Root>>[Len(<<Root>>)] = Root /\ <<>> \in Seq(Word)
    BY EmptySeq
  <1>3. StackAt(tr, <<>>, <<Root>>)
    BY StackRoot
  <1>4. QED
    BY <1>1, <1>2, <1>3 DEF StackUp

LEMMA StackUpPush ==
    ASSUME NEW tr, IsTree(tr), NEW stack \in Seq(Dir), stack # <<>>, StackUp(tr, stack),
           NEW n \in Name, NEW d \in Dir, tr[stack[Len(stack)]][n] = DirectoryEntry(d)
    PROVE  StackUp(tr, Append(stack, d))
  <1>1. PICK pl \in Seq(Word) : StackAt(tr, pl, stack)
    BY DEF StackUp
  <1>2. StackAt(tr, Append(pl, n), Append(stack, d))
    BY <1>1, StackPush
  <1>3. n \in Word
    BY ConstantTypes
  <1>4. Append(pl, n) \in Seq(Word)
    BY <1>3, ButLastAppend
  <1>5. Append(stack, d)[Len(Append(stack, d))] = d /\ stack[Len(stack)] \in Dir
    BY ButLastAppend, ButLastProperties
  <1>6. d \in Linked(tr)
    BY <1>5, NothingRefersToNew
  <1>7. QED
    BY <1>2, <1>4, <1>5, <1>6 DEF StackUp

LEMMA StackUpPop ==
    ASSUME NEW tr, IsTree(tr), NEW stack \in Seq(Dir), StackUp(tr, stack)
    PROVE  /\ stack # <<>>
           /\ ~ (Len(stack) > 1) => stack[Len(stack)] = Root
           /\ Len(stack) > 1 =>
                 /\ ButLast(stack) # <<>>
                 /\ StackUp(tr, ButLast(stack))
                 /\ stack[Len(stack)] # Root
                 /\ Parent(tr, stack[Len(stack)]) = ButLast(stack)[Len(ButLast(stack))]
  <1>1. PICK pl \in Seq(Word) : StackAt(tr, pl, stack)
    BY DEF StackUp
  <1> DEFINE m == Len(pl)  x == stack[m + 1]
  <1>2. m \in Nat
    BY LenProperties
  <1>3. /\ Len(stack) = m + 1
        /\ stack[1] = Root
        /\ \A k \in 1 .. m :
              /\ pl[k] \in Name
              /\ stack[k + 1] \in Linked(tr) =>
                   tr[stack[k]][pl[k]] = DirectoryEntry(stack[k + 1])
    BY <1>1 DEF StackAt
  <1>4. x \in Linked(tr)
    BY <1>3 DEF StackUp
  <1> HIDE DEF m
  <1>5. stack # <<>> /\ stack \in [1 .. m + 1 -> Dir]
    BY <1>2, <1>3, EmptySeq, LenProperties
  <1>6. CASE ~ (Len(stack) > 1)
    <2>1. m = 0 /\ m + 1 = 1
      BY <1>2, <1>3, <1>6
    <2>2. QED
      BY <2>1, <1>3, <1>5, <1>6
  <1>7. CASE Len(stack) > 1
    <2> DEFINE y == stack[m]  s2 == ButLast(stack)  n == pl[m]
    <2>1. m \in 1 .. m /\ m \in 1 .. Len(stack) - 1 /\ Len(stack) - 1 = m
      BY <1>2, <1>3, <1>7
    <2>2. n \in Name /\ tr[y][n] = DirectoryEntry(x)
      BY <2>1, <1>3, <1>4
    <2>3. y \in Dir /\ x \in Dir
      BY <2>1, <1>2, <1>5
    <2>4. s2 \in Seq(Dir) /\ Len(s2) = m /\ s2[m] = y
      BY <2>1, <1>5, ButLastProperties
    <2>5. StackAt(tr, ButLast(pl), s2) /\ ButLast(pl) \in Seq(Word)
      <3>1. pl # <<>>
        BY <2>1, <1>2, EmptySeq DEF m
      <3>2. QED
        BY <3>1, <1>1, <1>7, StackPop, ButLastProperties
    <2> HIDE DEF x, y, s2, n
    <2>6. y \in Linked(tr)
      BY <2>2, <2>3, NothingRefersToNew
    <2>7. StackUp(tr, s2)
      BY <2>4, <2>5, <2>6 DEF StackUp
    <2>8. x # Root /\ \A e \in Dir, b \in Name : tr[e][b] = DirectoryEntry(x) => e = y
      BY <2>2, <2>3, TreeUnique
    <2>9. Parent(tr, x) = y
      BY <2>2, <2>3, <2>8 DEF Parent
    <2>10. s2 # <<>>
      BY <2>1, <2>4, <1>2, EmptySeq
    <2>11. QED
      BY <2>4, <2>7, <2>8, <2>9, <2>10, <1>3, <1>5, <1>7 DEF x, s2
  <1>8. QED
    BY <1>6, <1>7

(* What remains to be resolved gives the result e.                         *)
WalkStat(tr, c, e) ==
    \/ c.todo = <<>> /\ c.stat = e /\ e # Error
    \/ /\ c.stat = Directory
       /\ c.links \in 0 .. MaxLinks
       /\ StackUp(tr, c.stack)
       /\ StatFrom(tr, MaxLinks - c.links, Last(c), c.todo) = e

(* The call has given a response to the first of the requests.             *)
Tracked(c, orig) == Progress(orig, Len(c.responses), c.requests)

Answered(tr, c, orig) ==
    \A i \in 1 .. Len(c.responses) :
        /\ c.responses[i] = StatPath(tr, orig[i], MaxLinks)
        /\ c.responses[i] # Error

CannotResolve(tr, orig) ==
    \E i \in 1 .. Len(orig) : StatPath(tr, orig[i], MaxLinks) = Error

StatFailed(tr, c, orig) ==
    /\ c.pc = "next" /\ c.requests = <<>>
    /\ \/ c.responses = <<IOError>>
       \/ c.responses = <<Error>> /\ CannotResolve(tr, orig)

StatOK(tr, c, orig) ==
    \/ StatFailed(tr, c, orig)
    \/ /\ Tracked(c, orig)
       /\ Answered(tr, c, orig)
       /\ c.pc = "walk" => WalkStat(tr, c, StatPath(tr, Head(c.requests), MaxLinks))

LEMMA ErrorTypes ==
    /\ Missing # Error /\ Directory # Error /\ Unknown # Error
    /\ \A e \in Entry : e # Error /\ e.type \in {"none", "directory", "file", "symlink"}
    /\ \A e \in Entry : e.type = "none" => e = None
    /\ \A e \in Entry : e.type = "symlink" =>
          e.target.absolute \in BOOLEAN /\ e.target.components \in Seq(Word)
  <1>1. /\ Missing # Error /\ Directory # Error /\ Unknown # Error
    BY DEF Missing, Directory, Unknown, Error
  <1>2. ASSUME NEW e \in Entry
        PROVE  /\ e.type \in {"none", "directory", "file", "symlink"}
               /\ e.type = "none" => e = None
               /\ e.type = "symlink" => e.target \in Path
    BY <1>2 DEF Entry, None
  <1>3. \A p \in Path : p.absolute \in BOOLEAN /\ p.components \in Seq(Word)
    BY DEF Path, Word
  <1>4. Error.type = "error"
    BY DEF Error
  <1>5. QED
    BY <1>1, <1>2, <1>3, <1>4

(* A path, or the target of a symbolic link, is about to be resolved.      *)
AtRootName(absolute, components) ==
    absolute /\ components # <<>> /\ Head(components) = RootName

LEMMA ScopeFields ==
    ASSUME NEW c \in StatCall, NEW absolute \in BOOLEAN, NEW components \in Seq(Word)
    PROVE  LET x == Scope(c, absolute, components) IN
           /\ x \in StatCall /\ x.pc = c.pc /\ x.requests = c.requests
           /\ x.responses = c.responses /\ x.undisturbed = c.undisturbed
           /\ x.links = c.links
           /\ ~ absolute =>
                 x.todo = components /\ x.stack = c.stack /\ x.stat = Directory
           /\ AtRootName(absolute, components) =>
                 x.todo = Tail(components) /\ x.stack = <<Root>> /\ x.stat = Directory
           /\ absolute /\ ~ AtRootName(absolute, components) =>
                 x.todo = <<>> /\ x.stat = c.stat
  <1>1. Directory \in Response
    BY ResponseTypes
  <1>2. CASE ~ absolute
    <2> DEFINE dir == Directory
               x == Ended(c, components, dir)
    <2>1. Scope(c, absolute, components) = x
      BY <1>2 DEF Scope, Relative, Ended
    <2>2. dir \in Response
      BY <1>1
    <2> HIDE DEF dir
    <2>3. /\ x \in StatCall /\ x.pc = c.pc /\ x.requests = c.requests
          /\ x.responses = c.responses /\ x.undisturbed = c.undisturbed
          /\ x.todo = components /\ x.stack = c.stack /\ x.stat = dir /\ x.links = c.links
      BY <2>2, EndedFields DEF StatCall
    <2> HIDE DEF x
    <2>4. QED
      BY <1>2, <2>1, <2>3 DEF dir, AtRootName
  <1>3. CASE AtRootName(absolute, components)
    <2> DEFINE dir == Directory  todo == Tail(components)  stack == <<Root>>
               x == Stated(c, todo, stack, dir)
    <2>1. Scope(c, absolute, components) = x
      BY <1>3 DEF Scope, Absolute, Stated, AtRootName
    <2>2. dir \in Response /\ todo \in Seq(Word) /\ Root \in Dir
      BY <1>1, <1>3, HeadTailProperties, ConstantTypes DEF AtRootName
    <2>3. stack \in Seq(Dir)
      BY <2>2
    <2> HIDE DEF dir, todo, stack
    <2>4. /\ x \in StatCall /\ x.pc = c.pc /\ x.requests = c.requests
          /\ x.responses = c.responses /\ x.undisturbed = c.undisturbed
          /\ x.todo = todo /\ x.stack = stack /\ x.stat = dir /\ x.links = c.links
      BY <2>2, <2>3, StatedFields DEF StatCall
    <2> HIDE DEF x
    <2>5. absolute
      BY <1>3 DEF AtRootName
    <2>6. QED
      BY <1>3, <2>1, <2>4, <2>5 DEF todo, stack, dir
  <1>4. CASE absolute /\ ~ AtRootName(absolute, components)
    <2> DEFINE none == <<>>  stack == <<>>
               x == Moved(c, none, stack)
    <2>1. Scope(c, absolute, components) = x
      BY <1>4 DEF Scope, Absolute, Moved, AtRootName
    <2>2. none \in Seq(Word) /\ stack \in Seq(Dir)
      BY EmptySeq
    <2> HIDE DEF none, stack
    <2>3. /\ x \in StatCall /\ x.pc = c.pc /\ x.requests = c.requests
          /\ x.responses = c.responses /\ x.undisturbed = c.undisturbed
          /\ x.todo = none /\ x.stat = c.stat /\ x.links = c.links
      BY <2>2, MovedFields DEF StatCall
    <2> HIDE DEF x
    <2>4. QED
      BY <1>4, <2>1, <2>3 DEF none
  <1>5. QED
    BY <1>2, <1>3, <1>4

LEMMA ScopeWalk ==
    ASSUME NEW tr, IsTree(tr), NEW c \in StatCall, c.stat = Unknown,
           c.links \in 0 .. MaxLinks, StackUp(tr, c.stack),
           NEW absolute \in BOOLEAN, NEW components \in Seq(Word)
    PROVE  WalkStat(tr, Scope(c, absolute, components),
                    StatScope(Last(c), absolute, components,
                              StatWithLinks(tr, MaxLinks - c.links)))
  <1> DEFINE l == MaxLinks - c.links
             x == Scope(c, absolute, components)
             s == StatScope(Last(c), absolute, components, StatWithLinks(tr, l))
  <1>1. /\ x.links = c.links
        /\ ~ absolute => x.todo = components /\ x.stack = c.stack /\ x.stat = Directory
        /\ AtRootName(absolute, components) =>
              x.todo = Tail(components) /\ x.stack = <<Root>> /\ x.stat = Directory
        /\ absolute /\ ~ AtRootName(absolute, components) =>
              x.todo = <<>> /\ x.stat = c.stat
    BY ScopeFields
  <1> HIDE DEF x
  <1>2. CASE ~ absolute
    <2>1. Last(x) = Last(c)
      BY <1>1, <1>2 DEF Last
    <2>2. s = StatFrom(tr, l, Last(c), components)
      BY <1>2 DEF StatScope, StatFrom
    <2> HIDE DEF s
    <2>3. QED
      BY <1>1, <1>2, <2>1, <2>2 DEF WalkStat, x, s
  <1>3. CASE AtRootName(absolute, components)
    <2>1. <<Root>>[Len(<<Root>>)] = Root /\ StackUp(tr, <<Root>>)
      BY StackUpRoot
    <2>2. Last(x) = Root
      BY <1>1, <1>3, <2>1 DEF Last
    <2>3. s = StatFrom(tr, l, Root, Tail(components))
      BY <1>3 DEF StatScope, StatFrom, AtRootName
    <2> HIDE DEF s
    <2>4. QED
      BY <1>1, <1>3, <2>1, <2>2, <2>3 DEF WalkStat, x, s
  <1>4. CASE absolute /\ ~ AtRootName(absolute, components)
    <2>1. s = Unknown
      BY <1>4 DEF StatScope, AtRootName
    <2>2. Unknown # Error
      BY ErrorTypes
    <2> HIDE DEF s
    <2>3. QED
      BY <1>1, <1>4, <2>1, <2>2 DEF WalkStat, x, s
  <1>5. QED
    BY <1>2, <1>3, <1>4

LEMMA StatResponds ==
    ASSUME NEW tr, NEW orig \in Seq(Path), NEW c \in StatCall, c.requests # <<>>,
           Tracked(c, orig), Answered(tr, c, orig),
           NEW r \in Response, r # Error, r = StatPath(tr, Head(c.requests), MaxLinks)
    PROVE  StatOK(tr, Responded(c, r), orig)
  <1> DEFINE n == Len(c.responses)  x == Responded(c, r)
             more == Append(c.responses, r)
  <1>1. c.requests \in Seq(Path) /\ c.responses \in Seq(Response)
    BY CallFields DEF StatCall
  <1>2. n \in Nat
    BY <1>1, LenProperties
  <1>3. Head(c.requests) = orig[n + 1] /\ Progress(orig, n + 1, Tail(c.requests))
    BY <1>1, ProgressTail DEF Tracked
  <1>4. Len(more) = n + 1 /\ more[n + 1] = r /\ \A i \in 1 .. n : more[i] = c.responses[i]
    BY <1>1, ButLastAppend
  <1>5. x.pc = "next" /\ x.requests = Tail(c.requests) /\ x.responses = more
    BY RespondedFields DEF StatCall
  <1>6. \A i \in 1 .. n : /\ c.responses[i] = StatPath(tr, orig[i], MaxLinks)
                          /\ c.responses[i] # Error
    BY DEF Answered
  <1> HIDE DEF n, x, more
  <1>7. \A i \in 1 .. n + 1 : i = n + 1 \/ i \in 1 .. n
    BY <1>2
  <1>8. \A i \in 1 .. Len(more) : /\ more[i] = StatPath(tr, orig[i], MaxLinks)
                                  /\ more[i] # Error
    BY <1>3, <1>4, <1>6, <1>7
  <1>9. QED
    BY <1>3, <1>4, <1>5, <1>8 DEF StatOK, Tracked, Answered, x

LEMMA StatCannot ==
    ASSUME NEW tr, NEW orig \in Seq(Path), NEW c \in StatCall, c.requests # <<>>,
           Tracked(c, orig), StatPath(tr, Head(c.requests), MaxLinks) = Error
    PROVE  StatOK(tr, FailedWith(c, Error), orig)
  <1> DEFINE n == Len(c.responses)  x == FailedWith(c, Error)
  <1>1. c.requests \in Seq(Path) /\ c.responses \in Seq(Response)
    BY CallFields DEF StatCall
  <1>2. n \in Nat /\ Len(orig) \in Nat
    BY <1>1, LenProperties
  <1>3. Head(c.requests) = orig[n + 1] /\ n \in 0 .. Len(orig) - 1
    BY <1>1, ProgressTail DEF Tracked
  <1>8. Error \in Response
    BY ResponseTypes
  <1>4. x.pc = "next" /\ x.requests = <<>> /\ x.responses = <<Error>>
    BY <1>8, FailedFields DEF StatCall
  <1> HIDE DEF n, x
  <1>5. n + 1 \in 1 .. Len(orig)
    BY <1>2, <1>3
  <1>6. CannotResolve(tr, orig)
    BY <1>3, <1>5 DEF CannotResolve
  <1>7. QED
    BY <1>4, <1>6 DEF StatOK, StatFailed, x

(* The steps of BatchStat().                                               *)
StatStep(t) ==
    /\ tree' = tree
    /\ call'[t].pc = "walk" => call'[t].requests # <<>>
    /\ \A orig \in Seq(Path) :
          StatOK(tree, call[t], orig) => StatOK(tree, call'[t], orig)

LEMMA StatCallTypes ==
    ASSUME TypeInv, NEW t \in Thread, call[t].kind = "stat"
    PROVE  /\ call[t] \in StatCall /\ IsTree(tree)
           /\ call[t].pc \in {"next", "walk"}
           /\ call[t].todo \in Seq(Word) /\ call[t].stack \in Seq(Dir)
           /\ call[t].requests \in Seq(Path) /\ call[t].responses \in Seq(Response)
           /\ call[t].stat \in Response /\ call[t].links \in Nat
           /\ call[t].pc = "walk" => call[t].requests # <<>>
           /\ call[t].requests # <<>> =>
                 Head(call[t].requests) \in Path /\ Tail(call[t].requests) \in Seq(Path)
           /\ call[t].todo # <<>> =>
                 Tail(call[t].todo) \in Seq(Word) /\ Head(call[t].todo) \in Word
  <1> DEFINE c == call[t]
  <1>1. c \in StatCall /\ IsTree(tree) /\ (c.pc = "walk" => c.requests # <<>>)
    BY CallKinds DEF TypeInv
  <1> HIDE DEF c
  <1>2. /\ c.pc \in {"next", "walk"}
        /\ c.todo \in Seq(Word) /\ c.stack \in Seq(Dir)
        /\ c.requests \in Seq(Path) /\ c.responses \in Seq(Response)
        /\ c.stat \in Response /\ c.links \in Nat
    BY <1>1, CallFields DEF StatCall
  <1>3. c.requests # <<>> => Head(c.requests) \in Path /\ Tail(c.requests) \in Seq(Path)
    BY <1>2, HeadTailProperties
  <1>4. c.todo # <<>> => Tail(c.todo) \in Seq(Word) /\ Head(c.todo) \in Word
    BY <1>2, HeadTailProperties
  <1>5. QED
    BY <1>1, <1>2, <1>3, <1>4 DEF c

LEMMA StatContinues ==
    ASSUME TypeInv, NEW t \in Thread, NEW x \in StatCall, Continue(t, x),
           x.undisturbed = call[t].undisturbed, x.pc = "walk" => x.requests # <<>>,
           \A orig \in Seq(Path) : StatOK(tree, call[t], orig) => StatOK(tree, x, orig)
    PROVE  CallStep(t, StatCall) /\ StatStep(t)
  <1>1. /\ call'[t] = x /\ tree' = tree /\ scenario' = scenario /\ OthersSame(t)
        /\ call' = [u \in Thread |-> call'[u]]
    BY ContinueOthers
  <1>2. QED
    BY <1>1 DEF CallStep, StatStep

LEMMA StatMoves ==
    ASSUME TypeInv, NEW t \in Thread, call[t].kind = "stat", call[t].pc = "walk",
           NEW x \in StatCall, Continue(t, x), x.undisturbed = call[t].undisturbed,
           x.pc = "walk", x.requests = call[t].requests, x.responses = call[t].responses,
           \A e : WalkStat(tree, call[t], e) => WalkStat(tree, x, e)
    PROVE  CallStep(t, StatCall) /\ StatStep(t)
  <1>1. ASSUME NEW orig \in Seq(Path), StatOK(tree, call[t], orig)
        PROVE  StatOK(tree, x, orig)
    <2>1. /\ Tracked(call[t], orig) /\ Answered(tree, call[t], orig)
          /\ WalkStat(tree, call[t], StatPath(tree, Head(call[t].requests), MaxLinks))
      BY <1>1 DEF StatOK, StatFailed
    <2>2. Tracked(x, orig) /\ Answered(tree, x, orig)
      BY <2>1 DEF Tracked, Answered
    <2>3. WalkStat(tree, x, StatPath(tree, Head(x.requests), MaxLinks))
      BY <2>1
    <2>4. QED
      BY <2>2, <2>3 DEF StatOK
  <1>2. x.requests # <<>>
    BY StatCallTypes
  <1>3. QED
    BY <1>1, <1>2, StatContinues

LEMMA StatRespondStep ==
    ASSUME TypeInv, NEW t \in Thread, call[t].kind = "stat", call[t].pc = "walk",
           NEW r \in Response, Continue(t, Responded(call[t], r)),
           \A e : WalkStat(tree, call[t], e) => r = e /\ r # Error
    PROVE  CallStep(t, StatCall) /\ StatStep(t)
  <1> DEFINE x == Responded(call[t], r)
  <1>1. call[t] \in StatCall /\ call[t].requests # <<>>
    BY StatCallTypes
  <1>2. x \in StatCall /\ x.pc = "next" /\ x.undisturbed = call[t].undisturbed
    BY <1>1, RespondedFields DEF StatCall
  <1>3. ASSUME NEW orig \in Seq(Path), StatOK(tree, call[t], orig)
        PROVE  StatOK(tree, x, orig)
    <2>1. /\ Tracked(call[t], orig) /\ Answered(tree, call[t], orig)
          /\ WalkStat(tree, call[t], StatPath(tree, Head(call[t].requests), MaxLinks))
      BY <1>3 DEF StatOK, StatFailed
    <2>2. r = StatPath(tree, Head(call[t].requests), MaxLinks) /\ r # Error
      BY <2>1
    <2>3. QED
      BY <1>1, <2>1, <2>2, StatResponds
  <1> HIDE DEF x
  <1>4. Continue(t, x)
    BY DEF x
  <1>5. QED
    BY <1>2, <1>3, <1>4, StatContinues

LEMMA StatErrorStep ==
    ASSUME TypeInv, NEW t \in Thread, call[t].kind = "stat", call[t].pc = "walk",
           Continue(t, FailedWith(call[t], Error)),
           \A e : WalkStat(tree, call[t], e) => e = Error
    PROVE  CallStep(t, StatCall) /\ StatStep(t)
  <1> DEFINE x == FailedWith(call[t], Error)
  <1>1. call[t] \in StatCall /\ call[t].requests # <<>>
    BY StatCallTypes
  <1>2. x \in StatCall /\ x.pc = "next" /\ x.undisturbed = call[t].undisturbed
    <2>1. Error \in Response
      BY ResponseTypes
    <2>2. QED
      BY <1>1, <2>1, FailedFields DEF StatCall
  <1>3. ASSUME NEW orig \in Seq(Path), StatOK(tree, call[t], orig)
        PROVE  StatOK(tree, x, orig)
    <2>1. /\ Tracked(call[t], orig) /\ Answered(tree, call[t], orig)
          /\ WalkStat(tree, call[t], StatPath(tree, Head(call[t].requests), MaxLinks))
      BY <1>3 DEF StatOK, StatFailed
    <2>2. StatPath(tree, Head(call[t].requests), MaxLinks) = Error
      BY <2>1
    <2>3. QED
      BY <1>1, <2>1, <2>2, StatCannot
  <1> HIDE DEF x
  <1>4. Continue(t, x)
    BY DEF x
  <1>5. QED
    BY <1>2, <1>3, <1>4, StatContinues

LEMMA LinksLeft ==
    /\ 0 \in 0 .. MaxLinks /\ MaxLinks - 0 = MaxLinks
    /\ \A l \in 0 .. MaxLinks :
          /\ MaxLinks - l \in Nat
          /\ l < MaxLinks <=> MaxLinks - l # 0
          /\ l < MaxLinks => l + 1 \in 0 .. MaxLinks /\ MaxLinks - (l + 1) = MaxLinks - l - 1
  <1>1. MaxLinks \in Nat
    BY ConstantTypes
  <1>2. QED
    BY <1>1

LEMMA WalkStatAt ==
    ASSUME NEW tr, IsTree(tr), NEW c \in StatCall, c.todo # <<>>, NEW e, WalkStat(tr, c, e)
    PROVE  /\ c.stat = Directory /\ c.links \in 0 .. MaxLinks /\ MaxLinks - c.links \in Nat
           /\ StackUp(tr, c.stack) /\ c.stack # <<>> /\ Last(c) \in Dir
           /\ StatFrom(tr, MaxLinks - c.links, Last(c), c.todo) = e
  <1>1. /\ c.stat = Directory /\ c.links \in 0 .. MaxLinks /\ StackUp(tr, c.stack)
        /\ StatFrom(tr, MaxLinks - c.links, Last(c), c.todo) = e
    BY DEF WalkStat
  <1>2. c.stack \in Seq(Dir)
    BY CallFields DEF StatCall
  <1>3. c.stack # <<>>
    BY <1>1, <1>2, StackUpPop
  <1>4. Last(c) \in Dir
    BY <1>2, <1>3, ButLastProperties DEF Last
  <1>5. MaxLinks - c.links \in Nat
    BY <1>1, LinksLeft
  <1>6. QED
    BY <1>1, <1>3, <1>4, <1>5

LEMMA StatSkipDotStep ==
    ASSUME TypeInv, NEW t \in Thread, call[t].kind = "stat", SkipDot(t)
    PROVE  CallStep(t, StatCall) /\ StatStep(t)
  <1> DEFINE todo == Tail(call[t].todo)  x == Skipped(call[t], todo)  c == call[t]
  <1>1. /\ call[t].pc = "walk" /\ call[t].todo # <<>> /\ Head(call[t].todo) = ""
        /\ Continue(t, x)
    BY DEF SkipDot, Component, Skipped
  <1>2. c \in StatCall /\ todo \in Seq(Word) /\ c.todo \in Seq(Word) /\ IsTree(tree)
    BY <1>1, StatCallTypes
  <1> HIDE DEF todo, c
  <1>3. /\ x \in StatCall /\ x.pc = c.pc /\ x.requests = c.requests
        /\ x.responses = c.responses /\ x.todo = todo /\ x.stack = c.stack
        /\ x.stat = c.stat /\ x.links = c.links /\ x.undisturbed = c.undisturbed
    BY <1>2, SkippedFields DEF StatCall, c
  <1> HIDE DEF x
  <1>4. ASSUME NEW e, WalkStat(tree, c, e)
        PROVE  WalkStat(tree, x, e)
    <2> DEFINE l == MaxLinks - c.links
    <2>1. /\ c.stat = Directory /\ c.links \in 0 .. MaxLinks /\ l \in Nat
          /\ StackUp(tree, c.stack) /\ Last(c) \in Dir
          /\ StatFrom(tree, l, Last(c), c.todo) = e
      BY <1>1, <1>2, <1>4, WalkStatAt DEF c
    <2> HIDE DEF l
    <2>2. StatFrom(tree, l, Last(c), c.todo) = StatFrom(tree, l, Last(c), todo)
      BY <1>1, <1>2, <2>1, StatFromCases DEF c, todo
    <2>3. Last(x) = Last(c)
      BY <1>3 DEF Last
    <2>4. QED
      BY <1>3, <2>1, <2>2, <2>3 DEF WalkStat, l
  <1>5. QED
    BY <1>1, <1>3, <1>4, StatMoves DEF c

LEMMA StatBeginStep ==
    ASSUME TypeInv, NEW t \in Thread, StatBegin(t)
    PROVE  CallStep(t, StatCall) /\ StatStep(t)
  <1> DEFINE c == call[t]  p == Head(call[t].requests)
             todo == <<>>  stack == <<Root>>
             b == Begun(c, todo, stack)
             x == Scope(b, p.absolute, Comps(p))
  <1>1. c.kind = "stat" /\ c.pc = "next" /\ c.requests # <<>> /\ Continue(t, x)
    BY DEF StatBegin, At, Request, BeginPath, Begun, Comps
  <1>2. c \in StatCall /\ p \in Path /\ IsTree(tree) /\ Root \in Dir
    BY <1>1, StatCallTypes, ConstantTypes
  <1>3. p.absolute \in BOOLEAN /\ Comps(p) \in Seq(Word)
    BY <1>2, PathTypes
  <1>4. /\ todo \in Seq(Word) /\ stack \in Seq(Dir) /\ StackUp(tree, stack)
        /\ stack[Len(stack)] = Root
    BY <1>2, EmptySeq, StackUpRoot
  <1> HIDE DEF c, p, todo, stack
  <1>5. /\ b \in StatCall /\ b.pc = "walk" /\ b.requests = c.requests
        /\ b.responses = c.responses /\ b.stack = stack
        /\ b.stat = Unknown /\ b.links = 0 /\ b.undisturbed = c.undisturbed
    BY <1>2, <1>4, BegunFields DEF StatCall
  <1> HIDE DEF b
  <1>6. Last(b) = Root
    BY <1>4, <1>5 DEF Last
  <1>7. b.links \in 0 .. MaxLinks /\ MaxLinks - b.links = MaxLinks
    BY <1>5, LinksLeft
  <1>8. /\ x \in StatCall /\ x.pc = b.pc /\ x.requests = b.requests
        /\ x.responses = b.responses /\ x.undisturbed = b.undisturbed
    BY <1>3, <1>5, ScopeFields
  <1>12. WalkStat(tree, x, StatScope(Last(b), p.absolute, Comps(p),
                                     StatWithLinks(tree, MaxLinks - b.links)))
    BY <1>2, <1>3, <1>4, <1>5, <1>7, ScopeWalk
  <1> HIDE DEF x
  <1>9. WalkStat(tree, x, StatPath(tree, p, MaxLinks))
    BY <1>6, <1>7, <1>12 DEF StatPath, Comps
  <1>10. ASSUME NEW orig \in Seq(Path), StatOK(tree, c, orig)
         PROVE  StatOK(tree, x, orig)
    <2>1. Tracked(c, orig) /\ Answered(tree, c, orig)
      BY <1>1, <1>10 DEF StatOK, StatFailed
    <2>2. Tracked(x, orig) /\ Answered(tree, x, orig)
      BY <2>1, <1>5, <1>8 DEF Tracked, Answered
    <2>3. Head(x.requests) = p
      BY <1>5, <1>8 DEF p, c
    <2>4. QED
      BY <2>2, <2>3, <1>9 DEF StatOK
  <1>11. QED
    BY <1>1, <1>5, <1>8, <1>10, StatContinues DEF c

LEMMA StatEndStep ==
    ASSUME TypeInv, NEW t \in Thread, StatEnd(t)
    PROVE  CallStep(t, StatCall) /\ StatStep(t)
  <1> DEFINE c == call[t]
  <1>1. /\ c.kind = "stat" /\ c.pc = "walk" /\ c.todo = <<>>
        /\ Continue(t, Responded(call[t], c.stat))
    BY DEF StatEnd, At
  <1>2. c \in StatCall /\ c.stack \in Seq(Dir) /\ c.stat \in Response /\ IsTree(tree)
    BY <1>1, StatCallTypes
  <1> HIDE DEF c
  <1>3. ASSUME NEW e, WalkStat(tree, c, e)
        PROVE  c.stat = e /\ c.stat # Error
    <2> DEFINE l == MaxLinks - c.links
    <2>1. CASE c.stat = e /\ e # Error
      BY <2>1
    <2>2. CASE /\ c.stat = Directory /\ c.links \in 0 .. MaxLinks
               /\ StackUp(tree, c.stack) /\ StatFrom(tree, l, Last(c), c.todo) = e
      <3>1. l \in Nat
        BY <2>2, LinksLeft
      <3>2. c.stack # <<>>
        BY <1>2, <2>2, StackUpPop
      <3>3. Last(c) \in Dir
        BY <1>2, <3>2, ButLastProperties DEF Last
      <3> HIDE DEF l
      <3>4. e = Directory
        BY <1>1, <2>2, <3>1, <3>3, StatFromNothing
      <3>5. QED
        BY <2>2, <3>4, ErrorTypes
    <2>3. QED
      BY <1>3, <2>1, <2>2 DEF WalkStat
  <1>4. QED
    BY <1>1, <1>2, <1>3, StatRespondStep DEF c

LEMMA StatFailsStep ==
    ASSUME TypeInv, NEW t \in Thread, StatFails(t)
    PROVE  CallStep(t, StatCall) /\ StatStep(t)
  <1> DEFINE x == FailedWith(call[t], IOError)
  <1>1. call[t].kind = "stat" /\ Continue(t, x)
    BY DEF StatFails, Failed, FailedWith
  <1>2. call[t] \in StatCall /\ IOError \in Response
    BY <1>1, StatCallTypes, ResponseTypes
  <1>3. /\ x \in StatCall /\ x.pc = "next" /\ x.undisturbed = call[t].undisturbed
        /\ x.requests = <<>> /\ x.responses = <<IOError>>
    BY <1>2, FailedFields DEF StatCall
  <1> HIDE DEF x
  <1>4. \A orig \in Seq(Path) : StatOK(tree, x, orig)
    BY <1>3 DEF StatOK, StatFailed
  <1>5. QED
    BY <1>1, <1>3, <1>4, StatContinues

LEMMA StatOnUpStep ==
    ASSUME TypeInv, NEW t \in Thread, StatOnUp(t)
    PROVE  CallStep(t, StatCall) /\ StatStep(t)
  <1> DEFINE c == call[t]
  <1>1. /\ call[t].kind = "stat" /\ call[t].pc = "walk" /\ call[t].todo # <<>>
        /\ call[t].stack # <<>> /\ Head(call[t].todo) = ".."
    BY DEF StatOnUp, AtUp, Walking, Component
  <1>2. /\ c \in StatCall /\ c.todo \in Seq(Word) /\ c.stack \in Seq(Dir) /\ IsTree(tree)
        /\ Tail(c.todo) \in Seq(Word)
    BY <1>1, StatCallTypes
  <1>3. CASE ~ (Len(call[t].stack) > 1)
    <2> DEFINE none == <<>>  up == <<>>  stat == Unknown
               x == Stated(c, none, up, stat)
    <2>1. Continue(t, x)
      BY <1>3 DEF StatOnUp, Stated
    <2>2. none \in Seq(Word) /\ up \in Seq(Dir) /\ stat \in Response
      BY EmptySeq, ResponseTypes
    <2> HIDE DEF none, up, stat, c
    <2>3. /\ x \in StatCall /\ x.pc = c.pc /\ x.requests = c.requests
          /\ x.responses = c.responses /\ x.todo = none
          /\ x.stat = stat /\ x.undisturbed = c.undisturbed
      BY <1>2, <2>2, StatedFields DEF StatCall
    <2> HIDE DEF x
    <2>4. ASSUME NEW e, WalkStat(tree, c, e)
          PROVE  WalkStat(tree, x, e)
      <3> DEFINE l == MaxLinks - c.links
      <3>1. /\ l \in Nat /\ StackUp(tree, c.stack) /\ Last(c) \in Dir
            /\ StatFrom(tree, l, Last(c), c.todo) = e
        BY <1>1, <1>2, <2>4, WalkStatAt DEF c
      <3> HIDE DEF l
      <3>2. Last(c) = Root
        BY <1>2, <1>3, <3>1, StackUpPop DEF Last, c
      <3>3. e = Unknown
        BY <1>1, <1>2, <3>1, <3>2, StatFromCases DEF c
      <3>4. QED
        BY <2>3, <3>3, ErrorTypes DEF WalkStat, none, stat
    <2>5. QED
      BY <1>1, <2>1, <2>3, <2>4, StatMoves DEF c
  <1>4. CASE Len(call[t].stack) > 1
    <2> DEFINE todo == Tail(call[t].todo)  stack == ButLast(call[t].stack)
               x == Moved(call[t], todo, stack)
    <2>1. todo \in Seq(Word) /\ stack \in Seq(Dir)
      BY <1>1, <1>2, ButLastProperties
    <2>2. Pop(t) = x
      BY <1>2 DEF Pop, ButLast, StatCall, CallOf, Moved
    <2>3. Continue(t, x)
      BY <1>4, <2>2 DEF StatOnUp
    <2> HIDE DEF todo, stack
    <2>4. /\ x \in StatCall /\ x.pc = c.pc /\ x.requests = c.requests
          /\ x.responses = c.responses /\ x.todo = todo /\ x.stack = stack
          /\ x.stat = c.stat /\ x.links = c.links /\ x.undisturbed = c.undisturbed
      BY <1>2, <2>1, MovedFields DEF StatCall
    <2> HIDE DEF x, c
    <2>5. ASSUME NEW e, WalkStat(tree, c, e)
          PROVE  WalkStat(tree, x, e)
      <3> DEFINE l == MaxLinks - c.links
      <3>1. /\ c.stat = Directory /\ c.links \in 0 .. MaxLinks
            /\ l \in Nat /\ StackUp(tree, c.stack) /\ Last(c) \in Dir
            /\ StatFrom(tree, l, Last(c), c.todo) = e
        BY <1>1, <1>2, <2>5, WalkStatAt DEF c
      <3> HIDE DEF l
      <3>2. /\ StackUp(tree, stack) /\ stack # <<>> /\ Last(c) # Root
            /\ Parent(tree, Last(c)) = stack[Len(stack)]
        BY <1>2, <1>4, <3>1, StackUpPop DEF Last, c, stack
      <3>3. stack[Len(stack)] \in Dir
        BY <2>1, <3>2, ButLastProperties
      <3>7. c.todo # <<>> /\ Head(c.todo) = ".." /\ todo = Tail(c.todo)
        BY <1>1 DEF c, todo
      <3> DEFINE d == Last(c)
      <3>8. Parent(tree, d) = stack[Len(stack)] /\ d # Root /\ d \in Dir /\ l \in Nat
        BY <3>1, <3>2
      <3> HIDE DEF d
      <3>10. /\ Head(c.todo) = ".." /\ d # Root /\ Parent(tree, d) \in Dir
             /\ Head(c.todo) = ".." /\ d # Root /\ Parent(tree, d) \in Dir =>
                  StatFrom(tree, l, d, c.todo) = StatFrom(tree, l, Parent(tree, d), Tail(c.todo))
        <4>1. c.todo \in Seq(Word) /\ c.todo # <<>> /\ d \in Dir /\ l \in Nat
          BY <1>2, <3>7, <3>8
        <4>2. /\ Head(c.todo) = ".." /\ d # Root /\ Parent(tree, d) \in Dir
          BY <3>3, <3>7, <3>8
        <4>3. QED
          BY <4>1, <4>2, StatFromCases, Zenon
      <3>9. StatFrom(tree, l, d, c.todo) = StatFrom(tree, l, stack[Len(stack)], todo)
        BY <3>7, <3>8, <3>10
      <3>4. StatFrom(tree, l, Last(c), c.todo) = StatFrom(tree, l, stack[Len(stack)], todo)
        BY <3>9 DEF d
      <3>5. Last(x) = stack[Len(stack)]
        BY <2>4 DEF Last
      <3>6. QED
        BY <2>4, <3>1, <3>2, <3>4, <3>5 DEF WalkStat, l
    <2>6. QED
      BY <1>1, <2>3, <2>4, <2>5, StatMoves DEF c
  <1>5. QED
    BY <1>3, <1>4

(* BatchStat() at a name: what lstat() makes of it.                        *)
AtStatName(t, d, n, l, e) ==
    /\ call[t].kind = "stat" /\ call[t].pc = "walk" /\ call[t].todo # <<>>
    /\ n \in Name /\ n = Head(call[t].todo)
    /\ d = Last(call[t]) /\ d \in Dir
    /\ l = MaxLinks - call[t].links /\ l \in Nat /\ call[t].links \in 0 .. MaxLinks
    /\ call[t].stat = Directory /\ StackUp(tree, call[t].stack)
    /\ StatFrom(tree, l, d, call[t].todo) = e

LEMMA StatNameTypes ==
    ASSUME TypeInv, NEW t \in Thread, AtName(t), call[t].kind = "stat"
    PROVE  /\ call[t].kind = "stat" /\ call[t].pc = "walk" /\ call[t].todo # <<>>
           /\ call[t].stack # <<>> /\ Head(call[t].todo) \in Name /\ Last(call[t]) \in Dir
           /\ call[t] \in StatCall /\ call[t].todo \in Seq(Word)
           /\ Tail(call[t].todo) \in Seq(Word) /\ call[t].stack \in Seq(Dir)
           /\ Child(t) = tree[Last(call[t])][Head(call[t].todo)] /\ Child(t) \in Entry
           /\ IsTree(tree)
           /\ \A e : WalkStat(tree, call[t], e) =>
                 \E l : AtStatName(t, Last(call[t]), Head(call[t].todo), l, e)
  <1>1. /\ call[t].kind = "stat" /\ call[t].pc = "walk" /\ call[t].todo # <<>>
        /\ call[t].stack # <<>> /\ Head(call[t].todo) \in Name
    BY DEF AtName, Walking, Component
  <1>2. /\ call[t] \in StatCall /\ call[t].todo \in Seq(Word) /\ call[t].stack \in Seq(Dir)
        /\ IsTree(tree) /\ Tail(call[t].todo) \in Seq(Word)
    BY <1>1, StatCallTypes
  <1>3. Last(call[t]) \in Dir
    BY <1>1, <1>2, ButLastProperties DEF Last
  <1>4. Child(t) = tree[Last(call[t])][Head(call[t].todo)]
    BY DEF Child, Top, Component, Last
  <1>5. Child(t) \in Entry
    BY <1>1, <1>2, <1>3, <1>4 DEF IsTree
  <1>6. ASSUME NEW e, WalkStat(tree, call[t], e)
        PROVE  AtStatName(t, Last(call[t]), Head(call[t].todo), MaxLinks - call[t].links, e)
    BY <1>1, <1>2, <1>6, WalkStatAt DEF AtStatName
  <1>7. QED
    BY <1>1, <1>2, <1>3, <1>4, <1>5, <1>6

LEMMA StatMissingStep ==
    ASSUME TypeInv, NEW t \in Thread, AtName(t), call[t].kind = "stat",
           Child(t).type = "none", Continue(t, Responded(call[t], Missing))
    PROVE  CallStep(t, StatCall) /\ StatStep(t)
  <1>1. ASSUME NEW e, WalkStat(tree, call[t], e)
        PROVE  Missing = e /\ Missing # Error
    <2> DEFINE c == call[t].todo  d == Last(call[t])  n == Head(c)
    <2>1. PICK l : AtStatName(t, d, n, l, e)
      BY <1>1, StatNameTypes
    <2>2. /\ c \in Seq(Word) /\ c # <<>> /\ d \in Dir /\ n \in Name
          /\ l \in Nat /\ StatFrom(tree, l, d, c) = e
      BY <2>1, StatNameTypes DEF AtStatName
    <2>3. tree[d][n] = None
      BY StatNameTypes, ErrorTypes
    <2> HIDE DEF c, d
    <2>4. e = Missing
      BY <2>2, <2>3, StatFromCases
    <2>5. QED
      BY <2>4, ErrorTypes
  <1>2. Missing \in Response
    BY ResponseTypes
  <1>3. QED
    BY <1>1, <1>2, StatRespondStep, StatNameTypes

LEMMA StatEnterStep ==
    ASSUME TypeInv, NEW t \in Thread, AtName(t), call[t].kind = "stat",
           Child(t).type = "directory", Continue(t, Push(t, Child(t).dir))
    PROVE  CallStep(t, StatCall) /\ StatStep(t)
  <1> DEFINE c == call[t]  d == Last(call[t])  n == Head(call[t].todo)
             f == Child(t).dir
             todo == Tail(call[t].todo)  stack == Append(call[t].stack, f)
             x == Moved(call[t], todo, stack)
  <1>1. /\ c.kind = "stat" /\ c.pc = "walk" /\ c.todo # <<>> /\ c.stack # <<>>
        /\ n \in Name /\ d \in Dir /\ c \in StatCall /\ c.todo \in Seq(Word)
        /\ todo \in Seq(Word) /\ c.stack \in Seq(Dir) /\ Child(t) = tree[d][n]
        /\ IsTree(tree) /\ Child(t) \in Entry
    BY StatNameTypes
  <1>2. f \in Dir /\ tree[d][n] = DirectoryEntry(f)
    BY <1>1, EntryTypes
  <1>3. stack \in Seq(Dir) /\ stack[Len(stack)] = f
    <2>1. call[t].stack \in Seq(Dir) /\ f \in Dir
      BY <1>1, <1>2
    <2> HIDE DEF f
    <2>2. QED
      BY <2>1, ButLastAppend
  <1>4. Push(t, f) = x
    BY <1>1 DEF Push, StatCall, CallOf, Moved
  <1>5. Continue(t, x)
    BY <1>4
  <1> HIDE DEF c, todo, stack, f
  <1>6. /\ x \in StatCall /\ x.pc = c.pc /\ x.requests = c.requests
        /\ x.responses = c.responses /\ x.todo = todo /\ x.stack = stack
        /\ x.stat = c.stat /\ x.links = c.links /\ x.undisturbed = c.undisturbed
    BY <1>1, <1>3, MovedFields DEF StatCall, c
  <1> HIDE DEF x, d, n
  <1>7. ASSUME NEW e, WalkStat(tree, c, e)
        PROVE  WalkStat(tree, x, e)
    <2>1. PICK l : AtStatName(t, d, n, l, e)
      BY <1>7, StatNameTypes DEF c, d, n
    <2>2. /\ d = Last(c) /\ l = MaxLinks - c.links /\ l \in Nat /\ c.links \in 0 .. MaxLinks
          /\ c.stat = Directory /\ StackUp(tree, c.stack)
          /\ StatFrom(tree, l, d, c.todo) = e
      BY <2>1 DEF AtStatName, c
    <2>3. /\ tree[d][n].type = "directory" /\ tree[d][n].dir = f /\ n = Head(c.todo)
          /\ todo = Tail(c.todo)
      BY <1>2, EntryTypes DEF c, n, todo
    <2>4. StatFrom(tree, l, d, c.todo) = StatFrom(tree, l, f, todo)
      <3>1. c.todo \in Seq(Word) /\ c.todo # <<>> /\ d \in Dir /\ f \in Dir /\ l \in Nat
        BY <1>1, <1>2, <2>2
      <3>2. Head(c.todo) \in Name /\ tree[d][Head(c.todo)] = DirectoryEntry(f)
        BY <1>1, <1>2, <2>3
      <3>3. QED
        BY <2>3, <3>1, <3>2, StatFromDirectory
    <2>5. StackUp(tree, stack)
      <3>1. d = c.stack[Len(c.stack)]
        BY DEF d, Last, c
      <3>2. tree[c.stack[Len(c.stack)]][n] = DirectoryEntry(f)
        BY <3>1, <1>2
      <3>3. StackUp(tree, Append(c.stack, f))
        BY <3>2, <1>1, <1>2, <2>2, StackUpPush
      <3>4. QED
        BY <3>3 DEF stack, c
    <2>6. Last(x) = f
      BY <1>3, <1>6 DEF Last
    <2>7. QED
      BY <1>6, <2>2, <2>4, <2>5, <2>6 DEF WalkStat
  <1>8. QED
    BY <1>1, <1>5, <1>6, <1>7, StatMoves DEF c

(* A file that is not at the end of the path, or too many symbolic links.  *)
LEMMA StatRefusedStep ==
    ASSUME TypeInv, NEW t \in Thread, AtName(t), call[t].kind = "stat",
           Tail(call[t].todo) # <<>>,
           Child(t).type = "file" \/ (Child(t).type = "symlink" /\ ~ (call[t].links < MaxLinks)),
           Continue(t, FailedWith(call[t], Error))
    PROVE  CallStep(t, StatCall) /\ StatStep(t)
  <1>1. ASSUME NEW e, WalkStat(tree, call[t], e)
        PROVE  e = Error
    <2> DEFINE c == call[t].todo  d == Last(call[t])  n == Head(c)  f == Child(t)
    <2>1. PICK l : AtStatName(t, d, n, l, e)
      BY <1>1, StatNameTypes
    <2>2. /\ c \in Seq(Word) /\ c # <<>> /\ d \in Dir /\ n \in Name
          /\ l \in Nat /\ StatFrom(tree, l, d, c) = e
          /\ l = MaxLinks - call[t].links /\ call[t].links \in 0 .. MaxLinks
      BY <2>1, StatNameTypes DEF AtStatName
    <2>3. f = tree[d][n]
      BY StatNameTypes
    <2>4. call[t].links < MaxLinks <=> l # 0
      BY <2>2, LinksLeft
    <2>5. f.type = "file" \/ (f.type = "symlink" /\ l = 0)
      BY <2>4
    <2>6. Tail(c) # <<>>
      OBVIOUS
    <2> HIDE DEF c, d, f
    <2>7. QED
      BY <2>2, <2>3, <2>5, <2>6, StatFromEntry
  <1>2. QED
    BY <1>1, StatErrorStep, StatNameTypes

LEMMA StatFollowStep ==
    ASSUME TypeInv, NEW t \in Thread, AtName(t), call[t].kind = "stat",
           Tail(call[t].todo) # <<>>, Child(t).type = "symlink", call[t].links < MaxLinks,
           Continue(t, Follow(t, Child(t).target))
    PROVE  CallStep(t, StatCall) /\ StatStep(t)
  <1> DEFINE c == call[t]  d == Last(call[t])  n == Head(call[t].todo)  f == Child(t)
             todo == Tail(call[t].todo)
             a == f.target.absolute
             all == f.target.components \o todo
             b == Followed(c)
             x == Scope(b, a, all)
  <1>1. /\ c.kind = "stat" /\ c.pc = "walk" /\ c.todo # <<>> /\ c.stack # <<>>
        /\ n \in Name /\ d \in Dir /\ c \in StatCall /\ c.todo \in Seq(Word)
        /\ todo \in Seq(Word) /\ c.stack \in Seq(Dir) /\ f = tree[d][n]
        /\ IsTree(tree) /\ f \in Entry /\ c.requests # <<>>
    BY StatNameTypes, StatCallTypes
  <1>2. a \in BOOLEAN /\ f.target.components \in Seq(Word)
    BY <1>1, ErrorTypes
  <1>3. all \in Seq(Word)
    BY <1>1, <1>2, ConcatProperties
  <1>4. Continue(t, x)
    BY DEF Follow, Followed
  <1>5. /\ b \in StatCall /\ b.pc = c.pc /\ b.requests = c.requests
        /\ b.responses = c.responses /\ b.stack = c.stack
        /\ b.stat = Unknown /\ b.links = c.links + 1 /\ b.undisturbed = c.undisturbed
    <2>1. c \in CallOf("stat", Path)
      BY <1>1 DEF StatCall
    <2> HIDE DEF c
    <2>2. QED
      BY <2>1, FollowedFields DEF StatCall
  <1>6. f.type = "symlink" /\ todo # <<>> /\ c.links < MaxLinks
    OBVIOUS
  <1> HIDE DEF c, d, f, n, todo, a, all, b
  <1>9. /\ x \in StatCall /\ x.pc = c.pc /\ x.requests = c.requests
        /\ x.responses = c.responses /\ x.undisturbed = c.undisturbed
    BY <1>2, <1>3, <1>5, ScopeFields
  <1>7. ASSUME NEW e, WalkStat(tree, c, e)
        PROVE  WalkStat(tree, x, e)
    <2>1. PICK l : AtStatName(t, d, n, l, e)
      BY <1>7, StatNameTypes DEF c, d, n
    <2>2. /\ d = Last(c) /\ l = MaxLinks - c.links /\ l \in Nat /\ c.links \in 0 .. MaxLinks
          /\ c.stat = Directory /\ StackUp(tree, c.stack)
          /\ StatFrom(tree, l, d, c.todo) = e
      BY <2>1 DEF AtStatName, c
    <2>3. b.links \in 0 .. MaxLinks /\ MaxLinks - b.links = l - 1 /\ l # 0
      BY <1>5, <1>6, <2>2, LinksLeft
    <2>4. n = Head(c.todo) /\ todo = Tail(c.todo)
      BY DEF c, n, todo
    <2>5. e = StatScope(d, a, all, StatWithLinks(tree, l - 1))
      <3>1. StatFrom(tree, l, d, c.todo) =
              StatScope(d, f.target.absolute, f.target.components \o Tail(c.todo),
                        StatWithLinks(tree, l - 1))
        <4>1. c.todo \in Seq(Word) /\ c.todo # <<>> /\ d \in Dir /\ l \in Nat /\ l # 0
          BY <1>1, <2>2, <2>3
        <4>2. /\ Head(c.todo) \in Name /\ tree[d][Head(c.todo)] = f
              /\ f.type = "symlink" /\ Tail(c.todo) # <<>>
          BY <1>1, <1>6, <2>4
        <4>3. QED
          BY <4>1, <4>2, StatFromEntry
      <3>2. QED
        BY <2>2, <2>4, <3>1 DEF a, all
    <2>6. Last(b) = d /\ StackUp(tree, b.stack)
      BY <1>5, <2>2 DEF Last
    <2>7. WalkStat(tree, x, StatScope(Last(b), a, all,
                                      StatWithLinks(tree, MaxLinks - b.links)))
      BY <1>1, <1>2, <1>3, <1>5, <2>3, <2>6, ScopeWalk
    <2>8. QED
      BY <2>3, <2>5, <2>6, <2>7, <1>5
  <1> HIDE DEF x
  <1>8. QED
    BY <1>1, <1>4, <1>7, <1>9, StatMoves DEF c

LEMMA StatFoundStep ==
    ASSUME TypeInv, NEW t \in Thread, AtName(t), call[t].kind = "stat",
           Tail(call[t].todo) = <<>>, Child(t).type \in {"file", "symlink"},
           Continue(t, Ended(call[t], <<>>, Child(t)))
    PROVE  CallStep(t, StatCall) /\ StatStep(t)
  <1> DEFINE c == call[t]  d == Last(call[t])  n == Head(call[t].todo)  f == Child(t)
             none == <<>>
             x == Ended(c, none, f)
  <1>1. /\ c.kind = "stat" /\ c.pc = "walk" /\ c.todo # <<>>
        /\ n \in Name /\ d \in Dir /\ c \in StatCall /\ c.todo \in Seq(Word)
        /\ f = tree[d][n] /\ f \in Entry
    BY StatNameTypes
  <1>2. none \in Seq(Word) /\ f \in Response /\ f # Error
    BY <1>1, EmptySeq, ResponseTypes, ErrorTypes
  <1>3. Continue(t, x)
    OBVIOUS
  <1>4. f.type \in {"file", "symlink"} /\ Tail(c.todo) = <<>> /\ n = Head(c.todo)
    OBVIOUS
  <1> HIDE DEF c, none, f
  <1>5. /\ x \in StatCall /\ x.pc = c.pc /\ x.requests = c.requests
        /\ x.responses = c.responses /\ x.todo = none
        /\ x.stat = f /\ x.undisturbed = c.undisturbed
    BY <1>1, <1>2, EndedFields DEF StatCall
  <1> HIDE DEF x, d, n
  <1>6. ASSUME NEW e, WalkStat(tree, c, e)
        PROVE  WalkStat(tree, x, e)
    <2>1. PICK l : AtStatName(t, d, n, l, e)
      BY <1>6, StatNameTypes DEF c, d, n
    <2>2. l \in Nat /\ StatFrom(tree, l, d, c.todo) = e
      BY <2>1 DEF AtStatName, c
    <2>3. StatFrom(tree, l, d, c.todo) = f
      <3>1. c.todo \in Seq(Word) /\ c.todo # <<>> /\ d \in Dir /\ l \in Nat
        BY <1>1, <2>2
      <3>2. Head(c.todo) \in Name /\ tree[d][Head(c.todo)] = f
        BY <1>1, <1>4
      <3>3. QED
        BY <1>4, <3>1, <3>2, StatFromEntry
    <2>4. QED
      BY <1>2, <1>5, <2>2, <2>3 DEF WalkStat, none
  <1>7. QED
    BY <1>1, <1>3, <1>5, <1>6, StatMoves DEF c

LEMMA TerminalTail ==
    ASSUME NEW c \in Seq(Word), c # <<>>
    PROVE  Len(c) = 1 <=> Tail(c) = <<>>
  <1>1. Tail(c) \in Seq(Word) /\ Len(Tail(c)) = Len(c) - 1
    BY HeadTailProperties
  <1>2. Len(c) \in Nat
    BY LenProperties
  <1>3. Tail(c) = <<>> <=> Len(Tail(c)) = 0
    BY <1>1, EmptySeq
  <1>4. QED
    BY <1>1, <1>2, <1>3

LEMMA StatOnDirectoryStep ==
    ASSUME TypeInv, NEW t \in Thread, StatOnDirectory(t)
    PROVE  CallStep(t, StatCall) /\ StatStep(t)
  <1>1. AtName(t) /\ call[t].kind = "stat" /\ Len(call[t].todo) # 1
    BY DEF StatOnDirectory, IsTerminal
  <1>2. Tail(call[t].todo) # <<>> /\ Child(t) \in Entry
    BY <1>1, StatNameTypes, TerminalTail
  <1> DEFINE child == Child(t)
  <1>3. Continue(t,
          CASE child.type = "none"      -> Responded(call[t], Missing)
            [] child.type = "directory" -> Push(t, child.dir)
            [] child.type = "file"      -> Failed(t, Error)
            [] child.type = "symlink"   ->
                 IF call[t].links < MaxLinks THEN Follow(t, child.target)
                 ELSE Failed(t, Error))
    BY DEF StatOnDirectory
  <1>4. child.type \in {"none", "directory", "file", "symlink"}
    BY <1>2, ErrorTypes
  <1>5. Failed(t, Error) = FailedWith(call[t], Error)
    BY DEF Failed, FailedWith
  <1> HIDE DEF child
  <1>6. CASE child.type = "none"
    <2>1. Continue(t, Responded(call[t], Missing))
      BY <1>3, <1>6
    <2>2. QED
      BY <1>1, <1>6, <2>1, StatMissingStep DEF child
  <1>7. CASE child.type = "directory"
    <2>1. Continue(t, Push(t, child.dir))
      BY <1>3, <1>7
    <2>2. QED
      BY <1>1, <1>7, <2>1, StatEnterStep DEF child
  <1>8. CASE child.type = "file"
    <2>1. Continue(t, Failed(t, Error))
      BY <1>3, <1>8
    <2>2. QED
      BY <1>1, <1>2, <1>5, <1>8, <2>1, StatRefusedStep DEF child
  <1>9. CASE child.type = "symlink" /\ call[t].links < MaxLinks
    <2>1. Continue(t, Follow(t, child.target))
      BY <1>3, <1>9
    <2>2. QED
      BY <1>1, <1>2, <1>9, <2>1, StatFollowStep DEF child
  <1>10. CASE child.type = "symlink" /\ ~ (call[t].links < MaxLinks)
    <2>1. Continue(t, Failed(t, Error))
      BY <1>3, <1>10
    <2>2. QED
      BY <1>1, <1>2, <1>5, <1>10, <2>1, StatRefusedStep DEF child
  <1>11. QED
    BY <1>4, <1>6, <1>7, <1>8, <1>9, <1>10

LEMMA StatOnTerminalStep ==
    ASSUME TypeInv, NEW t \in Thread, StatOnTerminal(t)
    PROVE  CallStep(t, StatCall) /\ StatStep(t)
  <1>1. AtName(t) /\ call[t].kind = "stat" /\ Len(call[t].todo) = 1
    BY DEF StatOnTerminal, IsTerminal
  <1>2. Tail(call[t].todo) = <<>> /\ Child(t) \in Entry
    BY <1>1, StatNameTypes, TerminalTail
  <1> DEFINE child == Child(t)
  <1>3. Continue(t,
          CASE child.type = "none"      -> Responded(call[t], Missing)
            [] child.type = "directory" -> Push(t, child.dir)
            [] OTHER -> Ended(call[t], <<>>, child))
    BY DEF StatOnTerminal, Ended
  <1>4. child.type \in {"none", "directory", "file", "symlink"}
    BY <1>2, ErrorTypes
  <1> HIDE DEF child
  <1>5. CASE child.type = "none"
    <2>1. Continue(t, Responded(call[t], Missing))
      BY <1>3, <1>5
    <2>2. QED
      BY <1>1, <1>5, <2>1, StatMissingStep DEF child
  <1>6. CASE child.type = "directory"
    <2>1. Continue(t, Push(t, child.dir))
      BY <1>3, <1>6
    <2>2. QED
      BY <1>1, <1>6, <2>1, StatEnterStep DEF child
  <1>7. CASE child.type \in {"file", "symlink"}
    <2>1. Continue(t, Ended(call[t], <<>>, child))
      BY <1>3, <1>7
    <2>2. QED
      BY <1>1, <1>2, <1>7, <2>1, StatFoundStep DEF child
  <1>8. QED
    BY <1>4, <1>5, <1>6, <1>7

-----------------------------------------------------------------------------
(* Every step is a step of one call.                                       *)
LEMMA Steps ==
    ASSUME TypeInv, Next
    PROVE  \/ UNCHANGED vars
           \/ \E t \in Thread :
                 call[t].kind = "stage" /\ CallStep(t, StageCall) /\ StageStep(t)
           \/ \E t \in Thread :
                 call[t].kind = "stat" /\ CallStep(t, StatCall) /\ StatStep(t)
  <1>1. CASE Terminated
    BY <1>1 DEF Terminated
  <1>2. ASSUME NEW t \in Thread,
               \/ SkipDot(t) \/ StageSingleArtifact(t) \/ StageOnDirectory(t)
               \/ StageOnUp(t) \/ StageFails(t) \/ StageFile(t) \/ StageTree(t)
               \/ StatBegin(t) \/ StatOnDirectory(t) \/ StatOnTerminal(t)
               \/ StatOnUp(t) \/ StatEnd(t) \/ StatFails(t)
        PROVE  \/ call[t].kind = "stage" /\ CallStep(t, StageCall) /\ StageStep(t)
               \/ call[t].kind = "stat" /\ CallStep(t, StatCall) /\ StatStep(t)
    <2>1. CASE SkipDot(t)
      <3>1. call[t].kind \in {"stage", "stat"}
        BY CallKinds DEF TypeInv
      <3>2. QED
        BY <2>1, <3>1, SkipDotStep, StatSkipDotStep
    <2>2. CASE StageSingleArtifact(t)
      BY <2>2, StageSingleArtifactStep DEF StageSingleArtifact, At
    <2>3. CASE StageOnDirectory(t)
      BY <2>3, StageOnDirectoryStep DEF StageOnDirectory
    <2>4. CASE StageOnUp(t)
      BY <2>4, StageOnUpStep DEF StageOnUp
    <2>5. CASE StageFails(t)
      BY <2>5, StageFailsStep DEF StageFails, At
    <2>6. CASE StageFile(t)
      BY <2>6, StageFileStep DEF StageFile, At
    <2>7. CASE StageTree(t)
      BY <2>7, StageTreeStep DEF StageTree, At
    <2>8. CASE StatBegin(t)
      BY <2>8, StatBeginStep DEF StatBegin, At
    <2>9. CASE StatOnDirectory(t)
      BY <2>9, StatOnDirectoryStep DEF StatOnDirectory
    <2>10. CASE StatOnTerminal(t)
      BY <2>10, StatOnTerminalStep DEF StatOnTerminal
    <2>11. CASE StatOnUp(t)
      BY <2>11, StatOnUpStep DEF StatOnUp
    <2>12. CASE StatEnd(t)
      BY <2>12, StatEndStep DEF StatEnd, At
    <2>13. CASE StatFails(t)
      BY <2>13, StatFailsStep DEF StatFails
    <2>14. QED
      BY <1>2, <2>1, <2>2, <2>3, <2>4, <2>5, <2>6, <2>7, <2>8, <2>9, <2>10, <2>11, <2>12,
         <2>13
  <1>3. QED
    BY <1>1, <1>2 DEF Next

(* What staging does to the output path.                                   *)
LEMMA StageStepTree ==
    ASSUME NEW t, StageStep(t)
    PROVE  \/ tree' = tree
           \/ \E tr2, T, c, New :
                 Changed(tree, tr2, T, c, New) /\ tree' = Pruned(tr2) /\ Unentered(New)
  <1>1. CASE QuietStep(t)
    BY <1>1 DEF QuietStep, ErrorStep, BeginStep, DotStep, UpStep, EnterStep
  <1>2. CASE \E tr2, d :
               CreateStep(tree, tree', call[t], call'[t], tr2, d) /\ Unentered({d})
    BY <1>2 DEF CreateStep
  <1>3. CASE \E tr2, New :
               StoreStep(tree, tree', call[t], call'[t], tr2, New) /\ Unentered(New)
    BY <1>3 DEF StoreStep
  <1>4. QED
    BY <1>1, <1>2, <1>3 DEF StageStep

LEMMA StageStepWalks ==
    ASSUME TypeInv, NEW t \in Thread, StageStep(t), call'[t].pc = "walk"
    PROVE  call'[t].requests # <<>>
  <1>1. call[t].pc = "walk" => call[t].requests # <<>>
    BY DEF TypeInv
  <1>2. CASE QuietStep(t)
    BY <1>1, <1>2 DEF QuietStep, ErrorStep, BeginStep, DotStep, UpStep, EnterStep, Moves
  <1>3. CASE \E tr2, d :
               CreateStep(tree, tree', call[t], call'[t], tr2, d) /\ Unentered({d})
    BY <1>1, <1>3 DEF CreateStep, Moves
  <1>4. CASE \E tr2, New :
               StoreStep(tree, tree', call[t], call'[t], tr2, New) /\ Unentered(New)
    BY <1>4 DEF StoreStep
  <1>5. QED
    BY <1>2, <1>3, <1>4 DEF StageStep

LEMMA TypeStep ==
    ASSUME TypeInv, [Next]_vars
    PROVE  TypeInv'
  <1>1. CASE UNCHANGED vars
    BY <1>1 DEF TypeInv, vars, IsTree
  <1>2. ASSUME NEW t \in Thread, NEW C, CallStep(t, C), C \subseteq StageCall \union StatCall,
               call'[t].kind = call[t].kind, IsTree(tree'),
               call'[t].pc = "walk" => call'[t].requests # <<>>
        PROVE  TypeInv'
    <2>1. scenario' = scenario /\ scenario \in Scenario
      BY <1>2 DEF CallStep, TypeInv
    <2>2. ASSUME NEW u \in Thread
          PROVE  /\ call'[u] \in StageCall \union StatCall
                 /\ call'[u].kind = scenario.calls[u].kind
                 /\ call'[u].pc = "walk" => call'[u].requests # <<>>
      <3>1. /\ call[u].kind = scenario.calls[u].kind
            /\ call[u].pc = "walk" => call[u].requests # <<>>
        BY DEF TypeInv
      <3>2. CASE u = t
        BY <1>2, <3>1, <3>2 DEF CallStep
      <3>3. CASE u # t
        <4>1. call'[u] \in StageCall \union StatCall /\ Same(call[u], call'[u])
          BY <1>2, <3>3 DEF CallStep, OthersSame
        <4>2. QED
          BY <3>1, <4>1 DEF Same
      <3>4. QED
        BY <3>2, <3>3
    <2>3. call' = [u \in Thread |-> call'[u]]
      BY <1>2 DEF CallStep
    <2>4. call' \in [Thread -> StageCall \union StatCall]
      BY <2>2, <2>3
    <2>5. QED
      BY <1>2, <2>1, <2>2, <2>4 DEF TypeInv
  <1>3. ASSUME NEW t \in Thread, call[t].kind = "stage", CallStep(t, StageCall), StageStep(t)
        PROVE  TypeInv'
    <2>1. IsTree(tree')
      <3>1. CASE tree' = tree
        BY <3>1 DEF TypeInv
      <3>2. CASE \E tr2, T, c, New :
                   Changed(tree, tr2, T, c, New) /\ tree' = Pruned(tr2) /\ Unentered(New)
        BY <3>2, ChangedTree DEF TypeInv
      <3>3. QED
        BY <1>3, <3>1, <3>2, StageStepTree
    <2>2. call'[t].kind = "stage"
      BY <1>3, CallFields DEF CallStep, StageCall
    <2>3. call'[t].pc = "walk" => call'[t].requests # <<>>
      BY <1>3, StageStepWalks
    <2>4. QED
      BY <1>2, <1>3, <2>1, <2>2, <2>3
  <1>4. ASSUME NEW t \in Thread, call[t].kind = "stat", CallStep(t, StatCall), StatStep(t)
        PROVE  TypeInv'
    <2>1. IsTree(tree')
      BY <1>4 DEF TypeInv, StatStep
    <2>2. call'[t].kind = "stat"
      BY <1>4, CallFields DEF CallStep, StatCall
    <2>3. call'[t].pc = "walk" => call'[t].requests # <<>>
      BY <1>4 DEF StatStep
    <2>4. QED
      BY <1>2, <1>4, <2>1, <2>2, <2>3
  <1>5. QED
    BY <1>1, <1>3, <1>4, Steps

LEMMA InitCalls ==
    ASSUME Init
    PROVE  /\ scenario \in Scenario /\ tree = scenario.tree
           /\ call = [t \in Thread |-> NewCall(scenario.calls[t].kind,
                                               scenario.calls[t].requests)]
           /\ \A t \in Thread :
                 /\ call[t] \in StageCall \union StatCall
                 /\ call[t].kind = scenario.calls[t].kind /\ call[t].pc = "next"
                 /\ call[t].requests = scenario.calls[t].requests
                 /\ call[t].responses = <<>>
  <1>1. /\ scenario \in Scenario /\ tree = scenario.tree
        /\ call = [t \in Thread |-> NewCall(scenario.calls[t].kind,
                                            scenario.calls[t].requests)]
    BY DEF Init
  <1>2. ASSUME NEW t \in Thread
        PROVE  /\ call[t] \in StageCall \union StatCall
               /\ call[t].kind = scenario.calls[t].kind /\ call[t].pc = "next"
               /\ call[t].requests = scenario.calls[t].requests
               /\ call[t].responses = <<>>
    <2> DEFINE k == scenario.calls[t].kind  r == scenario.calls[t].requests
    <2>1. call[t] = NewCall(k, r)
      BY <1>1
    <2>2. /\ k \in {"stat", "stage"}
          /\ k = "stat" => r \in Seq(Path)
          /\ k = "stage" => r \in Seq(Artifact)
      BY <1>1, ScenarioTypes
    <2> HIDE DEF k, r
    <2>3. CASE k = "stat"
      <3>1. r \in Seq(Path)
        BY <2>2, <2>3
      <3>2. QED
        BY <2>1, <2>3, <3>1, NewCallFields DEF StatCall, k, r
    <2>4. CASE k = "stage"
      <3>1. r \in Seq(Artifact)
        BY <2>2, <2>4
      <3>2. QED
        BY <2>1, <2>4, <3>1, NewCallFields DEF StageCall, k, r
    <2>5. QED
      BY <2>2, <2>3, <2>4
  <1>3. QED
    BY <1>1, <1>2

LEMMA TypeInit ==
    ASSUME Init
    PROVE  TypeInv
  <1>1. IsTree(tree)
    BY InitCalls, ScenarioTypes
  <1>2. call \in [Thread -> StageCall \union StatCall]
    BY InitCalls
  <1>3. QED
    BY <1>1, <1>2, InitCalls DEF TypeInv

(* Whatever is staged at the same time, the output path remains a tree: no *)
(* directory is in two places, the root directory is in none, and removed  *)
(* directories, which calls may still hold on to, remain empty.            *)
THEOREM TypeCorrect == Spec => []TypeInv
  <1>1. Init => TypeInv
    BY TypeInit
  <1>2. TypeInv /\ [Next]_vars => TypeInv'
    BY TypeStep
  <1>3. QED
    BY <1>1, <1>2, PTL DEF Spec

-----------------------------------------------------------------------------
(* BatchStat() reports what lstat() does.                                  *)
StatInv ==
    \A t \in Thread :
        call[t].kind = "stat" /\ call[t].undisturbed =>
            StatOK(tree, call[t], scenario.calls[t].requests)

LEMMA StatOKSame ==
    ASSUME NEW tr, NEW c, NEW c2, NEW orig, Same(c, c2), StatOK(tr, c, orig)
    PROVE  StatOK(tr, c2, orig)
  <1>1. Last(c2) = Last(c)
    BY DEF Same, Last
  <1>2. \A e : WalkStat(tr, c, e) => WalkStat(tr, c2, e)
    BY <1>1 DEF Same, WalkStat
  <1>3. Tracked(c, orig) => Tracked(c2, orig)
    BY DEF Same, Tracked
  <1>4. Answered(tr, c, orig) => Answered(tr, c2, orig)
    BY DEF Same, Answered
  <1>5. StatFailed(tr, c, orig) => StatFailed(tr, c2, orig)
    BY DEF Same, StatFailed
  <1>6. c2.pc = c.pc /\ c2.requests = c.requests
    BY DEF Same
  <1>7. QED
    BY <1>2, <1>3, <1>4, <1>5, <1>6 DEF StatOK

LEMMA StatInit ==
    ASSUME Init
    PROVE  StatInv
  <1>1. ASSUME NEW t \in Thread, call[t].kind = "stat"
        PROVE  StatOK(tree, call[t], scenario.calls[t].requests)
    <2> DEFINE orig == scenario.calls[t].requests
    <2>1. /\ call[t].pc = "next" /\ call[t].requests = orig /\ call[t].responses = <<>>
          /\ orig \in Seq(Path)
      BY <1>1, InitCalls, ScenarioTypes
    <2> HIDE DEF orig
    <2>2. Len(<<>>) = 0 /\ Len(orig) \in Nat
      BY <2>1, LenProperties
    <2>3. Progress(orig, 0, orig)
      BY <2>2 DEF Progress
    <2>4. Tracked(call[t], orig) /\ Answered(tree, call[t], orig)
      BY <2>1, <2>2, <2>3 DEF Tracked, Answered
    <2>5. QED
      BY <2>1, <2>4 DEF StatOK, orig
  <1>2. QED
    BY <1>1 DEF StatInv

LEMMA StatInvStep ==
    ASSUME TypeInv, StatInv, [Next]_vars
    PROVE  StatInv'
  <1>1. CASE UNCHANGED vars
    BY <1>1 DEF StatInv, vars
  <1>2. ASSUME NEW t \in Thread, OthersSame(t), NEW u \in Thread \ {t},
               scenario' = scenario, call'[u].kind = "stat", call'[u].undisturbed
        PROVE  StatOK(tree', call'[u], scenario'.calls[u].requests)
    <2>1. Same(call[u], call'[u]) /\ call[u].undisturbed /\ tree' = tree
      BY <1>2 DEF OthersSame
    <2>2. call[u].kind = "stat"
      BY <1>2, <2>1 DEF Same
    <2>3. StatOK(tree, call[u], scenario.calls[u].requests)
      BY <2>1, <2>2 DEF StatInv
    <2>4. StatOK(tree, call'[u], scenario.calls[u].requests)
      BY <2>1, <2>3, StatOKSame
    <2>5. QED
      BY <1>2, <2>1, <2>4
  <1>3. ASSUME NEW t \in Thread, call[t].kind = "stage", CallStep(t, StageCall), StageStep(t)
        PROVE  StatInv'
    <2>1. call'[t].kind = "stage"
      BY <1>3, CallFields DEF CallStep, StageCall
    <2>2. OthersSame(t) /\ scenario' = scenario
      BY <1>3 DEF CallStep
    <2>3. QED
      BY <1>2, <2>1, <2>2 DEF StatInv
  <1>4. ASSUME NEW t \in Thread, call[t].kind = "stat", CallStep(t, StatCall), StatStep(t)
        PROVE  StatInv'
    <2>1. /\ OthersSame(t) /\ scenario' = scenario /\ tree' = tree
          /\ call'[t].undisturbed = call[t].undisturbed
      BY <1>4 DEF CallStep, StatStep
    <2>2. scenario.calls[t].requests \in Seq(Path)
      BY <1>4, ScenarioTypes DEF TypeInv
    <2>3. ASSUME call'[t].undisturbed
          PROVE  StatOK(tree', call'[t], scenario'.calls[t].requests)
      <3>1. StatOK(tree, call[t], scenario.calls[t].requests)
        BY <1>4, <2>1, <2>3 DEF StatInv
      <3>2. StatOK(tree, call'[t], scenario.calls[t].requests)
        BY <1>4, <2>2, <3>1 DEF StatStep
      <3>3. QED
        BY <2>1, <3>2
    <2>4. QED
      BY <1>2, <2>1, <2>3 DEF StatInv
  <1>5. QED
    BY <1>1, <1>3, <1>4, Steps

LEMMA StatInvAgrees ==
    ASSUME TypeInv, StatInv
    PROVE  StatAgrees
  <1>1. ASSUME NEW t \in Thread, Finished(t), call[t].kind = "stat", call[t].undisturbed
        PROVE  call[t].responses \in {BatchStat(scenario.calls[t].requests), <<IOError>>}
    <2> DEFINE orig == scenario.calls[t].requests  c == call[t]
               stats == [i \in DOMAIN orig |-> StatPath(tree, orig[i], MaxLinks)]
    <2>1. orig \in Seq(Path)
      BY <1>1, ScenarioTypes DEF TypeInv
    <2>2. c.requests = <<>> /\ c.responses \in Seq(Response) /\ c.requests \in Seq(Path)
      BY <1>1, StatCallTypes DEF Finished
    <2>3. StatOK(tree, c, orig)
      BY <1>1 DEF StatInv
    <2>4. DOMAIN orig = 1 .. Len(orig) /\ Len(orig) \in Nat
      BY <2>1, LenProperties
    <2>5. BatchStat(orig) = IF \E i \in DOMAIN stats : stats[i] = Error THEN <<Error>>
                            ELSE stats
      BY DEF BatchStat
    <2> HIDE DEF c, orig
    <2>6. DOMAIN stats = 1 .. Len(orig) /\
          \A i \in 1 .. Len(orig) : stats[i] = StatPath(tree, orig[i], MaxLinks)
      BY <2>4
    <2>7. CASE StatFailed(tree, c, orig)
      <3>1. CASE c.responses = <<IOError>>
        BY <3>1 DEF c
      <3>2. CASE c.responses = <<Error>> /\ CannotResolve(tree, orig)
        <4>1. \E i \in DOMAIN stats : stats[i] = Error
          BY <2>6, <3>2 DEF CannotResolve
        <4> HIDE DEF stats
        <4>2. BatchStat(orig) = <<Error>>
          BY <2>5, <4>1
        <4>3. QED
          BY <3>2, <4>2 DEF c, orig
      <3>3. QED
        BY <2>7, <3>1, <3>2 DEF StatFailed
    <2>8. CASE Tracked(c, orig) /\ Answered(tree, c, orig)
      <3> DEFINE n == Len(c.responses)
      <3>1. n \in 0 .. Len(orig) /\ Len(c.requests) = Len(orig) - n
        BY <2>8 DEF Tracked, Progress
      <3>2. Len(c.requests) = 0
        BY <2>2
      <3> DEFINE m == Len(orig)
      <3>10. n \in 0 .. m /\ 0 = m - n /\ m \in Nat
        BY <2>4, <3>1, <3>2
      <3> HIDE DEF n, m
      <3>11. n = m
        BY <3>10
      <3>3. Len(c.responses) = Len(orig)
        BY <3>11 DEF n, m
      <3>4. \A i \in 1 .. Len(orig) : /\ c.responses[i] = StatPath(tree, orig[i], MaxLinks)
                                      /\ c.responses[i] # Error
        BY <2>8, <3>3 DEF Answered
      <3>5. c.responses = [i \in 1 .. Len(orig) |-> c.responses[i]]
        BY <2>2, <3>3, LenProperties
      <3>6. stats = c.responses
        BY <2>4, <3>4, <3>5
      <3>7. ~ \E i \in DOMAIN stats : stats[i] = Error
        BY <2>6, <3>4
      <3> HIDE DEF stats
      <3>8. BatchStat(orig) = c.responses
        BY <2>5, <3>6, <3>7
      <3>9. QED
        BY <3>8 DEF c, orig
    <2>9. QED
      BY <2>3, <2>7, <2>8 DEF StatOK
  <1>2. QED
    BY <1>1 DEF StatAgrees

(* For every output path and all paths: BatchStat() reports what lstat()   *)
(* does, or an I/O error, if nothing is staged in the meantime.            *)
THEOREM StatCorrect == Spec => []StatAgrees
  <1>1. Init => StatInv
    BY StatInit
  <1>2. TypeInv /\ StatInv /\ [Next]_vars => StatInv'
    BY StatInvStep
  <1>3. TypeInv /\ StatInv => StatAgrees
    BY StatInvAgrees
  <1>4. QED
    BY <1>1, <1>2, <1>3, TypeCorrect, PTL DEF Spec

-----------------------------------------------------------------------------
(* StageArtifacts() on its way: n components of the path have been resolved*)
(* and the stack holds the directories that they lead to.                  *)
Goes(tr, c, path, n) ==
    /\ ~ path.absolute
    /\ Progress(Comps(path), n, c.todo)
    /\ StackAt(tr, Place(path)[n], c.stack)

StageWalk(tr, c) == \E n : Goes(tr, c, Head(c.requests).path, n)

StageOK(tr, c, orig) == Tracked(c, orig) /\ (c.pc = "walk" => StageWalk(tr, c))

LEMMA NextPlace ==
    ASSUME NEW path \in Path, NEW todo \in Seq(Word), todo # <<>>,
           NEW n, Progress(Comps(path), n, todo)
    PROVE  /\ n \in Nat /\ n \in 0 .. Len(Comps(path)) - 1
           /\ Head(todo) = Comps(path)[n + 1]
           /\ Tail(todo) \in Seq(Word)
           /\ Progress(Comps(path), n + 1, Tail(todo))
           /\ Place(path)[n] \in Seq(Word) /\ Place(path)[n + 1] \in Seq(Word)
           /\ Len(todo) = 1 <=> n + 1 = Len(Comps(path))
  <1> DEFINE c == Comps(path)  m == Len(c)
  <1>1. c \in Seq(Word) /\ m \in Nat
    BY PathTypes
  <1>2. /\ n \in 0 .. m - 1 /\ Head(todo) = c[n + 1] /\ Progress(c, n + 1, Tail(todo))
        /\ (Len(todo) = 1 <=> n + 1 = m) /\ Tail(todo) \in Seq(Word)
    BY <1>1, ProgressTail
  <1>3. \A i \in 0 .. m : Place(path)[i] \in Seq(Word)
    BY PlaceType
  <1> HIDE DEF c, m
  <1>4. n \in Nat /\ n \in 0 .. m /\ n + 1 \in 0 .. m
    BY <1>1, <1>2
  <1>5. QED
    BY <1>2, <1>3, <1>4 DEF c, m

LEMMA NextPlaceDot ==
    ASSUME NEW path \in Path, NEW todo \in Seq(Word), todo # <<>>,
           NEW n, Progress(Comps(path), n, todo), Head(todo) = ""
    PROVE  Place(path)[n + 1] = Place(path)[n]
  <1>1. n \in 0 .. Len(Comps(path)) - 1 /\ Comps(path)[n + 1] = ""
    BY NextPlace
  <1>2. QED
    BY <1>1, PlaceEquations

LEMMA NextPlaceUp ==
    ASSUME NEW path \in Path, NEW todo \in Seq(Word), todo # <<>>,
           NEW n, Progress(Comps(path), n, todo), Head(todo) = ".."
    PROVE  Place(path)[n + 1] = ButLast(Place(path)[n])
  <1>1. n \in 0 .. Len(Comps(path)) - 1 /\ Comps(path)[n + 1] = ".."
    BY NextPlace
  <1>2. QED
    BY <1>1, PlaceEquations

LEMMA NextPlaceName ==
    ASSUME NEW path \in Path, NEW todo \in Seq(Word), todo # <<>>,
           NEW n, Progress(Comps(path), n, todo), Head(todo) \in Name
    PROVE  Place(path)[n + 1] = Append(Place(path)[n], Head(todo))
  <1>1. n \in 0 .. Len(Comps(path)) - 1
    BY NextPlace
  <1>2. Comps(path)[n + 1] = Head(todo)
    BY NextPlace
  <1>3. Comps(path)[n + 1] # "" /\ Comps(path)[n + 1] # ".."
    BY <1>2, ConstantTypes
  <1>4. Place(path)[n + 1] = Append(Place(path)[n], Comps(path)[n + 1])
    BY <1>1, <1>3, PlaceEquations
  <1>5. QED
    BY <1>2, <1>4

LEMMA GoesBegin ==
    ASSUME NEW tr, NEW c, NEW path \in Path, ~ path.absolute,
           c.todo = Comps(path), c.stack = <<Root>>
    PROVE  Goes(tr, c, path, 0)
  <1>1. Comps(path) \in Seq(Word) /\ Len(Comps(path)) \in Nat
    BY PathTypes
  <1>2. Progress(Comps(path), 0, Comps(path))
    BY <1>1 DEF Progress
  <1>3. Place(path)[0] = <<>>
    BY PlaceEquations
  <1>4. QED
    BY <1>2, <1>3, StackRoot DEF Goes

LEMMA GoesDot ==
    ASSUME NEW tr, NEW c, NEW c2, NEW path \in Path, NEW n, Goes(tr, c, path, n),
           c.todo \in Seq(Word), c.todo # <<>>, Head(c.todo) = "",
           c2.todo = Tail(c.todo), c2.stack = c.stack
    PROVE  Goes(tr, c2, path, n + 1)
  <1>1. Progress(Comps(path), n, c.todo) /\ StackAt(tr, Place(path)[n], c.stack)
    BY DEF Goes
  <1>2. Progress(Comps(path), n + 1, Tail(c.todo)) /\ Place(path)[n + 1] = Place(path)[n]
    BY <1>1, NextPlace, NextPlaceDot
  <1>3. QED
    BY <1>1, <1>2 DEF Goes

LEMMA GoesUp ==
    ASSUME NEW tr, NEW c, NEW c2, NEW path \in Path, NEW n, Goes(tr, c, path, n),
           c.todo \in Seq(Word), c.todo # <<>>, c.stack \in Seq(Dir),
           Head(c.todo) = "..", Len(c.stack) > 1,
           c2.todo = Tail(c.todo), c2.stack = ButLast(c.stack)
    PROVE  Goes(tr, c2, path, n + 1) /\ Place(path)[n] # <<>>
  <1>1. Progress(Comps(path), n, c.todo) /\ StackAt(tr, Place(path)[n], c.stack)
    BY DEF Goes
  <1>2. /\ Progress(Comps(path), n + 1, Tail(c.todo)) /\ Place(path)[n] \in Seq(Word)
        /\ Place(path)[n + 1] = ButLast(Place(path)[n])
    <2> DEFINE todo == c.todo
    <2>1. todo \in Seq(Word) /\ todo # <<>> /\ Head(todo) = ".." /\ Progress(Comps(path), n, todo)
      BY <1>1
    <2> HIDE DEF todo
    <2>2. Progress(Comps(path), n + 1, Tail(todo)) /\ Place(path)[n] \in Seq(Word)
      BY <2>1, NextPlace
    <2>3. Place(path)[n + 1] = ButLast(Place(path)[n])
      BY <2>1, NextPlaceUp
    <2>4. QED
      BY <2>2, <2>3 DEF todo
  <1>3. StackAt(tr, ButLast(Place(path)[n]), ButLast(c.stack)) /\ Place(path)[n] # <<>>
    BY <1>1, <1>2, StackPop
  <1>4. QED
    BY <1>2, <1>3 DEF Goes

LEMMA GoesInto ==
    ASSUME NEW tr, NEW c, NEW c2, NEW path \in Path, NEW n, Goes(tr, c, path, n),
           c.todo \in Seq(Word), c.todo # <<>>, c.stack \in Seq(Dir),
           Head(c.todo) \in Name, NEW d \in Dir,
           d \in Linked(tr) => tr[Last(c)][Head(c.todo)] = DirectoryEntry(d),
           c2.todo = Tail(c.todo), c2.stack = Append(c.stack, d)
    PROVE  Goes(tr, c2, path, n + 1)
  <1> DEFINE x == Head(c.todo)
  <1>1. Progress(Comps(path), n, c.todo) /\ StackAt(tr, Place(path)[n], c.stack)
    BY DEF Goes
  <1>2. /\ Progress(Comps(path), n + 1, Tail(c.todo)) /\ Place(path)[n] \in Seq(Word)
        /\ Place(path)[n + 1] = Append(Place(path)[n], x)
    <2> DEFINE todo == c.todo
    <2>1. todo \in Seq(Word) /\ todo # <<>> /\ Head(todo) \in Name /\ Progress(Comps(path), n, todo)
      BY <1>1
    <2> HIDE DEF todo
    <2>2. Progress(Comps(path), n + 1, Tail(todo)) /\ Place(path)[n] \in Seq(Word)
      BY <2>1, NextPlace
    <2>3. Place(path)[n + 1] = Append(Place(path)[n], Head(todo))
      BY <2>1, NextPlaceName
    <2>4. QED
      BY <2>2, <2>3 DEF todo
  <1>3. x \in Name /\ (d \in Linked(tr) => tr[c.stack[Len(c.stack)]][x] = DirectoryEntry(d))
    BY DEF Last
  <1> HIDE DEF x
  <1>4. StackAt(tr, Append(Place(path)[n], x), Append(c.stack, d))
    BY <1>1, <1>2, <1>3, StackPush
  <1>5. QED
    BY <1>2, <1>4 DEF Goes

LEMMA GoesKept ==
    ASSUME NEW tr, NEW tr2, NEW T, NEW x, NEW New, IsTree(tr), Changed(tr, tr2, T, x, New),
           NEW c, c.stack \in Seq(Dir), \A k \in 1 .. Len(c.stack) : c.stack[k] \notin New,
           NEW path \in Path, NEW n, Goes(tr, c, path, n)
    PROVE  Goes(Pruned(tr2), c, path, n)
  <1>1. n \in 0 .. Len(Comps(path)) /\ StackAt(tr, Place(path)[n], c.stack)
    BY DEF Goes, Progress
  <1>2. Place(path)[n] \in Seq(Word)
    BY <1>1, PlaceType
  <1>3. StackAt(Pruned(tr2), Place(path)[n], c.stack)
    BY <1>1, <1>2, StackKept
  <1>4. QED
    BY <1>3 DEF Goes

(* A new directory.                                                        *)
LEMMA CreatedEntry ==
    ASSUME NEW tr, NEW tr2, NEW T, NEW x, NEW d \in Dir, IsTree(tr),
           Changed(tr, tr2, T, x, {d}), d \in Linked(Pruned(tr2))
    PROVE  Pruned(tr2)[T][x] = DirectoryEntry(d)
  <1> DEFINE P == Pruned(tr2)
  <1>1. /\ IsTree(P)
        /\ \A b, e \in Dir, n \in Name :
              P[b][n] = DirectoryEntry(e) =>
                \/ b = T /\ n = x /\ e \in {d}
                \/ b \notin {d} /\ ~ (b = T /\ n = x) /\ tr[b][n] = DirectoryEntry(e)
    BY ChangedTree
  <1>2. d \notin Linked(tr)
    BY DEF Changed
  <1> HIDE DEF P
  <1>3. d # Root
    BY <1>2, IsTreeContents, LinkedClosed
  <1>4. PICK b \in Linked(P), n \in Name : P[b][n] = DirectoryEntry(d)
    BY <1>1, <1>3, IsTreeContents, LinkedReferred DEF P
  <1>5. b \in Dir
    BY <1>1, IsTreeContents, LinkedClosed
  <1>6. tr[b][n] # DirectoryEntry(d)
    BY <1>2, <1>5, NothingRefersToNew
  <1>7. b = T /\ n = x
    BY <1>1, <1>4, <1>5, <1>6
  <1>8. QED
    BY <1>4, <1>7 DEF P

LEMMA TrackedNext ==
    ASSUME NEW R, NEW orig \in Seq(R), NEW c, NEW c2, c.requests \in Seq(R),
           c.responses \in Seq(Response), Tracked(c, orig), c.requests # <<>>,
           NEW r \in Response, c2.requests = Tail(c.requests),
           c2.responses = Append(c.responses, r)
    PROVE  Tracked(c2, orig)
  <1> DEFINE n == Len(c.responses)
  <1>1. Progress(orig, n + 1, Tail(c.requests))
    BY ProgressTail DEF Tracked
  <1>2. Len(Append(c.responses, r)) = n + 1
    BY ButLastAppend
  <1>3. QED
    BY <1>1, <1>2 DEF Tracked

LEMMA TrackedHead ==
    ASSUME NEW R, NEW orig \in Seq(R), NEW c, c.requests \in Seq(R),
           c.responses \in Seq(Response), Tracked(c, orig), c.requests # <<>>
    PROVE  /\ Head(c.requests) = orig[Len(c.responses) + 1]
           /\ Len(c.responses) + 1 \in 1 .. Len(orig)
           /\ Len(c.responses) \in Nat
  <1> DEFINE n == Len(c.responses)  m == Len(orig)
  <1>1. n \in Nat /\ m \in Nat
    BY LenProperties
  <1>2. n \in 0 .. m - 1 /\ Head(c.requests) = orig[n + 1]
    BY ProgressTail DEF Tracked
  <1> HIDE DEF n, m
  <1>3. n + 1 \in 1 .. m
    BY <1>1, <1>2
  <1>4. QED
    BY <1>1, <1>2, <1>3 DEF n, m

LEMMA StageWalkStep ==
    ASSUME TypeInv, NEW t \in Thread, call[t].kind = "stage", StageStep(t),
           NEW orig \in Seq(Artifact), StageOK(tree, call[t], orig)
    PROVE  StageOK(tree', call'[t], orig)
  <1> DEFINE c == call[t]  c2 == call'[t]  path == Head(c.requests).path
  <1>1. /\ c.todo \in Seq(Word) /\ c.stack \in Seq(Dir)
        /\ c.requests \in Seq(Artifact) /\ c.responses \in Seq(Response)
        /\ IsTree(tree)
        /\ c.requests # <<>> => path \in Path
        /\ c.pc = "walk" => c.requests # <<>>
    BY StageCallTypes DEF TypeInv
  <1>2. Tracked(c, orig) /\ (c.pc = "walk" => StageWalk(tree, c))
    BY DEF StageOK
  <1>3. ASSUME NEW r \in Response, c.requests # <<>>, c2.pc = "next",
               c2.requests = Tail(c.requests), c2.responses = Append(c.responses, r)
        PROVE  StageOK(tree', c2, orig)
    <2>1. Tracked(c2, orig)
      BY <1>1, <1>2, <1>3, TrackedNext
    <2>2. QED
      BY <1>3, <2>1 DEF StageOK
  <1>4. ASSUME c2.requests = c.requests, c2.responses = c.responses,
               NEW n, Goes(tree', c2, path, n)
        PROVE  StageOK(tree', c2, orig)
    <2>1. Tracked(c2, orig)
      BY <1>2, <1>4 DEF Tracked
    <2>2. StageWalk(tree', c2)
      BY <1>4 DEF StageWalk
    <2>3. QED
      BY <2>1, <2>2 DEF StageOK
  <1>5. CASE ErrorStep(tree, tree', c, c2)
    BY <1>3, <1>5, ResponseTypes DEF ErrorStep
  <1>6. CASE BeginStep(tree, tree', c, c2)
    <2>1. /\ c.requests # <<>> /\ ~ path.absolute
          /\ c2.requests = c.requests /\ c2.responses = c.responses
          /\ c2.todo = Comps(path) /\ c2.stack = <<Root>>
      BY <1>6 DEF BeginStep
    <2>2. Goes(tree', c2, path, 0)
      BY <1>1, <2>1, GoesBegin
    <2>3. QED
      BY <1>4, <2>1, <2>2
  <1>7. ASSUME Moves(c, c2)
        PROVE  /\ c2.requests = c.requests /\ c2.responses = c.responses
               /\ c.todo # <<>> /\ c2.todo = Tail(c.todo) /\ path \in Path
               /\ \E n : Goes(tree, c, path, n)
    BY <1>1, <1>2, <1>7 DEF Moves, StageWalk
  <1>8. CASE DotStep(tree, tree', c, c2)
    <2>1. Moves(c, c2) /\ tree' = tree /\ Head(c.todo) = "" /\ c2.stack = c.stack
      BY <1>8 DEF DotStep
    <2>2. PICK n : Goes(tree, c, path, n)
      BY <1>7, <2>1
    <2>3. Goes(tree, c2, path, n + 1)
      BY <1>1, <1>7, <2>1, <2>2, GoesDot
    <2>4. QED
      BY <1>4, <1>7, <2>1, <2>3
  <1>9. CASE UpStep(tree, tree', c, c2)
    <2>1. /\ Moves(c, c2) /\ tree' = tree /\ Head(c.todo) = ".." /\ Len(c.stack) > 1
          /\ c2.stack = ButLast(c.stack)
      BY <1>9 DEF UpStep
    <2>2. PICK n : Goes(tree, c, path, n)
      BY <1>7, <2>1
    <2>3. Goes(tree, c2, path, n + 1)
      BY <1>1, <1>7, <2>1, <2>2, GoesUp
    <2>4. QED
      BY <1>4, <1>7, <2>1, <2>3
  <1>10. ASSUME NEW d, EnterStep(tree, tree', c, c2, d)
         PROVE  StageOK(tree', c2, orig)
    <2>1. /\ Moves(c, c2) /\ tree' = tree /\ Head(c.todo) \in Name
          /\ d \in Dir /\ tree[Last(c)][Head(c.todo)] = DirectoryEntry(d)
          /\ c2.stack = Append(c.stack, d)
      BY <1>10 DEF EnterStep, AtEntry
    <2>2. PICK n : Goes(tree, c, path, n)
      BY <1>7, <2>1
    <2>3. Goes(tree, c2, path, n + 1)
      BY <1>1, <1>7, <2>1, <2>2, GoesInto
    <2>4. QED
      BY <1>4, <1>7, <2>1, <2>3
  <1>11. ASSUME NEW tr2, NEW d, CreateStep(tree, tree', c, c2, tr2, d), Unentered({d})
         PROVE  StageOK(tree', c2, orig)
    <2>1. /\ Moves(c, c2) /\ Head(c.todo) \in Name
          /\ d \in Dir /\ Changed(tree, tr2, Last(c), Head(c.todo), {d})
          /\ tree' = Pruned(tr2) /\ c2.stack = Append(c.stack, d)
      BY <1>11 DEF CreateStep, AtEntry
    <2>2. PICK n : Goes(tree, c, path, n)
      BY <1>7, <2>1
    <2>3. \A k \in 1 .. Len(c.stack) : c.stack[k] \notin {d}
      BY <1>11 DEF Unentered
    <2>4. Goes(tree', c, path, n)
      BY <1>1, <1>7, <2>1, <2>2, <2>3, GoesKept
    <2>5. d \in Linked(tree') => tree'[Last(c)][Head(c.todo)] = DirectoryEntry(d)
      BY <1>1, <2>1, CreatedEntry
    <2>6. Goes(tree', c2, path, n + 1)
      BY <1>1, <1>7, <2>1, <2>4, <2>5, GoesInto
    <2>7. QED
      BY <1>4, <1>7, <2>1, <2>6
  <1>12. ASSUME NEW tr2, NEW New, StoreStep(tree, tree', c, c2, tr2, New)
         PROVE  StageOK(tree', c2, orig)
    BY <1>3, <1>12, ResponseTypes DEF StoreStep, AtEntry
  <1> HIDE DEF c, c2
  <1>13. QED
    BY <1>5, <1>6, <1>8, <1>9, <1>10, <1>11, <1>12 DEF StageStep, QuietStep, c, c2

StageInv ==
    \A t \in Thread :
        call[t].kind = "stage" => StageOK(tree, call[t], scenario.calls[t].requests)

LEMMA StageInvInit ==
    ASSUME Init
    PROVE  StageInv
  <1>1. ASSUME NEW t \in Thread, call[t].kind = "stage"
        PROVE  StageOK(tree, call[t], scenario.calls[t].requests)
    <2> DEFINE orig == scenario.calls[t].requests
    <2>1. /\ call[t].pc = "next" /\ call[t].requests = orig /\ call[t].responses = <<>>
          /\ orig \in Seq(Artifact)
      BY <1>1, InitCalls, ScenarioTypes
    <2> HIDE DEF orig
    <2>2. Len(<<>>) = 0 /\ Len(orig) \in Nat
      BY <2>1, LenProperties
    <2>3. Progress(orig, 0, orig)
      BY <2>2 DEF Progress
    <2>4. QED
      BY <2>1, <2>2, <2>3 DEF StageOK, Tracked, orig
  <1>2. QED
    BY <1>1 DEF StageInv

(* Other calls only see what becomes of the output path.                   *)
LEMMA StageOKSame ==
    ASSUME NEW tr, NEW c, NEW c2, NEW orig, Same(c, c2), StageOK(tr, c, orig)
    PROVE  StageOK(tr, c2, orig)
  <1>1. \A path, n : Goes(tr, c, path, n) => Goes(tr, c2, path, n)
    BY DEF Same, Goes
  <1>2. c2.pc = c.pc /\ c2.requests = c.requests /\ c2.responses = c.responses
    BY DEF Same
  <1>3. QED
    BY <1>1, <1>2 DEF StageOK, StageWalk, Tracked

LEMMA StageOKKept ==
    ASSUME TypeInv, NEW u \in Thread, call[u].kind = "stage",
           NEW tr2, NEW T, NEW x, NEW New, Changed(tree, tr2, T, x, New), Unentered(New),
           NEW orig, StageOK(tree, call[u], orig)
    PROVE  StageOK(Pruned(tr2), call[u], orig)
  <1> DEFINE c == call[u]  path == Head(c.requests).path
  <1>1. SUFFICES ASSUME c.pc = "walk"
                 PROVE  StageWalk(Pruned(tr2), c)
    BY DEF StageOK
  <1>2. /\ c.stack \in Seq(Dir) /\ IsTree(tree) /\ c.requests # <<>> /\ path \in Path
    BY <1>1, StageCallTypes DEF TypeInv
  <1>3. \A k \in 1 .. Len(c.stack) : c.stack[k] \notin New
    BY DEF Unentered
  <1>4. PICK n : Goes(tree, c, path, n)
    BY <1>1 DEF StageOK, StageWalk
  <1>5. Goes(Pruned(tr2), c, path, n)
    BY <1>2, <1>3, <1>4, GoesKept
  <1>6. QED
    BY <1>5 DEF StageWalk

LEMMA StageInvStep ==
    ASSUME TypeInv, StageInv, [Next]_vars
    PROVE  StageInv'
  <1>1. CASE UNCHANGED vars
    BY <1>1 DEF StageInv, vars
  <1>2. ASSUME NEW t \in Thread, OthersSame(t), NEW u \in Thread \ {t},
               scenario' = scenario, call'[u].kind = "stage",
               \/ tree' = tree
               \/ \E tr2, T, c, New :
                     Changed(tree, tr2, T, c, New) /\ tree' = Pruned(tr2) /\ Unentered(New)
        PROVE  StageOK(tree', call'[u], scenario'.calls[u].requests)
    <2> DEFINE orig == scenario.calls[u].requests
    <2>1. Same(call[u], call'[u])
      BY <1>2 DEF OthersSame
    <2>2. call[u].kind = "stage"
      BY <1>2, <2>1 DEF Same
    <2>3. StageOK(tree, call[u], orig)
      BY <2>2 DEF StageInv
    <2>4. StageOK(tree', call[u], orig)
      BY <1>2, <2>2, <2>3, StageOKKept
    <2>5. StageOK(tree', call'[u], orig)
      BY <2>1, <2>4, StageOKSame
    <2>6. QED
      BY <1>2, <2>5
  <1>3. ASSUME NEW t \in Thread, call[t].kind = "stage", CallStep(t, StageCall), StageStep(t)
        PROVE  StageInv'
    <2>1. OthersSame(t) /\ scenario' = scenario
      BY <1>3 DEF CallStep
    <2>2. scenario.calls[t].requests \in Seq(Artifact)
      BY <1>3, ScenarioTypes DEF TypeInv
    <2>3. StageOK(tree, call[t], scenario.calls[t].requests)
      BY <1>3 DEF StageInv
    <2>4. StageOK(tree', call'[t], scenario'.calls[t].requests)
      BY <1>3, <2>1, <2>2, <2>3, StageWalkStep
    <2>5. QED
      BY <1>2, <1>3, <2>1, <2>4, StageStepTree DEF StageInv
  <1>4. ASSUME NEW t \in Thread, call[t].kind = "stat", CallStep(t, StatCall), StatStep(t)
        PROVE  StageInv'
    <2>1. OthersSame(t) /\ scenario' = scenario /\ tree' = tree
      BY <1>4 DEF CallStep, StatStep
    <2>2. call'[t].kind = "stat"
      BY <1>4, CallFields DEF CallStep, StatCall
    <2>3. QED
      BY <1>2, <2>1, <2>2 DEF StageInv
  <1>5. QED
    BY <1>1, <1>3, <1>4, Steps

-----------------------------------------------------------------------------
(* Where the output path changes: the place of one of the directories that *)
(* an artifact is in, if there is no directory, or that of the artifact.   *)
Put(pl, T, x, tr2, New) ==
    /\ pl \in Seq(Word) /\ LeadsTo(tree, pl, T)
    /\ Changed(tree, tr2, T, x, New) /\ tree' = Pruned(tr2)

CurrentPath(t) == Head(call[t].requests).path

CreateAt(t, n, T, x, tr2, d) ==
    /\ call[t].requests # <<>>
    /\ n \in Nat /\ n \in 0 .. Len(Comps(CurrentPath(t))) - 1
    /\ Place(CurrentPath(t))[n + 1] = Append(Place(CurrentPath(t))[n], x)
    /\ n + 1 # Len(Comps(CurrentPath(t)))
    /\ tree[T][x].type # "directory"
    /\ tr2[T][x] = DirectoryEntry(d) /\ d \in Dir
    /\ Put(Place(CurrentPath(t))[n], T, x, tr2, {d})

StoreAt(t, n, T, x, tr2, New) ==
    /\ call[t].requests # <<>>
    /\ n \in Nat /\ n \in 0 .. Len(Comps(CurrentPath(t))) - 1
    /\ Place(CurrentPath(t))[n + 1] = Append(Place(CurrentPath(t))[n], x)
    /\ n + 1 = Len(Comps(CurrentPath(t)))
    /\ Put(Place(CurrentPath(t))[n], T, x, tr2, New)

(* The artifact that a call is staging.                                    *)
Current(t) == <<t, Len(call[t].responses) + 1, Head(call[t].requests)>>

LEMMA CurrentIsArtifact ==
    ASSUME TypeInv, StageInv, NEW t \in Thread, call[t].kind = "stage",
           call[t].requests # <<>>
    PROVE  /\ Current(t) \in Artifacts
           /\ Current(t)[1] = t /\ Current(t)[2] = Len(call[t].responses) + 1
           /\ Current(t)[3].path = CurrentPath(t) /\ CurrentPath(t) \in Path
  <1> DEFINE orig == scenario.calls[t].requests  n == Len(call[t].responses)
  <1>1. orig \in Seq(Artifact) /\ scenario.calls[t].kind = "stage"
    BY ScenarioTypes DEF TypeInv
  <1>2. /\ call[t].requests \in Seq(Artifact) /\ call[t].responses \in Seq(Response)
        /\ Head(call[t].requests).path \in Path
    BY StageCallTypes
  <1>3. Tracked(call[t], orig)
    BY DEF StageInv, StageOK
  <1>4. Head(call[t].requests) = orig[n + 1] /\ n + 1 \in 1 .. Len(orig)
    BY <1>1, <1>2, <1>3, TrackedHead
  <1>5. n + 1 \in DOMAIN orig
    BY <1>1, <1>4, LenProperties
  <1> DEFINE k == n + 1
  <1> HIDE DEF k
  <1>6. <<t, k, orig[k]>> \in Artifacts
    BY <1>1, <1>5 DEF Artifacts, k
  <1>7. QED
    BY <1>2, <1>4, <1>6 DEF Current, CurrentPath, k

LEMMA AtEntryPlace ==
    ASSUME TypeInv, StageInv, NEW t \in Thread, call[t].kind = "stage",
           AtEntry(tree, call[t]),
           NEW n, Goes(tree, call[t], CurrentPath(t), n)
    PROVE  /\ n \in Nat /\ n \in 0 .. Len(Comps(CurrentPath(t))) - 1
           /\ Place(CurrentPath(t))[n + 1] =
                Append(Place(CurrentPath(t))[n], Head(call[t].todo))
           /\ Len(call[t].todo) = 1 <=> n + 1 = Len(Comps(CurrentPath(t)))
           /\ Head(call[t].todo) = Comps(CurrentPath(t))[n + 1]
           /\ Place(CurrentPath(t))[n] \in Seq(Word)
           /\ LeadsTo(tree, Place(CurrentPath(t))[n], Last(call[t]))
  <1> DEFINE c == call[t]  path == CurrentPath(t)  todo == call[t].todo
  <1>1. /\ c.todo \in Seq(Word) /\ c.stack \in Seq(Dir) /\ IsTree(tree) /\ c.requests # <<>>
        /\ path \in Path
    BY StageCallTypes DEF TypeInv, AtEntry, CurrentPath
  <1>2. c.todo # <<>> /\ Head(c.todo) \in Name /\ Last(c) \in Linked(tree)
    BY DEF AtEntry
  <1>3. Progress(Comps(path), n, c.todo) /\ StackAt(tree, Place(path)[n], c.stack)
    BY DEF Goes
  <1> HIDE DEF c, path
  <1>4. /\ n \in Nat /\ n \in 0 .. Len(Comps(path)) - 1 /\ Place(path)[n] \in Seq(Word)
        /\ (Len(c.todo) = 1 <=> n + 1 = Len(Comps(path)))
        /\ Head(c.todo) = Comps(path)[n + 1]
    BY <1>1, <1>2, <1>3, NextPlace
  <1>5. Place(path)[n + 1] = Append(Place(path)[n], Head(c.todo))
    BY <1>1, <1>2, <1>3, NextPlaceName
  <1>6. LeadsTo(tree, Place(path)[n], Last(c))
    BY <1>1, <1>2, <1>3, <1>4, StackLeadsTo DEF Last
  <1>7. QED
    BY <1>4, <1>5, <1>6 DEF c, path

LEMMA TreeEffect ==
    ASSUME TypeInv, StageInv, NEW t \in Thread, call[t].kind = "stage", StageStep(t)
    PROVE  \/ tree' = tree
           \/ \E n, T, x, tr2, d : CreateAt(t, n, T, x, tr2, d)
           \/ \E n, T, x, tr2, New : StoreAt(t, n, T, x, tr2, New)
  <1> DEFINE c == call[t]  T == Last(call[t])  x == Head(call[t].todo)
  <1>1. ASSUME AtEntry(tree, c)
        PROVE  \E n : Goes(tree, call[t], CurrentPath(t), n)
    BY <1>1 DEF AtEntry, StageInv, StageOK, StageWalk, CurrentPath
  <1>2. CASE QuietStep(t)
    BY <1>2 DEF QuietStep, ErrorStep, BeginStep, DotStep, UpStep, EnterStep
  <1>3. ASSUME NEW tr2, NEW d, CreateStep(tree, tree', call[t], call'[t], tr2, d)
        PROVE  \E n : CreateAt(t, n, T, x, tr2, d)
    <2>1. /\ AtEntry(tree, c) /\ Len(c.todo) # 1 /\ tree[T][x].type # "directory"
          /\ d \in Dir /\ Changed(tree, tr2, T, x, {d}) /\ tr2[T][x] = DirectoryEntry(d)
          /\ tree' = Pruned(tr2)
      BY <1>3 DEF CreateStep
    <2>2. PICK n : Goes(tree, call[t], CurrentPath(t), n)
      BY <1>1, <2>1
    <2>3. CreateAt(t, n, T, x, tr2, d)
      BY <2>1, <2>2, AtEntryPlace DEF CreateAt, Put, AtEntry
    <2>4. QED
      BY <2>3
  <1>4. ASSUME NEW tr2, NEW New, StoreStep(tree, tree', call[t], call'[t], tr2, New)
        PROVE  \E n : StoreAt(t, n, T, x, tr2, New)
    <2>1. /\ AtEntry(tree, c) /\ Len(c.todo) = 1
          /\ Changed(tree, tr2, T, x, New) /\ tree' = Pruned(tr2)
      BY <1>4 DEF StoreStep
    <2>2. PICK n : Goes(tree, call[t], CurrentPath(t), n)
      BY <1>1, <2>1
    <2>3. StoreAt(t, n, T, x, tr2, New)
      BY <2>1, <2>2, AtEntryPlace DEF StoreAt, Put, AtEntry
    <2>4. QED
      BY <2>3
  <1> HIDE DEF T, x
  <1>5. QED
    BY <1>2, <1>3, <1>4 DEF StageStep

(* Places that nothing displaces keep what they had.                       *)
Undisplaced(p) == \A a \in Artifacts : ~ Displaces(a[3].path, p)

OthersInv ==
    \A p \in Seq(Name) :
        /\ p # <<>>
        /\ EntryAt(scenario.tree, p).type \in {"file", "symlink"}
        /\ Undisplaced(p)
        => AtPlace(tree, p, EntryAt(scenario.tree, p))

LEMMA OthersInit ==
    ASSUME Init
    PROVE  OthersInv
  <1>1. tree = scenario.tree /\ IsTree(tree)
    BY InitCalls, ScenarioTypes
  <1>2. ASSUME NEW p \in Seq(Name), p # <<>>,
               EntryAt(scenario.tree, p).type \in {"file", "symlink"}
        PROVE  AtPlace(tree, p, EntryAt(scenario.tree, p))
    <2>1. EntryAt(tree, p) # None
      BY <1>1, <1>2, EntryTypes
    <2>2. QED
      BY <1>1, <1>2, <2>1, EntryAtPlace
  <1>3. QED
    BY <1>2 DEF OthersInv

LEMMA AtPlaceStep ==
    ASSUME TypeInv, StageInv, NEW t \in Thread, call[t].kind = "stage", StageStep(t),
           NEW p \in Seq(Name), p # <<>>, NEW e, AtPlace(tree, p, e),
           call[t].requests # <<>> => ~ Displaces(CurrentPath(t), p)
    PROVE  AtPlace(tree', p, e)
  <1>1. IsTree(tree)
    BY DEF TypeInv
  <1>2. CASE tree' = tree
    BY <1>2
  <1>3. ASSUME NEW n, NEW T, NEW x, NEW tr2, NEW d, CreateAt(t, n, T, x, tr2, d)
        PROVE  AtPlace(tree', p, e)
    <2> DEFINE path == CurrentPath(t)  q == Place(path)[n]
    <2>1. /\ call[t].requests # <<>> /\ n \in Nat /\ n \in 0 .. Len(Comps(path)) - 1
          /\ Place(path)[n + 1] = Append(q, x) /\ n + 1 # Len(Comps(path))
          /\ tree[T][x].type # "directory"
          /\ q \in Seq(Word) /\ LeadsTo(tree, q, T)
          /\ Changed(tree, tr2, T, x, {d}) /\ tree' = Pruned(tr2)
      BY <1>3 DEF CreateAt, Put
    <2>2. path \in Path
      BY <2>1, CurrentIsArtifact
    <2>3. Len(Comps(path)) \in Nat
      BY <2>2, PathTypes
    <2> DEFINE m == Len(Comps(path))  k == n + 1
    <2>4. k \in 0 .. m - 1
      <3>1. m \in Nat /\ n \in 0 .. m - 1 /\ n + 1 # m /\ n \in Nat
        BY <2>1, <2>3
      <3> HIDE DEF m
      <3>2. QED
        BY <3>1
    <2>5. Append(q, x) \in Visited(path)
      BY <2>1, <2>4 DEF Visited, Comps
    <2>6. Append(q, x) # p
      BY <2>1, <2>5 DEF Displaces
    <2> HIDE DEF q, path, m, k
    <2>7. QED
      BY <1>1, <2>1, <2>6, AtPlaceKept
  <1>4. ASSUME NEW n, NEW T, NEW x, NEW tr2, NEW New, StoreAt(t, n, T, x, tr2, New)
        PROVE  AtPlace(tree', p, e)
    <2> DEFINE path == CurrentPath(t)  q == Place(path)[n]
    <2>1. /\ call[t].requests # <<>>
          /\ Place(path)[n + 1] = Append(q, x) /\ n + 1 = Len(Comps(path))
          /\ q \in Seq(Word) /\ LeadsTo(tree, q, T)
          /\ Changed(tree, tr2, T, x, New) /\ tree' = Pruned(tr2)
      BY <1>4 DEF StoreAt, Put
    <2>2. Append(q, x) = Location(path)
      BY <2>1 DEF Location, Comps
    <2>3. ~ IsPrefix(Append(q, x), p)
      BY <2>1, <2>2 DEF Displaces
    <2> HIDE DEF q, path
    <2>4. QED
      BY <1>1, <2>1, <2>3, AtPlaceKept
  <1>5. QED
    BY <1>2, <1>3, <1>4, TreeEffect

LEMMA OthersInvStep ==
    ASSUME TypeInv, StageInv, OthersInv, [Next]_vars
    PROVE  OthersInv'
  <1>1. CASE UNCHANGED vars
    BY <1>1 DEF OthersInv, vars, Undisplaced, Artifacts
  <1>2. ASSUME scenario' = scenario,
               \A p \in Seq(Name) : \A e :
                  p # <<>> /\ Undisplaced(p) /\ AtPlace(tree, p, e) => AtPlace(tree', p, e)
        PROVE  OthersInv'
    <2>1. Artifacts' = Artifacts
      BY <1>2 DEF Artifacts
    <2>2. \A p : Undisplaced(p)' <=> Undisplaced(p)
      BY <2>1 DEF Undisplaced
    <2>3. QED
      BY <1>2, <2>2 DEF OthersInv
  <1>3. ASSUME NEW t \in Thread, call[t].kind = "stage", CallStep(t, StageCall), StageStep(t)
        PROVE  OthersInv'
    <2>1. ASSUME NEW p \in Seq(Name), NEW e, p # <<>>, Undisplaced(p), AtPlace(tree, p, e)
          PROVE  AtPlace(tree', p, e)
      <3>1. call[t].requests # <<>> => ~ Displaces(CurrentPath(t), p)
        BY <1>3, <2>1, CurrentIsArtifact DEF Undisplaced
      <3>2. QED
        BY <1>3, <2>1, <3>1, AtPlaceStep
    <2>2. scenario' = scenario
      BY <1>3 DEF CallStep
    <2>3. QED
      BY <1>2, <2>1, <2>2
  <1>4. ASSUME NEW t \in Thread, call[t].kind = "stat", CallStep(t, StatCall), StatStep(t)
        PROVE  OthersInv'
    BY <1>2, <1>4 DEF CallStep, StatStep
  <1>5. QED
    BY <1>1, <1>3, <1>4, Steps

LEMMA OthersInvKept ==
    ASSUME TypeInv, OthersInv
    PROVE  OthersKept
  <1>1. ASSUME NEW k \in 1 .. MaxDepth, NEW p \in [1 .. k -> Name],
               EntryAt(scenario.tree, p).type \in {"file", "symlink"},
               \A a \in Artifacts : ~ Displaces(a[3].path, p)
        PROVE  EntryAt(tree, p) = EntryAt(scenario.tree, p)
    <2>1. k \in Nat /\ k # 0
      BY DepthAssumption
    <2>2. p \in Seq(Name) /\ Len(p) = k
      BY <2>1
    <2>3. p # <<>>
      BY <2>1, <2>2
    <2>4. AtPlace(tree, p, EntryAt(scenario.tree, p))
      BY <1>1, <2>2, <2>3 DEF OthersInv, Undisplaced
    <2>5. IsTree(tree)
      BY DEF TypeInv
    <2>6. QED
      BY <2>2, <2>3, <2>4, <2>5, EntryAtPlace
  <1>2. QED
    BY <1>1 DEF OthersKept

(* StageArtifacts() keeps its place: while it resolves a path, the stack   *)
(* holds the directories that the components so far lead to, from the root *)
(* directory on, except for the ones that another call has removed.        *)
THEOREM StageCorrect == Spec => []StageInv
  <1>1. Init => StageInv
    BY StageInvInit
  <1>2. TypeInv /\ StageInv /\ [Next]_vars => StageInv'
    BY StageInvStep
  <1>3. QED
    BY <1>1, <1>2, TypeCorrect, PTL DEF Spec

(* Files and symbolic links that are not in the way of any artifact remain *)
(* what they were, however calls of StageArtifacts() interleave, and also  *)
(* if these refuse a path after they have created some of its directories. *)
THEOREM OthersCorrect == Spec => []OthersKept
  <1>1. Init => OthersInv
    BY OthersInit
  <1>2. TypeInv /\ StageInv /\ OthersInv /\ [Next]_vars => OthersInv'
    BY OthersInvStep
  <1>3. TypeInv /\ OthersInv => OthersKept
    BY OthersInvKept
  <1>4. QED
    BY <1>1, <1>2, <1>3, TypeCorrect, StageCorrect, PTL DEF Spec

-----------------------------------------------------------------------------
(* The directories that the first n components of a path lead to exist.    *)
Leads(tr, pl) == \E d : LeadsTo(tr, pl, d)

Passes(path, j) ==
    \/ Comps(path)[j + 1] = ""
    \/ Comps(path)[j + 1] = ".." /\ Place(path)[j] # <<>>
    \/ Comps(path)[j + 1] \in Name

PathOK(tr, path, n) ==
    /\ ~ path.absolute
    /\ \A j \in 0 .. Len(Comps(path)) - 1 : j <= n => Leads(tr, Place(path)[j])
    /\ \A j \in 0 .. Len(Comps(path)) - 1 : j < n => Passes(path, j)

WalkOK(tr, c, path) ==
    \A n : Progress(Comps(path), n, c.todo) => PathOK(tr, path, n)

Result(art, e) ==
    \/ art.type = "file" /\ e = FileEntry(art.digest)
    \/ art.type = "tree" /\ \E d \in Dir : e = DirectoryEntry(d)

(* An artifact can be reached, and is what was staged.                     *)
Stored(tr, art) ==
    /\ Len(Comps(art.path)) # 0
    /\ Comps(art.path)[Len(Comps(art.path))] \in Name
    /\ Location(art.path) \in Seq(Name) /\ Location(art.path) # <<>>
    /\ PathOK(tr, art.path, Len(Comps(art.path)) - 1)
    /\ \E e : AtPlace(tr, Location(art.path), e) /\ Result(art, e)

LEMMA ProgressUnique ==
    ASSUME NEW R, NEW c \in Seq(R), NEW todo, NEW n, NEW m,
           Progress(c, n, todo), Progress(c, m, todo)
    PROVE  n = m
  <1> DEFINE k == Len(c)  l == Len(todo)
  <1>1. k \in Nat
    BY LenProperties
  <1>2. n \in 0 .. k /\ m \in 0 .. k /\ l = k - n /\ l = k - m
    BY DEF Progress
  <1> HIDE DEF k, l
  <1>3. QED
    BY <1>1, <1>2

LEMMA LeadsToNames ==
    ASSUME NEW tr, NEW p \in Seq(Word), NEW d, LeadsTo(tr, p, d)
    PROVE  p \in Seq(Name)
  <1>1. \A i \in 1 .. Len(p) : p[i] \in Name
    BY DEF LeadsTo, Trail
  <1>2. Len(p) \in Nat /\ p = [i \in 1 .. Len(p) |-> p[i]]
    BY LenProperties
  <1>3. p \in [1 .. Len(p) -> Name]
    BY <1>1, <1>2
  <1>4. QED
    BY <1>2, <1>3

LEMMA VisitedPlace ==
    ASSUME NEW path \in Path, NEW j \in 0 .. Len(Comps(path)) - 1,
           NEW X \in Seq(Word), IsPrefix(X, Place(path)[j])
    PROVE  X \in Visited(path)
  <1> DEFINE m == Len(Comps(path))
  <1>1. m \in Nat
    BY PathTypes
  <1>2. j \in 0 .. m
    BY <1>1
  <1>3. PICK k \in 0 .. j : X = Place(path)[k]
    BY <1>2, PlacePrefix
  <1>4. k \in 0 .. m - 1
    <2>1. m \in Nat /\ j \in 0 .. m - 1 /\ k \in 0 .. j
      BY <1>1
    <2> HIDE DEF m
    <2>2. QED
      BY <2>1
  <1>5. QED
    BY <1>3, <1>4 DEF Visited, Comps

LEMMA LeadsStep ==
    ASSUME TypeInv, StageInv, NEW t \in Thread, call[t].kind = "stage", StageStep(t),
           NEW path \in Path, NEW j \in 0 .. Len(Comps(path)) - 1,
           NEW d, LeadsTo(tree, Place(path)[j], d),
           call[t].requests # <<>> => Location(CurrentPath(t)) \notin Visited(path)
    PROVE  LeadsTo(tree', Place(path)[j], d)
  <1>1. IsTree(tree)
    BY DEF TypeInv
  <1>2. Place(path)[j] \in Seq(Word)
    <2> DEFINE m == Len(Comps(path))
    <2>1. m \in Nat
      BY PathTypes
    <2>2. j \in 0 .. m
      BY <2>1
    <2>3. QED
      BY <2>2, PlaceType
  <1> DEFINE p == Place(path)[j]
  <1>3. CASE tree' = tree
    BY <1>3
  <1>4. ASSUME NEW n, NEW T, NEW x, NEW tr2, NEW b, CreateAt(t, n, T, x, tr2, b)
        PROVE  LeadsTo(tree', p, d)
    <2> DEFINE q == Place(CurrentPath(t))[n]
    <2>1. /\ tree[T][x].type # "directory"
          /\ q \in Seq(Word) /\ LeadsTo(tree, q, T)
          /\ Changed(tree, tr2, T, x, {b}) /\ tree' = Pruned(tr2)
      BY <1>4 DEF CreateAt, Put
    <2> HIDE DEF q
    <2>2. QED
      BY <1>1, <1>2, <2>1, LeadsToKept
  <1>5. ASSUME NEW n, NEW T, NEW x, NEW tr2, NEW New, StoreAt(t, n, T, x, tr2, New)
        PROVE  LeadsTo(tree', p, d)
    <2> DEFINE cur == CurrentPath(t)  q == Place(cur)[n]  X == Append(q, x)
    <2>1. /\ call[t].requests # <<>>
          /\ Place(cur)[n + 1] = X /\ n + 1 = Len(Comps(cur))
          /\ q \in Seq(Word) /\ LeadsTo(tree, q, T)
          /\ Changed(tree, tr2, T, x, New) /\ tree' = Pruned(tr2)
      BY <1>5 DEF StoreAt, Put
    <2>2. X = Location(cur)
      BY <2>1 DEF Location, Comps
    <2>3. x \in Word
      BY <2>1, ConstantTypes DEF Changed
    <2> HIDE DEF q
    <2>4. X \in Seq(Word)
      BY <2>1, <2>3, ButLastAppend
    <2>5. X \notin Visited(path)
      BY <2>1, <2>2
    <2> HIDE DEF X, cur
    <2>6. ~ IsPrefix(X, p)
      BY <2>4, <2>5, VisitedPlace
    <2>7. QED
      BY <1>1, <1>2, <2>1, <2>6, LeadsToKept DEF X
  <1> HIDE DEF p
  <1>6. LeadsTo(tree', p, d)
    BY <1>3, <1>4, <1>5, TreeEffect DEF p
  <1>7. QED
    BY <1>6 DEF p

LEMMA PathOKStep ==
    ASSUME TypeInv, StageInv, NEW t \in Thread, call[t].kind = "stage", StageStep(t),
           NEW path \in Path, NEW n, PathOK(tree, path, n),
           call[t].requests # <<>> => Location(CurrentPath(t)) \notin Visited(path)
    PROVE  PathOK(tree', path, n)
  <1>1. ASSUME NEW j \in 0 .. Len(Comps(path)) - 1, j <= n
        PROVE  Leads(tree', Place(path)[j])
    <2>1. PICK d : LeadsTo(tree, Place(path)[j], d)
      BY <1>1 DEF PathOK, Leads
    <2>2. LeadsTo(tree', Place(path)[j], d)
      BY <2>1, LeadsStep
    <2>3. QED
      BY <2>2 DEF Leads
  <1>2. QED
    BY <1>1 DEF PathOK

LEMMA PathOKNext ==
    ASSUME NEW tr, NEW path \in Path, NEW n \in 0 .. Len(Comps(path)) - 1,
           PathOK(tr, path, n), Passes(path, n), Leads(tr, Place(path)[n + 1])
    PROVE  PathOK(tr, path, n + 1)
  <1> DEFINE m == Len(Comps(path))
  <1>1. m \in Nat
    BY PathTypes
  <1>2. /\ \A j \in 0 .. m - 1 : j <= n => Leads(tr, Place(path)[j])
        /\ \A j \in 0 .. m - 1 : j < n => Passes(path, j)
    BY DEF PathOK
  <1>3. n \in 0 .. m - 1
    OBVIOUS
  <1> HIDE DEF m
  <1>4. \A j \in 0 .. m - 1 : /\ j <= n + 1 => j <= n \/ j = n + 1
                              /\ j < n + 1 => j < n \/ j = n
    BY <1>1, <1>3
  <1>5. /\ \A j \in 0 .. m - 1 : j <= n + 1 => Leads(tr, Place(path)[j])
        /\ \A j \in 0 .. m - 1 : j < n + 1 => Passes(path, j)
    BY <1>2, <1>4
  <1>6. QED
    BY <1>5 DEF PathOK, m

LEMMA PathOKAt ==
    ASSUME NEW tr, NEW path \in Path, NEW n \in 0 .. Len(Comps(path)) - 1,
           PathOK(tr, path, n)
    PROVE  Leads(tr, Place(path)[n])
  <1>1. Len(Comps(path)) \in Nat
    BY PathTypes
  <1>2. n <= n
    BY <1>1
  <1>3. QED
    BY <1>2 DEF PathOK

LEMMA PrunedEntry ==
    ASSUME NEW tr, NEW tr2, NEW T, NEW x, NEW New, IsTree(tr), Changed(tr, tr2, T, x, New),
           NEW pl \in Seq(Word), LeadsTo(Pruned(tr2), pl, T)
    PROVE  Pruned(tr2)[T][x] = tr2[T][x]
  <1>1. IsTree(Pruned(tr2)) /\ Linked(Pruned(tr2)) = Linked(tr2)
    BY ChangedTree
  <1>2. T \in Linked(tr2)
    BY <1>1, LeadsToUnique
  <1>3. T \in Dir
    BY IsTreeContents, LinkedClosed DEF Changed
  <1>4. QED
    BY <1>2, <1>3 DEF Pruned

LEMMA LeadsToDir ==
    ASSUME NEW tr, NEW p \in Seq(Word), NEW d, LeadsTo(tr, p, d)
    PROVE  d \in Dir
  <1>1. Len(p) \in Nat
    BY LenProperties
  <1>2. Len(p) \in 0 .. Len(p)
    BY <1>1
  <1>3. QED
    BY <1>2 DEF LeadsTo

LEMMA LeadsInto ==
    ASSUME NEW tr, NEW pl \in Seq(Word), NEW d, LeadsTo(tr, pl, d), NEW x \in Name,
           NEW e \in Dir, tr[d][x] = DirectoryEntry(e)
    PROVE  LeadsTo(tr, Append(pl, x), e)
  <1>1. x \in Word
    BY ConstantTypes
  <1>2. d \in Dir
    BY LeadsToDir
  <1>3. Under(tr, pl, x, e)
    BY <1>2 DEF Under
  <1>4. QED
    BY <1>1, <1>3, LeadsToAppend

LEMMA WalkOKStep ==
    ASSUME TypeInv, StageInv, NEW t \in Thread, call[t].kind = "stage", StageStep(t),
           Moves(call[t], call'[t]), WalkOK(tree, call[t], CurrentPath(t)),
           Location(CurrentPath(t)) \notin Visited(CurrentPath(t))
    PROVE  WalkOK(tree', call'[t], CurrentPath(t))
  <1> DEFINE c == call[t]  c2 == call'[t]  path == CurrentPath(t)  comps == Comps(path)
             x == Head(c.todo)
  <1>1. /\ c.todo \in Seq(Word) /\ c.stack \in Seq(Dir) /\ IsTree(tree)
        /\ c.pc = "walk" /\ c2.pc = "walk" /\ c.todo # <<>> /\ c.requests # <<>>
        /\ c2.todo = Tail(c.todo)
        /\ path \in Path
    BY StageCallTypes DEF TypeInv, Moves, CurrentPath
  <1>2. comps \in Seq(Word)
    BY <1>1, PathTypes
  <1>3. PICK n : Goes(tree, c, path, n)
    BY <1>1 DEF StageInv, StageOK, StageWalk, CurrentPath
  <1>4. Progress(comps, n, c.todo)
    BY <1>3 DEF Goes
  <1>5. /\ n \in 0 .. Len(comps) - 1 /\ Head(c.todo) = comps[n + 1]
        /\ Progress(comps, n + 1, Tail(c.todo)) /\ Place(path)[n] \in Seq(Word)
    BY <1>1, <1>4, NextPlace
  <1>6. PathOK(tree, path, n) /\ PathOK(tree', path, n)
    <2>1. PathOK(tree, path, n)
      BY <1>4 DEF WalkOK
    <2>2. QED
      BY <1>1, <2>1, PathOKStep
  <1>7. SUFFICES Passes(path, n) /\ Leads(tree', Place(path)[n + 1])
    <2>1. ASSUME Passes(path, n), Leads(tree', Place(path)[n + 1])
          PROVE  PathOK(tree', path, n + 1)
      BY <1>1, <1>5, <1>6, <2>1, PathOKNext
    <2>2. \A k : Progress(comps, k, c2.todo) => k = n + 1
      BY <1>1, <1>2, <1>5, ProgressUnique
    <2>3. QED
      BY <2>1, <2>2 DEF WalkOK
  <1>8. PICK d : LeadsTo(tree', Place(path)[n], d)
    BY <1>1, <1>5, <1>6, PathOKAt DEF Leads
  <1>9. CASE DotStep(tree, tree', c, c2)
    <2>1. Head(c.todo) = ""
      BY <1>9 DEF DotStep
    <2>2. Place(path)[n + 1] = Place(path)[n]
      BY <1>1, <1>4, <2>1, NextPlaceDot
    <2>3. QED
      BY <1>5, <1>8, <2>1, <2>2 DEF Passes, Leads
  <1>10. CASE UpStep(tree, tree', c, c2)
    <2>1. Head(c.todo) = ".." /\ Len(c.stack) > 1 /\ c2.stack = ButLast(c.stack)
      BY <1>10 DEF UpStep
    <2>2. Place(path)[n] # <<>>
      BY <1>1, <1>3, <2>1, GoesUp
    <2>3. Place(path)[n + 1] = ButLast(Place(path)[n])
      BY <1>1, <1>4, <2>1, NextPlaceUp
    <2>4. Leads(tree', ButLast(Place(path)[n]))
      BY <1>5, <1>8, <2>2, LeadsToParent DEF Under, Leads
    <2>5. QED
      BY <1>5, <2>1, <2>2, <2>3, <2>4 DEF Passes
  <1>11. ASSUME NEW e, EnterStep(tree, tree', c, c2, e)
         PROVE  Passes(path, n) /\ Leads(tree', Place(path)[n + 1])
    <2>1. /\ tree' = tree /\ AtEntry(tree, c) /\ x \in Name
          /\ e \in Dir /\ tree[Last(c)][x] = DirectoryEntry(e)
      BY <1>11 DEF EnterStep, AtEntry
    <2>2. Place(path)[n + 1] = Append(Place(path)[n], x)
      BY <1>1, <1>4, <2>1, NextPlaceName
    <2>3. LeadsTo(tree, Place(path)[n], Last(c))
      BY <1>3, <2>1, AtEntryPlace
    <2>4. LeadsTo(tree, Append(Place(path)[n], x), e)
      BY <1>5, <2>1, <2>3, LeadsInto
    <2>5. QED
      BY <1>5, <2>1, <2>2, <2>4 DEF Passes, Leads
  <1>12. ASSUME NEW tr2, NEW e, CreateStep(tree, tree', c, c2, tr2, e)
         PROVE  Passes(path, n) /\ Leads(tree', Place(path)[n + 1])
    <2>1. /\ AtEntry(tree, c) /\ x \in Name /\ e \in Dir
          /\ Changed(tree, tr2, Last(c), x, {e})
          /\ tr2[Last(c)][x] = DirectoryEntry(e) /\ tree' = Pruned(tr2)
      BY <1>12 DEF CreateStep, AtEntry
    <2>2. Place(path)[n + 1] = Append(Place(path)[n], x)
      BY <1>1, <1>4, <2>1, NextPlaceName
    <2>3. LeadsTo(tree, Place(path)[n], Last(c))
      BY <1>3, <2>1, AtEntryPlace
    <2>4. LeadsTo(tree', Place(path)[n], Last(c))
      BY <1>1, <1>5, <2>3, LeadsStep
    <2>5. tree'[Last(c)][x] = DirectoryEntry(e)
      BY <1>1, <1>5, <2>1, <2>4, PrunedEntry
    <2>6. LeadsTo(tree', Append(Place(path)[n], x), e)
      BY <1>5, <2>1, <2>4, <2>5, LeadsInto
    <2>7. QED
      BY <1>5, <2>1, <2>2, <2>6 DEF Passes, Leads
  <1>13. /\ ~ ErrorStep(tree, tree', c, c2) /\ ~ BeginStep(tree, tree', c, c2)
         /\ \A tr2, New : ~ StoreStep(tree, tree', c, c2, tr2, New)
    BY <1>1 DEF ErrorStep, BeginStep, StoreStep
  <1> HIDE DEF c, c2, x, path, comps
  <1>14. QED
    BY <1>9, <1>10, <1>11, <1>12, <1>13 DEF StageStep, QuietStep, c, c2

LEMMA StoredByStep ==
    ASSUME TypeInv, StageInv, NEW t \in Thread, call[t].kind = "stage", StageStep(t),
           NEW tr2, NEW New, StoreStep(tree, tree', call[t], call'[t], tr2, New),
           WalkOK(tree, call[t], CurrentPath(t)),
           Location(CurrentPath(t)) \notin Visited(CurrentPath(t))
    PROVE  Stored(tree', Head(call[t].requests))
  <1> DEFINE c == call[t]  path == CurrentPath(t)  comps == Comps(path)  m == Len(comps)
             x == Head(c.todo)  T == Last(c)  art == Head(c.requests)
  <1>1. /\ AtEntry(tree, c) /\ x \in Name /\ Len(c.todo) = 1 /\ c.requests # <<>>
        /\ Changed(tree, tr2, T, x, New) /\ tree' = Pruned(tr2) /\ c.pc = "walk"
    BY DEF StoreStep, AtEntry
  <1>2. path \in Path /\ art.path = path /\ IsTree(tree)
    BY <1>1, StageCallTypes DEF TypeInv, CurrentPath
  <1>3. PICK n : Goes(tree, c, path, n)
    BY <1>1 DEF StageInv, StageOK, StageWalk, CurrentPath
  <1> DEFINE pl == Place(path)[n]
  <1>4. /\ n \in Nat /\ n \in 0 .. m - 1 /\ Place(path)[n + 1] = Append(pl, x)
        /\ n + 1 = m /\ x = comps[n + 1] /\ pl \in Seq(Word) /\ LeadsTo(tree, pl, T)
    BY <1>1, <1>3, AtEntryPlace
  <1>5. LeadsTo(tree', pl, T)
    BY <1>1, <1>2, <1>4, LeadsStep
  <1>6. tree'[T][x] = tr2[T][x]
    BY <1>1, <1>2, <1>4, <1>5, PrunedEntry
  <1>7. Result(art, tree'[T][x])
    BY <1>6 DEF StoreStep, Result
  <1>8. PathOK(tree', path, n)
    <2>1. PathOK(tree, path, n)
      BY <1>3 DEF WalkOK, Goes
    <2>2. QED
      BY <1>1, <1>2, <2>1, PathOKStep
  <1>9. m \in Nat /\ m # 0 /\ n = m - 1 /\ comps[m] \in Name
    <2>1. m \in Nat
      BY <1>2, PathTypes
    <2> HIDE DEF m
    <2>2. QED
      BY <1>1, <1>4, <2>1
  <1>10. pl \in Seq(Name)
    BY <1>4, <1>5, LeadsToNames
  <1>11. Location(path) = Append(pl, x)
    BY <1>4 DEF Location, Comps
  <1>12. T \in Dir
    BY <1>1, <1>2, StageCallTypes DEF AtEntry
  <1> HIDE DEF x, pl, c, path, comps, m, T, art
  <1>13. /\ Append(pl, x) \in Seq(Name) /\ Append(pl, x) # <<>>
         /\ Append(pl, x)[Len(Append(pl, x))] = x /\ ButLast(Append(pl, x)) = pl
    BY <1>1, <1>10, ButLastAppend
  <1>14. AtPlace(tree', Append(pl, x), tree'[T][x])
    BY <1>5, <1>12, <1>13 DEF AtPlace
  <1>15. Stored(tree', art)
    BY <1>2, <1>7, <1>8, <1>9, <1>11, <1>13, <1>14 DEF Stored, comps, m
  <1>16. QED
    BY <1>15 DEF art, c

LEMMA StoredKept ==
    ASSUME TypeInv, StageInv, NEW t \in Thread, call[t].kind = "stage", StageStep(t),
           NEW art \in Artifact, Stored(tree, art),
           call[t].requests # <<>> =>
              /\ ~ Displaces(CurrentPath(t), Location(art.path))
              /\ Location(CurrentPath(t)) \notin Visited(art.path)
    PROVE  Stored(tree', art)
  <1> DEFINE path == art.path  k == Len(Comps(art.path)) - 1  p == Location(art.path)
  <1>1. path \in Path
    BY DEF Artifact
  <1>2. PathOK(tree, path, k) /\ p \in Seq(Name) /\ p # <<>>
    BY DEF Stored
  <1>3. PathOK(tree', path, k)
    BY <1>1, <1>2, PathOKStep
  <1>4. PICK e : AtPlace(tree, p, e) /\ Result(art, e)
    BY DEF Stored
  <1>5. AtPlace(tree', p, e)
    BY <1>2, <1>4, AtPlaceStep
  <1>6. QED
    BY <1>3, <1>4, <1>5 DEF Stored

-----------------------------------------------------------------------------
(* Artifacts in whose way no other artifact is.  The ones that have been   *)
(* staged can be reached, and the directories of the one that is being     *)
(* staged exist.                                                           *)
Uncontested(a) ==
    \A b \in Artifacts : /\ b # a => ~ Displaces(b[3].path, Location(a[3].path))
                         /\ Location(b[3].path) \notin Visited(a[3].path)

FoundOK(tr, c, i, art) ==
    /\ i \in 1 .. Len(c.responses) /\ c.responses[i] = "OK" => Stored(tr, art)
    /\ i = Len(c.responses) + 1 /\ c.pc = "walk" => WalkOK(tr, c, art.path)

FoundInv ==
    \A a \in Artifacts : Uncontested(a) => FoundOK(tree, call[a[1]], a[2], a[3])

LEMMA ArtifactFields ==
    ASSUME TypeInv, NEW a \in Artifacts
    PROVE  /\ a[1] \in Thread /\ call[a[1]].kind = "stage"
           /\ scenario.calls[a[1]].requests \in Seq(Artifact)
           /\ a[2] \in 1 .. Len(scenario.calls[a[1]].requests)
           /\ a[3] = scenario.calls[a[1]].requests[a[2]]
           /\ a[3] \in Artifact /\ a[3].path \in Path
  <1>1. PICK t \in Thread : /\ scenario.calls[t].kind = "stage"
                            /\ \E i \in DOMAIN scenario.calls[t].requests :
                                  a = <<t, i, scenario.calls[t].requests[i]>>
    BY DEF Artifacts
  <1> DEFINE orig == scenario.calls[t].requests
  <1>2. PICK i \in DOMAIN orig : a = <<t, i, orig[i]>>
    BY <1>1
  <1>3. orig \in Seq(Artifact)
    BY <1>1, ScenarioTypes DEF TypeInv
  <1> HIDE DEF orig
  <1>4. i \in 1 .. Len(orig) /\ orig[i] \in Artifact
    BY <1>2, <1>3, LenProperties, ElementOfSeq
  <1>5. a[1] = t /\ a[2] = i /\ a[3] = orig[i]
    BY <1>2
  <1>6. call[t].kind = "stage"
    BY <1>1 DEF TypeInv
  <1>7. orig[i].path \in Path
    BY <1>4 DEF Artifact
  <1>8. QED
    BY <1>3, <1>4, <1>5, <1>6, <1>7 DEF orig

LEMMA FoundOKSame ==
    ASSUME NEW tr, NEW c, NEW c2, Same(c, c2), NEW i, NEW art, FoundOK(tr, c, i, art)
    PROVE  FoundOK(tr, c2, i, art)
  BY DEF FoundOK, Same, WalkOK

LEMMA UncontestedKept ==
    ASSUME TypeInv, StageInv, NEW t \in Thread, call[t].kind = "stage", StageStep(t),
           NEW a \in Artifacts, Uncontested(a)
    PROVE  /\ \A c : WalkOK(tree, c, a[3].path) => WalkOK(tree', c, a[3].path)
           /\ Stored(tree, a[3]) /\ (call[t].requests # <<>> => Current(t) # a) =>
                Stored(tree', a[3])
  <1>1. a[3] \in Artifact /\ a[3].path \in Path
    BY ArtifactFields
  <1>2. ASSUME call[t].requests # <<>>
        PROVE  /\ Location(CurrentPath(t)) \notin Visited(a[3].path)
               /\ Current(t) # a => ~ Displaces(CurrentPath(t), Location(a[3].path))
    BY <1>2, CurrentIsArtifact DEF Uncontested
  <1>3. ASSUME NEW c, WalkOK(tree, c, a[3].path)
        PROVE  WalkOK(tree', c, a[3].path)
    BY <1>1, <1>2, <1>3, PathOKStep DEF WalkOK
  <1>4. ASSUME Stored(tree, a[3]), call[t].requests # <<>> => Current(t) # a
        PROVE  Stored(tree', a[3])
    BY <1>1, <1>2, <1>4, StoredKept
  <1>5. QED
    BY <1>3, <1>4

LEMMA WalkOKBegin ==
    ASSUME NEW tr, NEW c, NEW path \in Path, ~ path.absolute, c.todo = Comps(path)
    PROVE  WalkOK(tr, c, path)
  <1> DEFINE m == Len(Comps(path))
  <1>1. m \in Nat /\ Comps(path) \in Seq(Word)
    BY PathTypes
  <1>2. ASSUME NEW n, Progress(Comps(path), n, c.todo)
        PROVE  n = 0
    <2>1. n \in 0 .. m /\ m = m - n
      BY <1>2 DEF Progress
    <2> HIDE DEF m
    <2>2. QED
      BY <1>1, <2>1
  <1>3. Leads(tr, Place(path)[0])
    BY PlaceEquations, LeadsToRoot DEF Leads
  <1>4. PathOK(tr, path, 0)
    <2> HIDE DEF m
    <2>1. \A j \in 0 .. m - 1 : (j <= 0 => j = 0) /\ ~ (j < 0)
      BY <1>1
    <2>2. QED
      BY <1>3, <2>1 DEF PathOK, m
  <1>5. QED
    BY <1>2, <1>4 DEF WalkOK

LEMMA FoundOwnStep ==
    ASSUME TypeInv, StageInv, NEW a \in Artifacts, Uncontested(a), StageStep(a[1]),
           FoundOK(tree, call[a[1]], a[2], a[3])
    PROVE  FoundOK(tree', call'[a[1]], a[2], a[3])
  <1> DEFINE t == a[1]  i == a[2]  art == a[3]  c == call[a[1]]  c2 == call'[a[1]]
             m == Len(call[a[1]].responses)
  <1>1. t \in Thread /\ c.kind = "stage" /\ i \in Nat /\ art \in Artifact /\ art.path \in Path
    BY ArtifactFields
  <1>2. m \in Nat /\ c.responses \in Seq(Response)
    BY <1>1, StageCallTypes, LenProperties
  <1>3. ASSUME c.requests # <<>>
        PROVE  /\ i # m + 1 => Current(t) # a
               /\ i = m + 1 => art = Head(c.requests)
    <2>1. Current(t)[2] = m + 1
      BY <1>1, <1>3, CurrentIsArtifact
    <2>2. Tracked(c, scenario.calls[t].requests)
      BY <1>1 DEF StageInv, StageOK
    <2>3. Head(c.requests) = scenario.calls[t].requests[m + 1]
      <3>1. scenario.calls[t].requests \in Seq(Artifact)
        BY ArtifactFields
      <3>2. c.requests \in Seq(Artifact)
        BY <1>1, StageCallTypes
      <3> DEFINE orig == scenario.calls[t].requests
      <3>3. Tracked(c, orig)
        BY <2>2
      <3> HIDE DEF orig, c
      <3>4. Head(c.requests) = orig[Len(c.responses) + 1]
        BY <1>2, <1>3, <3>1, <3>2, <3>3, TrackedHead DEF orig
      <3>5. QED
        BY <3>4 DEF orig, c
    <2>4. art = scenario.calls[t].requests[i]
      BY ArtifactFields
    <2>5. QED
      BY <2>1, <2>3, <2>4
  <1>4. ASSUME i \in 1 .. m, c.responses[i] = "OK"
        PROVE  Stored(tree', art)
    <2>1. i # m + 1
      BY <1>2, <1>4
    <2>2. Stored(tree, art)
      BY <1>4 DEF FoundOK
    <2>3. QED
      BY <1>1, <1>3, <2>1, <2>2, UncontestedKept
  <1>5. ASSUME c.requests # <<>>, i = m + 1
        PROVE  /\ art = Head(c.requests) /\ art.path = CurrentPath(t)
               /\ Location(CurrentPath(t)) \notin Visited(CurrentPath(t))
    <2>1. art = Head(c.requests) /\ art.path = CurrentPath(t)
      BY <1>3, <1>5 DEF CurrentPath
    <2>2. Location(art.path) \notin Visited(art.path)
      BY DEF Uncontested
    <2>3. QED
      BY <2>1, <2>2
  <1>6. CASE BeginStep(tree, tree', c, c2)
    <2>1. /\ c.requests # <<>> /\ c2.responses = c.responses
          /\ ~ Head(c.requests).path.absolute
          /\ c2.todo = Comps(Head(c.requests).path)
      BY <1>6 DEF BeginStep
    <2>2. ASSUME i = m + 1
          PROVE  WalkOK(tree', c2, art.path)
      BY <1>1, <1>5, <2>1, <2>2, WalkOKBegin
    <2>3. QED
      BY <1>4, <2>1, <2>2 DEF FoundOK
  <1>7. CASE Moves(c, c2)
    <2>1. c.requests # <<>> /\ c2.responses = c.responses /\ c.pc = "walk"
      BY <1>1, <1>7 DEF Moves, TypeInv
    <2>2. ASSUME i = m + 1
          PROVE  WalkOK(tree', c2, art.path)
      <3>1. WalkOK(tree, c, CurrentPath(t))
        BY <1>5, <2>1, <2>2 DEF FoundOK
      <3>2. QED
        BY <1>1, <1>5, <1>7, <2>1, <2>2, <3>1, WalkOKStep
    <2>3. QED
      BY <1>4, <2>1, <2>2 DEF FoundOK
  <1>8. ASSUME NEW r \in {"OK", "error"}, c2.pc = "next",
               c2.responses = Append(c.responses, r),
               r = "OK" /\ i = m + 1 => Stored(tree', art)
        PROVE  FoundOK(tree', c2, i, art)
    <2>1. r \in Response
      BY <1>8, ResponseTypes
    <2>2. /\ Len(c2.responses) = m + 1
          /\ \A k \in 1 .. m : c2.responses[k] = c.responses[k]
          /\ c2.responses[m + 1] = r
      BY <1>2, <1>8, <2>1, ButLastAppend
    <2> HIDE DEF c, c2, m, i, art
    <2>3. ASSUME i \in 1 .. m + 1, c2.responses[i] = "OK"
          PROVE  Stored(tree', art)
      <3>1. CASE i \in 1 .. m
        BY <1>4, <2>2, <2>3, <3>1
      <3>2. CASE i = m + 1
        BY <1>8, <2>2, <2>3, <3>2
      <3>3. QED
        BY <1>2, <2>3, <3>1, <3>2
    <2>4. QED
      BY <1>8, <2>2, <2>3 DEF FoundOK
  <1>9. CASE ErrorStep(tree, tree', c, c2)
    BY <1>8, <1>9 DEF ErrorStep
  <1>10. ASSUME NEW tr2, NEW New, StoreStep(tree, tree', c, c2, tr2, New)
         PROVE  FoundOK(tree', c2, i, art)
    <2>1. /\ c.requests # <<>> /\ c.pc = "walk" /\ c2.pc = "next"
          /\ c2.responses = Append(c.responses, "OK")
      BY <1>10 DEF StoreStep, AtEntry
    <2>2. ASSUME i = m + 1
          PROVE  Stored(tree', art)
      <3>1. WalkOK(tree, c, CurrentPath(t))
        BY <1>5, <2>1, <2>2 DEF FoundOK
      <3>2. Stored(tree', Head(c.requests))
        BY <1>1, <1>5, <1>10, <2>1, <2>2, <3>1, StoredByStep
      <3>3. QED
        BY <1>5, <2>1, <2>2, <3>2
    <2>3. QED
      BY <1>8, <2>1, <2>2
  <1> HIDE DEF c, c2, i, art
  <1>11. QED
    BY <1>6, <1>7, <1>9, <1>10
    DEF StageStep, QuietStep, DotStep, UpStep, EnterStep, CreateStep, c, c2, t, i, art

LEMMA FoundInit ==
    ASSUME Init
    PROVE  FoundInv
  <1>1. TypeInv
    BY TypeInit
  <1>2. ASSUME NEW a \in Artifacts
        PROVE  FoundOK(tree, call[a[1]], a[2], a[3])
    <2>1. a[1] \in Thread
      BY <1>1, ArtifactFields
    <2>2. call[a[1]].pc = "next" /\ call[a[1]].responses = <<>>
      BY <2>1, InitCalls
    <2>3. Len(<<>>) = 0
      BY EmptySeq
    <2>4. QED
      BY <2>2, <2>3 DEF FoundOK
  <1>3. QED
    BY <1>2 DEF FoundInv

LEMMA FoundInvStep ==
    ASSUME TypeInv, StageInv, FoundInv, [Next]_vars
    PROVE  FoundInv'
  <1>1. CASE UNCHANGED vars
    BY <1>1 DEF FoundInv, vars, Uncontested, Artifacts
  <1>2. ASSUME scenario' = scenario,
               \A a \in Artifacts : Uncontested(a) => FoundOK(tree', call'[a[1]], a[2], a[3])
        PROVE  FoundInv'
    <2>1. Artifacts' = Artifacts
      BY <1>2 DEF Artifacts
    <2>2. \A a : Uncontested(a)' <=> Uncontested(a)
      BY <2>1 DEF Uncontested
    <2>3. QED
      BY <1>2, <2>1, <2>2 DEF FoundInv
  <1>3. ASSUME NEW t \in Thread, call[t].kind = "stage", CallStep(t, StageCall), StageStep(t)
        PROVE  FoundInv'
    <2>1. ASSUME NEW a \in Artifacts, Uncontested(a)
          PROVE  FoundOK(tree', call'[a[1]], a[2], a[3])
      <3>1. FoundOK(tree, call[a[1]], a[2], a[3])
        BY <2>1 DEF FoundInv
      <3>2. CASE a[1] = t
        BY <1>3, <2>1, <3>1, <3>2, FoundOwnStep
      <3>3. CASE a[1] # t
        <4>1. Same(call[a[1]], call'[a[1]])
          BY <1>3, <3>3, ArtifactFields DEF CallStep, OthersSame
        <4>2. call[t].requests # <<>> => Current(t) # a
          BY <1>3, <3>3, CurrentIsArtifact
        <4>3. FoundOK(tree', call[a[1]], a[2], a[3])
          BY <1>3, <2>1, <3>1, <4>2, UncontestedKept DEF FoundOK
        <4>4. QED
          BY <4>1, <4>3, FoundOKSame
      <3>4. QED
        BY <3>2, <3>3
    <2>2. QED
      BY <1>2, <1>3, <2>1 DEF CallStep
  <1>4. ASSUME NEW t \in Thread, call[t].kind = "stat", CallStep(t, StatCall), StatStep(t)
        PROVE  FoundInv'
    <2>1. ASSUME NEW a \in Artifacts, Uncontested(a)
          PROVE  FoundOK(tree', call'[a[1]], a[2], a[3])
      <3>1. FoundOK(tree, call[a[1]], a[2], a[3])
        BY <2>1 DEF FoundInv
      <3>2. a[1] \in Thread \ {t}
        BY <1>4, ArtifactFields
      <3>3. Same(call[a[1]], call'[a[1]]) /\ tree' = tree
        BY <1>4, <3>2 DEF CallStep, OthersSame, StatStep
      <3>4. QED
        BY <3>1, <3>3, FoundOKSame
    <2>2. QED
      BY <1>2, <1>4, <2>1 DEF CallStep
  <1>5. QED
    BY <1>1, <1>3, <1>4, Steps

-----------------------------------------------------------------------------
(* What has been staged is what is found.                                  *)
LEMMA StatPasses ==
    ASSUME NEW tr, IsTree(tr), NEW path \in Path, NEW l \in Nat,
           NEW todo \in Seq(Word), todo # <<>>, NEW n, Progress(Comps(path), n, todo),
           NEW d, LeadsTo(tr, Place(path)[n], d), Passes(path, n),
           Leads(tr, Place(path)[n + 1])
    PROVE  \E e : /\ LeadsTo(tr, Place(path)[n + 1], e)
                  /\ StatFrom(tr, l, d, todo) = StatFrom(tr, l, e, Tail(todo))
  <1> DEFINE p == Place(path)[n]  x == Head(todo)
  <1>1. /\ x = Comps(path)[n + 1] /\ p \in Seq(Word) /\ Place(path)[n + 1] \in Seq(Word)
        /\ Tail(todo) \in Seq(Word)
    BY NextPlace
  <1>2. d \in Dir
    BY <1>1, LeadsToDir
  <1>3. CASE x = ""
    <2>1. Place(path)[n + 1] = p
      BY <1>3, NextPlaceDot
    <2>2. StatFrom(tr, l, d, todo) = StatFrom(tr, l, d, Tail(todo))
      BY <1>2, <1>3, StatFromCases
    <2>3. QED
      BY <2>1, <2>2
  <1>4. CASE x = ".."
    <2>1. p # <<>>
      BY <1>1, <1>4, ConstantTypes DEF Passes
    <2>2. Place(path)[n + 1] = ButLast(p)
      BY <1>4, NextPlaceUp
    <2> HIDE DEF p
    <2>3. LeadsTo(tr, p, d)
      BY DEF p
    <2>4. Under(tr, ButLast(p), p[Len(p)], d)
      BY <1>1, <2>1, <2>3, LeadsToParent
    <2>5. PICK y \in Dir : LeadsTo(tr, ButLast(p), y) /\ tr[y][p[Len(p)]] = DirectoryEntry(d)
      BY <2>4 DEF Under
    <2>6. p[Len(p)] \in Name
      BY <1>1, <2>1, <2>3, LeadsToLast, Zenon
    <2>7. d # Root
      BY <1>1, <2>1, <2>3, LeadsToOther
    <2>8. \A z \in Dir : (\E k \in Name : tr[z][k] = DirectoryEntry(d)) <=> z = y
      BY <1>2, <2>5, <2>6, TreeUnique
    <2>9. Parent(tr, d) = y
      BY <2>8 DEF Parent
    <2>10. StatFrom(tr, l, d, todo) = StatFrom(tr, l, Parent(tr, d), Tail(todo))
      BY <1>2, <1>4, <2>7, <2>9, StatFromCases
    <2>11. QED
      BY <2>2, <2>5, <2>9, <2>10
  <1>5. CASE x \in Name
    <2>1. Place(path)[n + 1] = Append(p, x)
      BY <1>5, NextPlaceName
    <2>2. PICK e : LeadsTo(tr, Place(path)[n + 1], e)
      BY DEF Leads
    <2>3. x \in Word
      BY <1>5, ConstantTypes
    <2> HIDE DEF p, x
    <2>4. LeadsTo(tr, Append(p, x), e) /\ LeadsTo(tr, p, d)
      BY <2>1, <2>2 DEF p
    <2>5. e \in Dir /\ Under(tr, p, x, e)
      BY <1>1, <2>3, <2>4, LeadsToAppend
    <2>6. PICK y \in Dir : LeadsTo(tr, p, y) /\ tr[y][x] = DirectoryEntry(e)
      BY <2>5 DEF Under
    <2>7. y = d
      BY <1>1, <2>4, <2>6, LeadsToUnique
    <2>8. StatFrom(tr, l, d, todo) = StatFrom(tr, l, e, Tail(todo))
      BY <1>2, <1>5, <2>5, <2>6, <2>7, StatFromDirectory DEF x
    <2>9. QED
      BY <2>2, <2>8
  <1>6. QED
    BY <1>1, <1>3, <1>4, <1>5 DEF Passes

Found(art) == IF art.type = "file" THEN FileEntry(art.digest) ELSE Directory

LEMMA StatEnds ==
    ASSUME NEW tr, IsTree(tr), NEW art \in Artifact, Stored(tr, art), NEW l \in Nat
    PROVE  \A todo \in Seq(Word) : \A n, d :
              /\ Len(todo) = 1 /\ Progress(Comps(art.path), n, todo)
              /\ LeadsTo(tr, Place(art.path)[n], d)
              => StatFrom(tr, l, d, todo) = Found(art)
  <1> SUFFICES ASSUME NEW todo \in Seq(Word), NEW n, NEW d, Len(todo) = 1,
                      Progress(Comps(art.path), n, todo),
                      LeadsTo(tr, Place(art.path)[n], d)
               PROVE  StatFrom(tr, l, d, todo) = Found(art)
    OBVIOUS
  <1> DEFINE path == art.path  p == Place(art.path)[n]  x == Head(todo)
             m == Len(Comps(art.path))
  <1>1. path \in Path /\ art.type \in {"file", "tree"} /\ art.digest \in STRING
    BY DEF Artifact
  <1>2. todo # <<>>
    <2>1. Len(todo) # 0
      OBVIOUS
    <2>2. QED
      BY <2>1, EmptySeq
  <1>3. /\ x = Comps(path)[n + 1] /\ p \in Seq(Word) /\ Tail(todo) \in Seq(Word)
        /\ n + 1 = m
    BY <1>1, <1>2, NextPlace
  <1>4. x \in Name
    BY <1>3 DEF Stored
  <1>5. Place(path)[n + 1] = Append(p, x)
    BY <1>1, <1>2, <1>4, NextPlaceName
  <1>6. Location(path) = Append(p, x)
    BY <1>3, <1>5 DEF Location, Comps
  <1>7. PICK e : AtPlace(tr, Append(p, x), e) /\ Result(art, e)
    BY <1>6 DEF Stored
  <1>8. x \in Word
    BY <1>4, ConstantTypes
  <1>9. Tail(todo) = <<>>
    <2>1. Len(Tail(todo)) = Len(todo) - 1
      BY <1>2, HeadTailProperties
    <2>2. Len(Tail(todo)) = 0
      BY <2>1
    <2>3. QED
      BY <1>3, <2>2, EmptySeq
  <1>10. d \in Dir
    BY <1>3, LeadsToDir
  <1>11. LeadsTo(tr, p, d)
    OBVIOUS
  <1> HIDE DEF p, x, path, m
  <1>12. ButLast(Append(p, x)) = p /\ Append(p, x)[Len(Append(p, x))] = x
    BY <1>3, <1>8, ButLastAppend
  <1>13. PICK y \in Dir : LeadsTo(tr, p, y) /\ tr[y][x] = e
    BY <1>7, <1>12 DEF AtPlace
  <1>14. y = d
    BY <1>3, <1>11, <1>13, LeadsToUnique
  <1>15. CASE art.type = "file" /\ e = FileEntry(art.digest)
    <2>1. e.type = "file"
      BY <1>1, <1>15, EntryTypes
    <2>2. StatFrom(tr, l, d, todo) = e
      BY <1>2, <1>4, <1>9, <1>10, <1>13, <1>14, <2>1, StatFromEntry DEF x
    <2>3. QED
      BY <1>15, <2>2 DEF Found
  <1>16. ASSUME art.type = "tree", NEW f \in Dir, e = DirectoryEntry(f)
         PROVE  StatFrom(tr, l, d, todo) = Found(art)
    <2>1. StatFrom(tr, l, d, todo) = StatFrom(tr, l, f, Tail(todo))
      BY <1>2, <1>4, <1>10, <1>13, <1>14, <1>16, StatFromDirectory DEF x
    <2>2. StatFrom(tr, l, f, Tail(todo)) = Directory
      BY <1>9, <1>16, StatFromNothing
    <2>3. QED
      BY <1>16, <2>1, <2>2 DEF Found
  <1>17. QED
    BY <1>7, <1>15, <1>16 DEF Result

LEMMA StatFinds ==
    ASSUME NEW tr, IsTree(tr), NEW art \in Artifact, Stored(tr, art), NEW l \in Nat
    PROVE  StatFrom(tr, l, Root, Comps(art.path)) = Found(art)
  <1> DEFINE path == art.path  c == Comps(path)  m == Len(c)
             Finds(k) == \A n \in 0 .. m - 1, todo \in Seq(Word) : \A d :
                            /\ n + k + 1 = m /\ Progress(c, n, todo)
                            /\ LeadsTo(tr, Place(path)[n], d)
                            => StatFrom(tr, l, d, todo) = Found(art)
             S == {k \in Nat : Finds(k)}
  <1>1. path \in Path
    BY DEF Artifact
  <1>2. c \in Seq(Word) /\ m \in Nat /\ m # 0
    BY <1>1, PathTypes DEF Stored
  <1>3. PathOK(tr, path, m - 1)
    BY DEF Stored
  <1>0. \A todo \in Seq(Word) : \A n, d :
            /\ Len(todo) = 1 /\ Progress(Comps(art.path), n, todo)
            /\ LeadsTo(tr, Place(art.path)[n], d)
            => StatFrom(tr, l, d, todo) = Found(art)
    BY StatEnds
  <1>4. 0 \in S
    <2>1. ASSUME NEW n \in 0 .. m - 1, NEW todo \in Seq(Word), NEW d,
                 n + 0 + 1 = m, Progress(c, n, todo), LeadsTo(tr, Place(path)[n], d)
          PROVE  StatFrom(tr, l, d, todo) = Found(art)
      <3>1. Len(todo) = m - n
        BY <2>1 DEF Progress
      <3>2. Len(todo) = 1
        <4> HIDE DEF m
        <4>1. QED
          BY <1>2, <2>1, <3>1
      <3>3. Progress(Comps(art.path), n, todo) /\ LeadsTo(tr, Place(art.path)[n], d)
        BY <2>1
      <3> HIDE DEF S, Finds, m, c, path
      <3>4. QED
        BY <1>0, <3>2, <3>3, Zenon
    <2>2. QED
      BY <2>1
  <1>5. ASSUME NEW k \in S
        PROVE  k + 1 \in S
    <2>1. k \in Nat /\ Finds(k)
      OBVIOUS
    <2>2. ASSUME NEW n \in 0 .. m - 1, NEW todo \in Seq(Word), NEW d,
                 n + (k + 1) + 1 = m, Progress(c, n, todo), LeadsTo(tr, Place(path)[n], d)
          PROVE  StatFrom(tr, l, d, todo) = Found(art)
      <3>1. Len(todo) = m - n
        BY <2>2 DEF Progress
      <3>2. /\ n + 1 \in 0 .. m - 1 /\ (n + 1) + k + 1 = m /\ Len(todo) # 0
            /\ n < m - 1 /\ n + 1 <= m - 1
        <4> HIDE DEF m
        <4>1. QED
          BY <1>2, <2>1, <2>2, <3>1
      <3>3. todo # <<>>
        BY <3>2, EmptySeq
      <3>4. Tail(todo) \in Seq(Word) /\ Progress(c, n + 1, Tail(todo))
        BY <1>1, <2>2, <3>3, NextPlace
      <3>5. Passes(path, n) /\ Leads(tr, Place(path)[n + 1])
        BY <1>3, <2>2, <3>2 DEF PathOK
      <3>6. PICK e : /\ LeadsTo(tr, Place(path)[n + 1], e)
                     /\ StatFrom(tr, l, d, todo) = StatFrom(tr, l, e, Tail(todo))
        <4>1. Progress(Comps(path), n, todo) /\ LeadsTo(tr, Place(path)[n], d)
          BY <2>2
        <4> HIDE DEF S, Finds, m, c, path
        <4>2. QED
          BY <1>1, <3>3, <3>5, <4>1, StatPasses
      <3>7. StatFrom(tr, l, e, Tail(todo)) = Found(art)
        <4> HIDE DEF m
        <4>1. QED
          BY <2>1, <3>2, <3>4, <3>6
      <3>8. QED
        BY <3>6, <3>7
    <2>3. QED
      BY <2>1, <2>2
  <1>6. S \in SUBSET Nat
    OBVIOUS
  <1>7. S = Nat
    <2> HIDE DEF S
    <2>1. QED
      BY <1>4, <1>5, <1>6, SetInduction
  <1>8. Finds(m - 1)
    <2>1. m - 1 \in Nat
      <3> HIDE DEF m
      <3>1. QED
        BY <1>2
    <2> HIDE DEF m, Finds
    <2>2. QED
      BY <1>7, <2>1
  <1>9. Progress(c, 0, c)
    <2> HIDE DEF c
    <2>1. QED
      BY <1>2 DEF Progress
  <1>10. LeadsTo(tr, Place(path)[0], Root)
    BY <1>1, PlaceEquations, LeadsToRoot
  <1>11. 0 \in 0 .. m - 1 /\ 0 + (m - 1) + 1 = m
    <2> HIDE DEF m
    <2>1. QED
      BY <1>2
  <1> HIDE DEF m
  <1>12. QED
    BY <1>2, <1>8, <1>9, <1>10, <1>11

LEMMA FoundInvFound ==
    ASSUME TypeInv, FoundInv
    PROVE  StagedIsFound
  <1>1. ASSUME NEW a \in Artifacts, a[2] \in DOMAIN call[a[1]].responses,
               call[a[1]].responses[a[2]] = "OK", Uncontested(a)
        PROVE  StatPath(tree, a[3].path, MaxLinks) = Found(a[3])
    <2>1. a[1] \in Thread /\ call[a[1]].kind = "stage" /\ a[3] \in Artifact
      BY ArtifactFields
    <2>2. call[a[1]].responses \in Seq(Response)
      BY <2>1, StageCallTypes
    <2>3. a[2] \in 1 .. Len(call[a[1]].responses)
      BY <1>1, <2>2, LenProperties
    <2>4. Stored(tree, a[3])
      BY <1>1, <2>3 DEF FoundInv, FoundOK
    <2>5. IsTree(tree) /\ MaxLinks \in Nat
      BY ConstantTypes DEF TypeInv
    <2>6. StatFrom(tree, MaxLinks, Root, Comps(a[3].path)) = Found(a[3])
      BY <2>1, <2>4, <2>5, StatFinds
    <2>7. ~ a[3].path.absolute
      BY <2>4 DEF Stored, PathOK
    <2>8. QED
      BY <2>6, <2>7 DEF StatPath, StatScope, StatFrom, Comps
  <1>2. QED
    BY <1>1 DEF StagedIsFound, Uncontested, Found

(* An artifact that StageArtifacts() reports to be staged is what lstat()  *)
(* finds under its path, no matter how many calls stage how many other     *)
(* artifacts meanwhile, as long as none of them is meant to be where it is *)
(* or where one of its directories is.                                     *)
THEOREM FoundCorrect == Spec => []StagedIsFound
  <1>1. Init => FoundInv
    BY FoundInit
  <1>2. TypeInv /\ StageInv /\ FoundInv /\ [Next]_vars => FoundInv'
    BY FoundInvStep
  <1>3. TypeInv /\ FoundInv => StagedIsFound
    BY FoundInvFound
  <1>4. QED
    BY <1>1, <1>2, <1>3, TypeCorrect, StageCorrect, PTL DEF Spec
=============================================================================
