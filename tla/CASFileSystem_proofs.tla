------------------------ MODULE CASFileSystem_proofs ------------------------
(***************************************************************************)
(* Proofs about the read-only part of the virtual file system.             *)
(***************************************************************************)
EXTENDS CASFileSystem, SequenceTheorems, WellFoundedInduction, TLAPS

-----------------------------------------------------------------------------
(* Induction over the natural numbers.  What is to be shown of all of them *)
(* is given as the set of those of which it is true.                       *)
LessThan == {p \in Nat \X Nat : p[1] < p[2]}

LEMMA LessThanWellFounded == IsWellFoundedOn(LessThan, Nat)
  <1>1. LessThan = OpToRel(<, Nat)
    BY Zenon DEF LessThan, OpToRel
  <1>2. QED
    BY <1>1, NatLessThanWellFounded, Zenon

LEMMA SetInduction ==
    ASSUME NEW S \in SUBSET Nat, 0 \in S, \A k \in S : k + 1 \in S
    PROVE  S = Nat
  <1> DEFINE T == Nat \ S
  <1>1. SUFFICES ASSUME T # {}
                 PROVE  FALSE
    OBVIOUS
  <1>2. T \subseteq Nat
    OBVIOUS
  <1> HIDE DEF T
  <1>3. PICK x \in T : \A y \in T : ~ (<<y, x>> \in LessThan)
    BY <1>1, <1>2, LessThanWellFounded, WFMin, Zenon
  <1>4. \A y \in T : ~ (y < x)
    BY <1>2, <1>3 DEF LessThan
  <1>5. x \in Nat /\ x \notin S
    BY <1>3 DEF T
  <1>6. x # 0 /\ x - 1 \in Nat
    BY <1>5
  <1>7. x - 1 \in S
    BY <1>4, <1>6 DEF T
  <1>8. QED
    BY <1>5, <1>6, <1>7

-----------------------------------------------------------------------------
(* The bisection of sort.Search().                                         *)
HalvingsUpTo(s, n, m, step) ==
    step = [k \in 0 .. m |-> IF k = 0 THEN [lo |-> 0, hi |-> Len(s)]
                             ELSE Halve(s, n, step[k - 1])]

Halvings(s, n) == CHOOSE step : HalvingsUpTo(s, n, Len(s), step)

LEMMA HalvingsExist ==
    ASSUME NEW s, NEW n, Len(s) \in Nat
    PROVE  HalvingsUpTo(s, n, Len(s), Halvings(s, n))
  <1> DEFINE S == {m \in Nat : \E step : HalvingsUpTo(s, n, m, step)}
  <1>1. 0 \in S
    <2> DEFINE step == [k \in 0 .. 0 |-> [lo |-> 0, hi |-> Len(s)]]
    <2>1. HalvingsUpTo(s, n, 0, step)
      BY DEF HalvingsUpTo
    <2>2. QED
      BY <2>1
  <1>2. ASSUME NEW m \in S
        PROVE  m + 1 \in S
    <2>1. PICK f : HalvingsUpTo(s, n, m, f)
      OBVIOUS
    <2> DEFINE g == [k \in 0 .. m + 1 |-> IF k = m + 1 THEN Halve(s, n, f[m])
                                          ELSE f[k]]
    <2>2. m \in Nat
      OBVIOUS
    <2>3. ASSUME NEW k \in 0 .. m + 1
          PROVE  g[k] = IF k = 0 THEN [lo |-> 0, hi |-> Len(s)]
                        ELSE Halve(s, n, g[k - 1])
      <3>1. CASE k = m + 1
        BY <2>2, <3>1
      <3>2. CASE k # m + 1
        <4>1. k \in 0 .. m
          BY <2>2, <3>2
        <4>2. g[k] = f[k] /\ (k # 0 => g[k - 1] = f[k - 1])
          BY <2>2, <4>1
        <4>3. f[k] = IF k = 0 THEN [lo |-> 0, hi |-> Len(s)]
                     ELSE Halve(s, n, f[k - 1])
          BY <2>1, <4>1 DEF HalvingsUpTo
        <4>4. QED
          BY <4>2, <4>3
      <3>3. QED
        BY <3>1, <3>2
    <2>4. g = [k \in 0 .. m + 1 |-> g[k]]
      OBVIOUS
    <2> HIDE DEF g
    <2>5. HalvingsUpTo(s, n, m + 1, g)
      BY <2>3, <2>4 DEF HalvingsUpTo
    <2>6. QED
      BY <2>2, <2>5
  <1>3. S = Nat
    <2> HIDE DEF S
    <2>1. S \in SUBSET Nat
      BY DEF S
    <2>2. QED
      BY <1>1, <1>2, <2>1, SetInduction
  <1>4. \E step : HalvingsUpTo(s, n, Len(s), step)
    BY <1>3
  <1>5. QED
    BY <1>4, Zenon DEF Halvings

(* What remains to be searched after k halvings.                           *)
HalvedOK(s, n, k, r) ==
    /\ r \in [lo : Nat, hi : Nat]
    /\ r.lo <= r.hi
    /\ r.hi <= Len(s)
    /\ r.lo = r.hi \/ r.hi - r.lo <= Len(s) - k
    /\ \A j \in 1 .. r.lo : s[j] < n
    /\ \A j \in r.hi + 1 .. Len(s) : s[j] >= n

LEMMA MidpointBetween ==
    ASSUME NEW lo \in Nat, NEW hi \in Nat, lo < hi, NEW len \in Nat, hi <= len
    PROVE  LET h == (lo + hi) \div 2
           IN  h \in Nat /\ lo <= h /\ h < hi /\ h + 1 \in 1 .. len
  OBVIOUS

LEMMA HalveCorrect ==
    ASSUME NEW s \in Seq(Nat), Sorted(s), NEW n \in Nat, NEW k \in Nat, NEW r,
           HalvedOK(s, n, k, r)
    PROVE  HalvedOK(s, n, k + 1, Halve(s, n, r))
  <1> DEFINE h == (r.lo + r.hi) \div 2
  <1>0. /\ r.lo \in Nat /\ r.hi \in Nat /\ Len(s) \in Nat
        /\ r.lo <= r.hi /\ r.hi <= Len(s)
        /\ \A j \in 1 .. Len(s) : s[j] \in Nat
        /\ DOMAIN s = 1 .. Len(s)
    BY DEF HalvedOK
  <1>s. \A j, l \in 1 .. Len(s) : j < l => s[j] < s[l]
    BY <1>0 DEF Sorted
  <1>1. CASE r.lo >= r.hi
    <2>1. Halve(s, n, r) = r
      BY <1>1 DEF Halve
    <2>2. r.lo = r.hi
      BY <1>0, <1>1
    <2>3. QED
      BY <2>1, <2>2 DEF HalvedOK
  <1>2. CASE ~ (r.lo >= r.hi)
    <2>1. h \in Nat /\ r.lo <= h /\ h < r.hi /\ h + 1 \in 1 .. Len(s)
      <3>1. r.lo < r.hi
        BY <1>0, <1>2
      <3>2. QED
        BY <1>0, <3>1, MidpointBetween, Zenon
    <2> HIDE DEF h
    <2>2. CASE s[h + 1] >= n
      <3> DEFINE q == [lo |-> r.lo, hi |-> h]
      <3>1. Halve(s, n, r) = q
        BY <1>2, <2>2 DEF Halve, h
      <3>2. \A j \in h + 1 .. Len(s) : s[j] >= n
        <4> TAKE j \in h + 1 .. Len(s)
        <4>1. j = h + 1 \/ s[h + 1] < s[j]
          BY <1>0, <1>s, <2>1
        <4>2. s[j] \in Nat /\ s[h + 1] \in Nat
          BY <1>0, <2>1
        <4>3. QED
          BY <2>2, <4>1, <4>2
      <3>3. HalvedOK(s, n, k + 1, q)
        BY <1>0, <1>2, <2>1, <3>2 DEF HalvedOK
      <3>4. QED
        BY <3>1, <3>3
    <2>3. CASE ~ (s[h + 1] >= n)
      <3> DEFINE q == [lo |-> h + 1, hi |-> r.hi]
      <3>1. Halve(s, n, r) = q
        BY <1>2, <2>3 DEF Halve, h
      <3>2. \A j \in 1 .. h + 1 : s[j] < n
        <4> TAKE j \in 1 .. h + 1
        <4>1. j = h + 1 \/ s[j] < s[h + 1]
          BY <1>0, <1>s, <2>1
        <4>2. s[j] \in Nat /\ s[h + 1] \in Nat
          BY <1>0, <2>1
        <4>3. QED
          BY <2>3, <4>1, <4>2
      <3>3. HalvedOK(s, n, k + 1, q)
        BY <1>0, <1>2, <2>1, <3>2 DEF HalvedOK
      <3>4. QED
        BY <3>1, <3>3
    <2>4. QED
      BY <2>2, <2>3
  <1>3. QED
    BY <1>1, <1>2

(* sort.Search() finds the first name that is not smaller than the one     *)
(* that is looked up, in a list of any length.                             *)
LEMMA SearchCorrect ==
    ASSUME NEW s \in Seq(Nat), Sorted(s), NEW n \in Nat
    PROVE  /\ Search(s, n) \in 0 .. Len(s)
           /\ \A j \in 1 .. Search(s, n) : s[j] < n
           /\ \A j \in Search(s, n) + 1 .. Len(s) : s[j] >= n
  <1> DEFINE step == Halvings(s, n)
             S == {k \in Nat : k <= Len(s) => HalvedOK(s, n, k, step[k])}
  <1>0. Len(s) \in Nat
    OBVIOUS
  <1>1. \A k \in 0 .. Len(s) : step[k] = IF k = 0 THEN [lo |-> 0, hi |-> Len(s)]
                                         ELSE Halve(s, n, step[k - 1])
    BY <1>0, HalvingsExist DEF HalvingsUpTo
  <1>2. Search(s, n) = step[Len(s)].lo
    BY Zenon DEF Search, Halvings, HalvingsUpTo
  <1> HIDE DEF step
  <1>3. 0 \in S
    <2>1. step[0] = [lo |-> 0, hi |-> Len(s)]
      BY <1>0, <1>1
    <2>2. QED
      BY <1>0, <2>1 DEF HalvedOK
  <1>4. ASSUME NEW k \in S
        PROVE  k + 1 \in S
    <2>1. SUFFICES ASSUME k + 1 <= Len(s)
                   PROVE  HalvedOK(s, n, k + 1, step[k + 1])
      OBVIOUS
    <2>2. k \in Nat /\ HalvedOK(s, n, k, step[k])
      BY <1>0, <2>1
    <2>3. step[k + 1] = Halve(s, n, step[k])
      BY <1>0, <1>1, <2>1, <2>2
    <2>4. QED
      BY <2>2, <2>3, HalveCorrect
  <1>5. S = Nat
    <2> HIDE DEF S
    <2>1. S \in SUBSET Nat
      BY DEF S
    <2>2. QED
      BY <1>3, <1>4, <2>1, SetInduction
  <1>6. HalvedOK(s, n, Len(s), step[Len(s)])
    BY <1>0, <1>5
  <1>7. step[Len(s)].lo = step[Len(s)].hi
    BY <1>0, <1>6 DEF HalvedOK
  <1>8. QED
    BY <1>0, <1>2, <1>6, <1>7 DEF HalvedOK

-----------------------------------------------------------------------------
(* Listing.  Children are numbered through, from zero.                     *)
Child == [kind : 1 .. 3, index : Nat]
Entry == [child : Child, cookie : Nat]

Length(k) == Len(lists[k])

Start(k) == IF k = 1 THEN 0
            ELSE IF k = 2 THEN Length(1)
            ELSE Length(1) + Length(2)

Total == Length(1) + Length(2) + Length(3)

Numbered(child, n) ==
    /\ child \in Child
    /\ child.index < Length(child.kind)
    /\ Start(child.kind) + child.index = n

ListsOK ==
    /\ lists \in [1 .. 3 -> Seq(Name)]
    /\ \A k \in 1 .. 3 : Sorted(lists[k])
    /\ Valid(lists)

(* The cookie is the number of children that were reported.                *)
ReportedOK ==
    /\ cookie \in Nat
    /\ reported \in Seq(Child)
    /\ Len(reported) = cookie
    /\ \A j \in 1 .. cookie : Numbered(reported[j], j - 1)

(* While a request is being served, the next child is the one after those  *)
(* in the reply.                                                           *)
ReadingOK ==
    /\ kind \in 1 .. 3
    /\ i \in Nat
    /\ base = Start(kind) + 1
    /\ reply \in Seq(Entry)
    /\ cookie + Len(reply) = Start(kind) + i
    /\ \A j \in 1 .. Len(reply) : /\ Numbered(reply[j].child, cookie + j - 1)
                                  /\ reply[j].cookie = cookie + j

ListInv ==
    /\ ListsOK
    /\ ReportedOK
    /\ pc \in {"open", "reading", "end"}
    /\ pc = "reading" => ReadingOK
    /\ pc = "end" => cookie >= Total

LEMMA LengthType ==
    ASSUME ListsOK
    PROVE  /\ \A k \in 1 .. 3 : Length(k) \in Nat
           /\ \A k \in 1 .. 3 : DOMAIN lists[k] = 1 .. Length(k)
  BY DEF ListsOK, Length

LEMMA ListsOfNumbers ==
    ASSUME ListsOK
    PROVE  \A k \in 1 .. 3 : /\ lists[k] \in Seq(Nat)
                             /\ Sorted(lists[k])
                             /\ Len(lists[k]) \in Nat
                             /\ DOMAIN lists[k] = 1 .. Len(lists[k])
                             /\ \A j \in 1 .. Len(lists[k]) : lists[k][j] \in Name
  <1> TAKE k \in 1 .. 3
  <1>1. lists[k] \in Seq(Name) /\ Sorted(lists[k])
    BY DEF ListsOK
  <1>2. /\ Len(lists[k]) \in Nat
        /\ lists[k] \in [1 .. Len(lists[k]) -> Name]
    BY <1>1
  <1>3. Name \subseteq Nat
    BY CASDirectoryAssumption
  <1>4. lists[k] \in [1 .. Len(lists[k]) -> Nat]
    BY <1>2, <1>3
  <1>5. QED
    BY <1>1, <1>2, <1>4

LEMMA StartType ==
    ASSUME ListsOK
    PROVE  /\ \A k \in 1 .. 3 : Start(k) \in Nat
           /\ Start(1) = 0
           /\ \A k \in 1 .. 2 : Start(k + 1) = Start(k) + Length(k)
           /\ Total = Start(3) + Length(3)
  <1>1. Length(1) \in Nat /\ Length(2) \in Nat /\ Length(3) \in Nat
    BY LengthType
  <1>2. QED
    BY <1>1 DEF Start, Total

LEMMA ListInit ==
    ASSUME Init
    PROVE  ListInv
  <1>1. ListsOK
    <2>1. lists \in [1 .. 3 -> SortedList] /\ Valid(lists)
      BY DEF Init
    <2>2. \A s \in SortedList : s \in Seq(Name) /\ Sorted(s)
      <3> TAKE s \in SortedList
      <3>1. PICK n \in 0 .. MaxLength : s \in [1 .. n -> Name]
        BY DEF SortedList
      <3>2. QED
        BY <3>1, CASDirectoryAssumption DEF SortedList
    <2>3. QED
      BY <2>1, <2>2 DEF ListsOK
  <1>2. QED
    BY <1>1 DEF Init, ListInv, ReportedOK

LEMMA ListUnchanged ==
    ASSUME ListInv, UNCHANGED vars
    PROVE  ListInv'
  BY DEF ListInv, ListsOK, ReportedOK, ReadingOK, Numbered, Start, Total,
         Length, vars, Valid

(* The lists do not change.                                                *)
LEMMA ListsKept ==
    ASSUME ListsOK, lists' = lists
    PROVE  /\ ListsOK'
           /\ Total' = Total
           /\ \A k \in 1 .. 3 : Start(k)' = Start(k)
           /\ \A child, n : Numbered(child, n)' <=> Numbered(child, n)
  BY DEF ListsOK, Start, Total, Numbered, Length, Valid

(* The reply is added to what was reported.                                *)
LEMMA ReplyAppended ==
    ASSUME NEW r \in Seq(Child), NEW m \in Nat, NEW children \in [1 .. m -> Child]
    PROVE  /\ r \o children \in Seq(Child)
           /\ Len(r \o children) = Len(r) + m
           /\ \A j \in 1 .. Len(r) : (r \o children)[j] = r[j]
           /\ \A j \in 1 .. m : (r \o children)[Len(r) + j] = children[j]
  <1>1. children \in Seq(Child) /\ Len(children) = m
    OBVIOUS
  <1>2. QED
    BY <1>1

LEMMA ReceiveKeeps ==
    ASSUME ListInv, pc = "reading", NEW last \in BOOLEAN, Receive(last),
           last => cookie + Len(reply) >= Total
    PROVE  ListInv'
  <1> DEFINE children == [j \in DOMAIN reply |-> reply[j].child]
             m == Len(reply)
  <1>0. /\ ListsOK /\ ReportedOK /\ ReadingOK /\ lists' = lists
        /\ ListsOK' /\ Total' = Total
        /\ \A child, n : Numbered(child, n)' <=> Numbered(child, n)
    BY ListsKept DEF ListInv, Receive
  <1>1. /\ m \in Nat /\ DOMAIN reply = 1 .. m
        /\ \A j \in 1 .. m : reply[j] \in Entry
    BY <1>0 DEF ReadingOK
  <1>2. \A j \in 1 .. m : /\ Numbered(reply[j].child, cookie + j - 1)
                          /\ reply[j].cookie = cookie + j
    BY <1>0 DEF ReadingOK
  <1>3. /\ children \in [1 .. m -> Child]
        /\ \A j \in 1 .. m : children[j] = reply[j].child
    BY <1>1 DEF Entry
  <1>4. reported \in Seq(Child) /\ Len(reported) = cookie /\ cookie \in Nat
    BY <1>0 DEF ReportedOK
  <1>5. reported' = reported \o children
    BY DEF Receive
  <1>6. cookie' = cookie + m
    <2>1. CASE reply = <<>>
      BY <1>4, <2>1 DEF Receive
    <2>2. CASE reply # <<>>
      <3>1. m \in 1 .. m
        BY <1>0, <2>2 DEF ReadingOK
      <3>2. cookie' = reply[m].cookie
        BY <2>2 DEF Receive
      <3>3. QED
        BY <1>2, <3>1, <3>2
    <2>3. QED
      BY <2>1, <2>2
  <1> HIDE DEF children, m
  <1>7. /\ reported' \in Seq(Child) /\ Len(reported') = cookie + m
        /\ \A j \in 1 .. cookie : reported'[j] = reported[j]
        /\ \A j \in 1 .. m : reported'[cookie + j] = children[j]
    BY <1>1, <1>3, <1>4, <1>5, ReplyAppended
  <1>8. ASSUME NEW j \in 1 .. cookie + m
        PROVE  Numbered(reported'[j], j - 1)
    <2>1. CASE j <= cookie
      <3>1. j \in 1 .. cookie
        BY <1>4, <2>1
      <3>2. QED
        BY <1>0, <1>7, <3>1 DEF ReportedOK
    <2>2. CASE ~ (j <= cookie)
      <3> DEFINE l == j - cookie
      <3>1. l \in 1 .. m /\ j = cookie + l /\ cookie + l - 1 = j - 1
        BY <1>1, <1>4, <2>2
      <3> HIDE DEF l
      <3>2. reported'[j] = reply[l].child
        BY <1>3, <1>7, <3>1
      <3>3. Numbered(reply[l].child, cookie + l - 1)
        BY <1>2, <3>1
      <3>4. QED
        BY <3>1, <3>2, <3>3
    <2>3. QED
      BY <2>1, <2>2
  <1>9. ReportedOK'
    <2> DEFINE c == cookie + m
    <2>1. c \in Nat
      BY <1>1, <1>4
    <2>2. /\ reported' \in Seq(Child) /\ Len(reported') = c
          /\ \A j \in 1 .. c : Numbered(reported'[j], j - 1)
          /\ cookie' = c
      BY <1>6, <1>7, <1>8
    <2> HIDE DEF c
    <2>3. \A j \in 1 .. c : Numbered(reported[j], j - 1)'
      BY <1>0, <2>2, Zenon DEF Numbered, Start, Length
    <2>4. QED
      BY <2>1, <2>2, <2>3, Zenon DEF ReportedOK
  <1>10. /\ pc' \in {"open", "end"}
         /\ pc' = "end" => cookie' >= Total
    BY <1>6 DEF Receive, m
  <1>11. QED
    BY <1>0, <1>9, <1>10 DEF ListInv

LEMMA ListNext ==
    ASSUME ListInv, Next
    PROVE  ListInv'
  <1>0. /\ ListsOK /\ ReportedOK /\ cookie \in Nat
        /\ \A k \in 1 .. 3 : Length(k) \in Nat /\ Start(k) \in Nat
        /\ Start(1) = 0
        /\ \A k \in 1 .. 2 : Start(k + 1) = Start(k) + Length(k)
        /\ Total = Start(3) + Length(3)
    BY LengthType, StartType DEF ListInv, ReportedOK
  <1>1. ASSUME lists' = lists, UNCHANGED <<cookie, reported>>,
               pc' \in {"open", "reading"}, pc' = "reading" => ReadingOK'
        PROVE  ListInv'
    <2>1. ReportedOK' /\ ListsOK'
      BY <1>0, <1>1, ListsKept DEF ReportedOK
    <2>2. QED
      BY <1>1, <2>1 DEF ListInv
  <1>2. CASE VirtualReadDir
    <2>1. ReadingOK'
      BY <1>0, <1>2 DEF VirtualReadDir, ReadingOK, Start
    <2>2. QED
      BY <1>1, <1>2, <2>1 DEF VirtualReadDir
  <1>3. CASE VirtualReadDirFails
    BY <1>1, <1>3 DEF VirtualReadDirFails
  <1>4. CASE ReportEntry
    <2> DEFINE child == [kind |-> kind, index |-> i]
               entry == [child |-> child, cookie |-> base + i]
               m == Len(reply)
    <2>1. /\ ReadingOK /\ lists' = lists /\ i < Length(kind)
          /\ reply' = Append(reply, entry) /\ i' = i + 1
          /\ UNCHANGED <<pc, cookie, kind, base, reported>> /\ pc = "reading"
      BY <1>4 DEF ReportEntry, ListInv, Length
    <2>2. /\ kind \in 1 .. 3 /\ i \in Nat /\ base = Start(kind) + 1
          /\ reply \in Seq(Entry) /\ m \in Nat
          /\ cookie + m = Start(kind) + i
      BY <2>1 DEF ReadingOK
    <2> DEFINE st == Start(kind)
    <2>3. st \in Nat /\ Length(kind) \in Nat /\ cookie \in Nat
      BY <1>0, <2>2
    <2> HIDE DEF st
    <2>30. base = st + 1 /\ cookie + m = st + i
      BY <2>2 DEF st
    <2>31. base + i \in Nat
      BY <2>2, <2>3, <2>30
    <2>32. child \in Child /\ entry \in Entry
      BY <2>2, <2>31 DEF Child, Entry
    <2>4. /\ child.kind = kind /\ child.index = i /\ entry.child = child
          /\ entry.cookie = base + i
      OBVIOUS
    <2> HIDE DEF child, entry
    <2>5. /\ reply' \in Seq(Entry)
          /\ Len(reply') = m + 1
          /\ \A j \in 1 .. m : reply'[j] = reply[j]
          /\ reply'[m + 1] = entry
      BY <2>1, <2>2, <2>32
    <2> HIDE DEF m
    <2>6. Numbered(child, cookie + m) /\ entry.cookie = cookie + (m + 1)
      <3>1. /\ st + i = cookie + m
            /\ base + i = cookie + (m + 1)
        BY <2>2, <2>3, <2>30
      <3>2. QED
        BY <2>1, <2>32, <2>4, <3>1 DEF Numbered, st
    <2>7. ASSUME NEW j \in 1 .. m + 1
          PROVE  /\ Numbered(reply'[j].child, cookie + j - 1)
                 /\ reply'[j].cookie = cookie + j
      <3>1. CASE j = m + 1
        <4>1. cookie + j - 1 = cookie + m
          BY <1>0, <2>2, <3>1
        <4>2. QED
          BY <2>4, <2>5, <2>6, <3>1, <4>1
      <3>2. CASE j # m + 1
        <4>1. j \in 1 .. m
          BY <2>2, <3>2
        <4>2. QED
          BY <2>1, <2>5, <4>1 DEF ReadingOK, m
      <3>3. QED
        BY <3>1, <3>2
    <2>8. /\ Start(kind)' = Start(kind)
          /\ \A c, n : Numbered(c, n)' <=> Numbered(c, n)
      <3>1. /\ \A k \in 1 .. 3 : Start(k)' = Start(k)
            /\ \A c, n : Numbered(c, n)' <=> Numbered(c, n)
        BY <1>0, <2>1, ListsKept
      <3>2. QED
        BY <2>1, <2>2, <3>1 DEF Start
    <2>9. cookie' + Len(reply') = Start(kind)' + i'
      <3>1. cookie + (m + 1) = st + (i + 1)
        BY <2>2, <2>3, <2>30
      <3>2. QED
        BY <2>1, <2>5, <2>8, <3>1 DEF st
    <2>10. ReadingOK'
      <3>1. kind' \in 1 .. 3 /\ i' \in Nat /\ base' = Start(kind)' + 1
        BY <2>1, <2>2, <2>8
      <3>2. \A j \in 1 .. Len(reply') : /\ Numbered(reply'[j].child, cookie + j - 1)
                                       /\ reply'[j].cookie = cookie + j
        BY <2>5, <2>7
      <3>3. QED
        BY <2>1, <2>5, <2>8, <2>9, <3>1, <3>2 DEF ReadingOK
    <2>11. QED
      BY <1>1, <2>1, <2>10
  <1>5. CASE NextLoop
    <2> DEFINE m == Len(reply)
    <2>1. /\ ReadingOK /\ lists' = lists /\ i >= Length(kind) /\ kind < 3
          /\ kind' = kind + 1 /\ i' = i - Length(kind)
          /\ base' = base + Length(kind)
          /\ UNCHANGED <<pc, cookie, reply, reported>> /\ pc = "reading"
      BY <1>5 DEF NextLoop, ListInv, Length
    <2>2. /\ kind \in 1 .. 3 /\ i \in Nat /\ base = Start(kind) + 1
          /\ m \in Nat /\ cookie + m = Start(kind) + i
      BY <2>1 DEF ReadingOK
    <2> HIDE DEF m
    <2>3. /\ kind \in 1 .. 2 /\ kind + 1 \in 1 .. 3
          /\ Start(kind + 1) = Start(kind) + Length(kind)
          /\ Start(kind) \in Nat /\ Length(kind) \in Nat
      BY <1>0, <2>1, <2>2
    <2>4. Start(kind)' = Start(kind + 1)
      BY <1>0, <2>1, <2>3, ListsKept DEF Start
    <2>5. /\ i - Length(kind) \in Nat
          /\ base + Length(kind) = Start(kind + 1) + 1
          /\ cookie + m = Start(kind + 1) + (i - Length(kind))
      BY <1>0, <2>1, <2>2, <2>3
    <2>6. \A c, n : Numbered(c, n)' <=> Numbered(c, n)
      BY <1>0, <2>1, ListsKept
    <2>7. /\ kind' \in 1 .. 3 /\ i' \in Nat /\ base' = Start(kind)' + 1
          /\ cookie' + Len(reply') = Start(kind)' + i'
      BY <2>1, <2>3, <2>4, <2>5 DEF m
    <2>8. ReadingOK'
      BY <2>1, <2>6, <2>7 DEF ReadingOK
    <2>9. QED
      BY <1>1, <2>1, <2>8
  <1>6. CASE ReportEntryFull
    BY <1>6, ReceiveKeeps DEF ReportEntryFull
  <1>7. CASE VirtualReadDirEnd
    <2> DEFINE m == Len(reply)
    <2>0. /\ pc = "reading" /\ i >= Length(3) /\ Receive(TRUE) /\ kind = 3
          /\ ReadingOK
      BY <1>7 DEF VirtualReadDirEnd, ListInv, Length
    <2>1. i \in Nat /\ m \in Nat /\ cookie + m = Start(3) + i
      BY <2>0 DEF ReadingOK
    <2> HIDE DEF m
    <2>2. Start(3) \in Nat /\ Length(3) \in Nat
      BY <1>0
    <2>3. cookie + m >= Total
      BY <1>0, <2>0, <2>1, <2>2
    <2>4. QED
      BY <2>0, <2>3, ReceiveKeeps DEF m
  <1>8. QED
    BY <1>2, <1>3, <1>4, <1>5, <1>6, <1>7 DEF Next

LEMMA NumberedUnique ==
    ASSUME ListsOK, NEW c, NEW d, NEW n, Numbered(c, n), Numbered(d, n)
    PROVE  c = d
  <1>0. /\ Length(1) \in Nat /\ Length(2) \in Nat /\ Length(3) \in Nat
    BY LengthType
  <1>1. /\ c \in Child /\ c.kind \in 1 .. 3 /\ c.index \in Nat
        /\ c.index < Length(c.kind) /\ Start(c.kind) + c.index = n
    BY DEF Numbered, Child
  <1>2. /\ d \in Child /\ d.kind \in 1 .. 3 /\ d.index \in Nat
        /\ d.index < Length(d.kind) /\ Start(d.kind) + d.index = n
    BY DEF Numbered, Child
  <1>3. c.kind = d.kind
    BY <1>0, <1>1, <1>2 DEF Start
  <1>4. c.index = d.index
    <2>1. Start(c.kind) \in Nat
      BY <1>1, StartType
    <2>2. QED
      BY <1>1, <1>2, <1>3, <2>1
  <1>5. QED
    BY <1>1, <1>2, <1>3, <1>4 DEF Child

LEMMA NumberedBelow ==
    ASSUME ListsOK, NEW c, NEW n, Numbered(c, n)
    PROVE  n \in Nat /\ n < Total
  <1>0. /\ Length(1) \in Nat /\ Length(2) \in Nat /\ Length(3) \in Nat
    BY LengthType
  <1>1. /\ c.kind \in 1 .. 3 /\ c.index \in Nat
        /\ c.index < Length(c.kind) /\ Start(c.kind) + c.index = n
    BY DEF Numbered, Child
  <1>2. QED
    BY <1>0, <1>1 DEF Start, Total

LEMMA EverythingNumbered ==
    ASSUME ListsOK
    PROVE  \A c : c \in Everything <=> \E n \in Nat : Numbered(c, n)
  <1>0. /\ \A k \in 1 .. 3 : Length(k) \in Nat /\ Start(k) \in Nat
        /\ \A k \in 1 .. 3 : DOMAIN lists[k] = 1 .. Length(k)
    BY LengthType, StartType
  <1>1. ASSUME NEW c \in Everything
        PROVE  \E n \in Nat : Numbered(c, n)
    <2>0. PICK k \in 1 .. 3 :
                  c \in {[kind |-> k, index |-> j - 1] : j \in DOMAIN lists[k]}
      BY DEF Everything
    <2>1. PICK j \in DOMAIN lists[k] : c = [kind |-> k, index |-> j - 1]
      BY <2>0
    <2>2. j \in 1 .. Length(k) /\ Length(k) \in Nat /\ Start(k) \in Nat
      BY <1>0, <2>1
    <2>3. j - 1 \in Nat /\ j - 1 < Length(k) /\ Start(k) + (j - 1) \in Nat
      BY <2>2
    <2>4. Numbered(c, Start(k) + (j - 1))
      BY <2>1, <2>3 DEF Numbered, Child
    <2>5. QED
      BY <2>3, <2>4
  <1>2. ASSUME NEW c, NEW n \in Nat, Numbered(c, n)
        PROVE  c \in Everything
    <2>1. /\ c.kind \in 1 .. 3 /\ c.index \in Nat
          /\ c.index < Length(c.kind)
          /\ c = [kind |-> c.kind, index |-> c.index]
      BY <1>2 DEF Numbered, Child
    <2>2. /\ c.index + 1 \in DOMAIN lists[c.kind]
          /\ c.index = (c.index + 1) - 1
      BY <1>0, <2>1
    <2>3. c \in {[kind |-> c.kind, index |-> j - 1] : j \in DOMAIN lists[c.kind]}
      BY <2>1, <2>2
    <2>4. QED
      BY <2>1, <2>3 DEF Everything
  <1>3. QED
    BY <1>1, <1>2

LEMMA ListedOnceFollows ==
    ASSUME ListInv
    PROVE  ListedOnce
  <1>0. /\ ListsOK /\ cookie \in Nat /\ DOMAIN reported = 1 .. cookie
        /\ \A j \in 1 .. cookie : Numbered(reported[j], j - 1)
    BY DEF ListInv, ReportedOK
  <1>1. ASSUME NEW j \in DOMAIN reported, NEW k \in DOMAIN reported, j # k
        PROVE  reported[j] # reported[k]
    BY <1>0, <1>1 DEF Numbered
  <1>2. ASSUME pc = "end"
        PROVE  Range(reported) = Everything
    <2>1. cookie >= Total
      BY <1>2 DEF ListInv
    <2>2. ASSUME NEW c \in Range(reported)
          PROVE  c \in Everything
      <3>1. PICK j \in 1 .. cookie : c = reported[j]
        BY <1>0 DEF Range
      <3>2. Numbered(c, j - 1) /\ j - 1 \in Nat
        BY <1>0, <3>1
      <3>3. QED
        BY <1>0, <3>2, EverythingNumbered
    <2>3. ASSUME NEW c \in Everything
          PROVE  c \in Range(reported)
      <3>1. PICK n \in Nat : Numbered(c, n)
        BY <1>0, EverythingNumbered
      <3>2. n < Total
        BY <1>0, <3>1, NumberedBelow
      <3>3. Total \in Nat
        BY <1>0, LengthType DEF Total
      <3>4. n + 1 \in 1 .. cookie /\ (n + 1) - 1 = n
        BY <1>0, <2>1, <3>2, <3>3
      <3>5. Numbered(reported[n + 1], n)
        BY <1>0, <3>4
      <3>6. c = reported[n + 1]
        BY <1>0, <3>1, <3>5, NumberedUnique
      <3>7. QED
        BY <1>0, <3>4, <3>6 DEF Range
    <2>4. QED
      BY <2>2, <2>3
  <1>3. QED
    BY <1>1, <1>2 DEF ListedOnce

-----------------------------------------------------------------------------
(* Looking up.                                                             *)
LEMMA MatchesCorrect ==
    ASSUME NEW s \in Seq(Nat), Sorted(s), NEW n \in Nat
    PROVE  /\ Matches(s, n) => \E j \in DOMAIN s : s[j] = n
           /\ \A j \in DOMAIN s : s[j] = n => /\ Matches(s, n)
                                              /\ Search(s, n) = j - 1
  <1> DEFINE f == Search(s, n)
  <1>0. /\ Len(s) \in Nat /\ DOMAIN s = 1 .. Len(s)
        /\ \A j \in 1 .. Len(s) : s[j] \in Nat
    OBVIOUS
  <1>1. \A j, k \in 1 .. Len(s) : j < k => s[j] < s[k]
    BY <1>0 DEF Sorted
  <1>2. /\ f \in 0 .. Len(s)
        /\ \A j \in 1 .. f : s[j] < n
        /\ \A j \in f + 1 .. Len(s) : s[j] >= n
    BY SearchCorrect
  <1>3. Matches(s, n) <=> f < Len(s) /\ s[f + 1] = n
    BY DEF Matches
  <1> HIDE DEF f
  <1>4. ASSUME Matches(s, n)
        PROVE  \E j \in DOMAIN s : s[j] = n
    <2>1. f + 1 \in 1 .. Len(s)
      BY <1>0, <1>2, <1>3, <1>4
    <2>2. QED
      BY <1>0, <1>3, <1>4, <2>1
  <1>5. ASSUME NEW j \in DOMAIN s, s[j] = n
        PROVE  Matches(s, n) /\ f = j - 1
    <2>1. j \in 1 .. Len(s) /\ s[j] \in Nat /\ ~ (s[j] < n)
      BY <1>0, <1>5
    <2>2. ~ (j <= f)
      BY <1>0, <1>2, <2>1
    <2>3. f + 1 \in 1 .. Len(s) /\ f + 1 <= j
      BY <1>0, <1>2, <2>1, <2>2
    <2>4. s[f + 1] >= n /\ s[f + 1] \in Nat
      BY <1>0, <1>2, <2>3
    <2>5. ~ (f + 1 < j)
      BY <1>1, <1>5, <2>1, <2>3, <2>4
    <2>6. f + 1 = j
      BY <1>0, <1>2, <2>1, <2>3, <2>5
    <2>7. QED
      BY <1>0, <1>2, <1>3, <1>5, <2>1, <2>6
  <1>6. QED
    BY <1>4, <1>5 DEF f

LEMMA LookupFound ==
    ASSUME ListsOK, NEW c \in Everything
    PROVE  /\ c \in Child
           /\ NameOf(c) \in Name
           /\ VirtualLookup(NameOf(c)) = c
  <1> DEFINE n == NameOf(c)
             found == {k \in 1 .. 3 : Matches(lists[k], n)}
  <1>k. PICK k \in 1 .. 3 :
                c \in {[kind |-> k, index |-> j - 1] : j \in DOMAIN lists[k]}
    BY DEF Everything
  <1>0. PICK j \in DOMAIN lists[k] : c = [kind |-> k, index |-> j - 1]
    BY <1>k
  <1>1. /\ lists[k] \in Seq(Name) /\ j \in 1 .. Len(lists[k])
        /\ Len(lists[k]) \in Nat
    BY <1>0 DEF ListsOK
  <1>2. n = lists[k][j] /\ n \in Name /\ n \in Nat
    <2>1. c.kind = k /\ c.index + 1 = j
      BY <1>0, <1>1
    <2>2. QED
      <3>1. n = lists[k][j]
        BY <2>1 DEF NameOf
      <3>2. n \in Name
        BY <1>1, <3>1, ListsOfNumbers
      <3>3. QED
        BY <3>1, <3>2, CASDirectoryAssumption
  <1>3. \A l \in 1 .. 3 : lists[l] \in Seq(Nat) /\ Sorted(lists[l])
    BY ListsOfNumbers
  <1> HIDE DEF n
  <1>4. Matches(lists[k], n) /\ Search(lists[k], n) = j - 1
    BY <1>0, <1>2, <1>3, MatchesCorrect
  <1>5. ASSUME NEW l \in 1 .. 3, l # k
        PROVE  ~ Matches(lists[l], n)
    <2>1. SUFFICES ASSUME NEW m \in DOMAIN lists[l], lists[l][m] = n
                   PROVE  FALSE
      BY <1>2, <1>3, MatchesCorrect
    <2>2. n \in Range(lists[l]) /\ n \in Range(lists[k])
      BY <1>0, <1>2, <2>1 DEF Range
    <2>3. Range(lists[l]) \intersect Range(lists[k]) = {}
      BY <1>0, <1>5 DEF ListsOK, Valid
    <2>4. QED
      BY <2>2, <2>3
  <1>6. found = {k}
    BY <1>0, <1>4, <1>5
  <1>7. Min(found) = k
    BY <1>0, <1>6 DEF Min
  <1>8. VirtualLookup(n) = [kind |-> k, index |-> Search(lists[k], n)]
    BY <1>6, <1>7 DEF VirtualLookup
  <1>9. c \in Child
    BY <1>0, <1>1 DEF Child
  <1>10. QED
    BY <1>0, <1>2, <1>4, <1>8, <1>9 DEF n

LEMMA LookupNotFound ==
    ASSUME ListsOK, NEW n \in Name,
           n \notin {NameOf(c) : c \in Everything}
    PROVE  VirtualLookup(n) = NULL
  <1>0. \A l \in 1 .. 3 : /\ lists[l] \in Seq(Nat) /\ Sorted(lists[l])
                          /\ DOMAIN lists[l] = 1 .. Len(lists[l])
                          /\ Len(lists[l]) \in Nat
    BY ListsOfNumbers
  <1>1. ASSUME NEW k \in 1 .. 3
        PROVE  ~ Matches(lists[k], n)
    <2>1. SUFFICES ASSUME NEW j \in DOMAIN lists[k], lists[k][j] = n
                   PROVE  FALSE
      BY <1>0, MatchesCorrect, CASDirectoryAssumption
    <2> DEFINE c == [kind |-> k, index |-> j - 1]
    <2>2. c \in Everything
      BY DEF Everything
    <2>3. NameOf(c) = n
      <3>1. j \in Nat
        BY <1>0
      <3>2. c.kind = k /\ c.index + 1 = j
        BY <3>1
      <3>3. QED
        BY <2>1, <3>2 DEF NameOf
    <2>4. QED
      BY <2>2, <2>3
  <1>2. {k \in 1 .. 3 : Matches(lists[k], n)} = {}
    BY <1>1
  <1>3. QED
    BY <1>2 DEF VirtualLookup

LEMMA LookupAgreesFollows ==
    ASSUME ListInv
    PROVE  LookupAgrees
  <1>0. /\ ListsOK /\ DOMAIN reported = 1 .. cookie /\ cookie \in Nat
        /\ \A j \in 1 .. cookie : Numbered(reported[j], j - 1)
    BY DEF ListInv, ReportedOK
  <1>1. ASSUME NEW j \in DOMAIN reported
        PROVE  LET child == reported[j]
               IN  /\ VirtualLookup(NameOf(child)) = child
                   /\ VirtualOpenChild(NameOf(child), TRUE, FALSE) = "OK"
                        <=> Kinds[child.kind] = "file"
                   /\ Kinds[child.kind] = "symlink" =>
                        ResolveHandle(HandleOf(child)) = child
    <2> DEFINE child == reported[j]
    <2>1. Numbered(child, j - 1) /\ j - 1 \in Nat
      BY <1>0
    <2> HIDE DEF child
    <2>2. child \in Everything
      BY <1>0, <2>1, EverythingNumbered
    <2>3. child \in Child /\ VirtualLookup(NameOf(child)) = child
      BY <1>0, <2>2, LookupFound
    <2>4. child # NULL /\ child.kind \in 1 .. 3 /\ child.index \in Nat
      BY <2>3, CASDirectoryAssumption DEF Child
    <2>5. VirtualOpenChild(NameOf(child), TRUE, FALSE) = "OK"
            <=> Kinds[child.kind] = "file"
      BY <2>3, <2>4 DEF VirtualOpenChild, Kinds
    <2>6. ASSUME Kinds[child.kind] = "symlink"
          PROVE  ResolveHandle(HandleOf(child)) = child
      <3>1. child.kind = 3
        BY <2>4, <2>6 DEF Kinds
      <3>2. child # Self
        BY <3>1 DEF Self
      <3>3. HandleOf(child) = child.index + 1
        BY <3>2 DEF HandleOf
      <3>4. child.index < Len(lists[3]) /\ Len(lists[3]) \in Nat
        BY <1>0, <2>1, <3>1, LengthType DEF Numbered, Length
      <3>5. /\ child.index + 1 # 0 /\ (child.index + 1) - 1 = child.index
            /\ ~ (child.index >= Len(lists[3]))
        BY <2>4, <3>4
      <3>6. ResolveHandle(child.index + 1) = [kind |-> 3, index |-> child.index]
        BY <3>5 DEF ResolveHandle
      <3>7. QED
        BY <2>3, <3>1, <3>3, <3>6 DEF Child
    <2>7. QED
      BY <2>3, <2>5, <2>6 DEF child
  <1>2. ASSUME pc = "end",
               NEW n \in Name \ {NameOf(child) : child \in Range(reported)}
        PROVE  /\ VirtualLookup(n) = NULL
               /\ VirtualOpenChild(n, TRUE, FALSE) = "ErrNoEnt"
    <2>1. Range(reported) = Everything
      BY <1>2, ListedOnceFollows DEF ListedOnce
    <2>2. VirtualLookup(n) = NULL
      BY <1>0, <2>1, LookupNotFound
    <2>3. QED
      BY <2>2 DEF VirtualOpenChild
  <1>3. QED
    BY <1>1, <1>2 DEF LookupAgrees

(* A process that lists a directory is told about every child exactly      *)
(* once, and what it is told agrees with what it finds by looking up, for  *)
(* lists of any length: VirtualReadDir(), VirtualLookup() and              *)
(* VirtualOpenChild() of casDirectory.                                     *)
THEOREM ListingAgrees == FileSystemSpec => [](ListedOnce /\ LookupAgrees)
  <1>1. FileSystemInit => ListInv
    BY ListInit DEF FileSystemInit
  <1>2. ListInv /\ [FileSystemNext]_allVars => ListInv'
    <2>1. SUFFICES ASSUME ListInv, [FileSystemNext]_allVars
                   PROVE  ListInv'
      OBVIOUS
    <2>2. Next \/ UNCHANGED vars
      BY <2>1 DEF FileSystemNext, Walk, List, Copy, allVars
    <2>3. QED
      BY <2>1, <2>2, ListNext, ListUnchanged
  <1>3. ListInv => ListedOnce /\ LookupAgrees
    BY ListedOnceFollows, LookupAgreesFollows
  <1>4. QED
    BY <1>1, <1>2, <1>3, PTL DEF FileSystemSpec

-----------------------------------------------------------------------------
(* Sequences that are given by their elements.                             *)
LEMMA Append4 ==
    ASSUME NEW a, NEW b, NEW c, NEW d
    PROVE  Append(<<a, b, c>>, d) = <<a, b, c, d>>
  <1> DEFINE V == {a, b, c, d}
             s == Append(<<a, b, c>>, d)
             t == <<a, b, c, d>>
  <1>1. <<a, b, c>> \in Seq(V) /\ Len(<<a, b, c>>) = 3 /\ d \in V
    OBVIOUS
  <1>2. /\ s \in Seq(V) /\ Len(s) = 4
        /\ s[1] = a /\ s[2] = b /\ s[3] = c /\ s[4] = d
    BY <1>1
  <1>3. /\ t \in Seq(V) /\ Len(t) = 4
        /\ t[1] = a /\ t[2] = b /\ t[3] = c /\ t[4] = d
    OBVIOUS
  <1> HIDE DEF V, s, t
  <1>4. \A j \in 1 .. 4 : s[j] = t[j]
    BY <1>2, <1>3
  <1>5. s = t
    BY <1>2, <1>3, <1>4, SeqEqual
  <1>6. QED
    BY <1>5 DEF s, t

LEMMA Append5 ==
    ASSUME NEW a, NEW b, NEW c, NEW d, NEW e
    PROVE  Append(<<a, b, c, d>>, e) = <<a, b, c, d, e>>
  <1> DEFINE V == {a, b, c, d, e}
             s == Append(<<a, b, c, d>>, e)
             t == <<a, b, c, d, e>>
  <1>1. <<a, b, c, d>> \in Seq(V) /\ Len(<<a, b, c, d>>) = 4 /\ e \in V
    OBVIOUS
  <1>2. /\ s \in Seq(V) /\ Len(s) = 5
        /\ s[1] = a /\ s[2] = b /\ s[3] = c /\ s[4] = d /\ s[5] = e
    BY <1>1
  <1>3. /\ t \in Seq(V) /\ Len(t) = 5
        /\ t[1] = a /\ t[2] = b /\ t[3] = c /\ t[4] = d /\ t[5] = e
    OBVIOUS
  <1> HIDE DEF V, s, t
  <1>4. \A j \in 1 .. 5 : s[j] = t[j]
    BY <1>2, <1>3
  <1>5. s = t
    BY <1>2, <1>3, <1>4, SeqEqual
  <1>6. QED
    BY <1>5 DEF s, t

LEMMA Append6 ==
    ASSUME NEW a, NEW b, NEW c, NEW d, NEW e, NEW f
    PROVE  Append(<<a, b, c, d, e>>, f) = <<a, b, c, d, e, f>>
  <1> DEFINE V == {a, b, c, d, e, f}
             s == Append(<<a, b, c, d, e>>, f)
             t == <<a, b, c, d, e, f>>
  <1>1. <<a, b, c, d, e>> \in Seq(V) /\ Len(<<a, b, c, d, e>>) = 5 /\ f \in V
    OBVIOUS
  <1>2. /\ s \in Seq(V) /\ Len(s) = 6
        /\ s[1] = a /\ s[2] = b /\ s[3] = c /\ s[4] = d /\ s[5] = e /\ s[6] = f
    BY <1>1
  <1>3. /\ t \in Seq(V) /\ Len(t) = 6
        /\ t[1] = a /\ t[2] = b /\ t[3] = c /\ t[4] = d /\ t[5] = e /\ t[6] = f
    OBVIOUS
  <1> HIDE DEF V, s, t
  <1>4. \A j \in 1 .. 6 : s[j] = t[j]
    BY <1>2, <1>3
  <1>5. s = t
    BY <1>2, <1>3, <1>4, SeqEqual
  <1>6. QED
    BY <1>5 DEF s, t

LEMMA Concat5 ==
    ASSUME NEW a, NEW b, NEW c, NEW d, NEW e
    PROVE  <<a, b, c>> \o <<d, e>> = <<a, b, c, d, e>>
  <1> DEFINE V == {a, b, c, d, e}
             s == <<a, b, c>> \o <<d, e>>
             t == <<a, b, c, d, e>>
  <1>1. /\ <<a, b, c>> \in Seq(V) /\ Len(<<a, b, c>>) = 3
        /\ <<d, e>> \in Seq(V) /\ Len(<<d, e>>) = 2
    OBVIOUS
  <1>2. /\ s \in Seq(V) /\ Len(s) = 5
        /\ s[1] = a /\ s[2] = b /\ s[3] = c /\ s[4] = d /\ s[5] = e
    BY <1>1
  <1>3. /\ t \in Seq(V) /\ Len(t) = 5
        /\ t[1] = a /\ t[2] = b /\ t[3] = c /\ t[4] = d /\ t[5] = e
    OBVIOUS
  <1> HIDE DEF V, s, t
  <1>4. \A j \in 1 .. 5 : s[j] = t[j]
    BY <1>2, <1>3
  <1>5. s = t
    BY <1>2, <1>3, <1>4, SeqEqual
  <1>6. QED
    BY <1>5 DEF s, t

LEMMA SubSeq4 ==
    ASSUME NEW a, NEW b, NEW c, NEW d
    PROVE  SubSeq(<<a, b, c, d>>, 4, 4) = <<d>>
  <1> DEFINE V == {a, b, c, d}
             s == SubSeq(<<a, b, c, d>>, 4, 4)
             t == <<d>>
  <1>1. <<a, b, c, d>> \in Seq(V) /\ Len(<<a, b, c, d>>) = 4
    OBVIOUS
  <1>2. /\ s \in Seq(V) /\ Len(s) = 1
        /\ s[1] = d
    BY <1>1
  <1>3. /\ t \in Seq(V) /\ Len(t) = 1
        /\ t[1] = d
    OBVIOUS
  <1> HIDE DEF V, s, t
  <1>4. \A j \in 1 .. 1 : s[j] = t[j]
    BY <1>2, <1>3
  <1>5. s = t
    BY <1>2, <1>3, <1>4, SeqEqual
  <1>6. QED
    BY <1>5 DEF s, t

LEMMA SubSeq5 ==
    ASSUME NEW a, NEW b, NEW c, NEW d, NEW e
    PROVE  SubSeq(<<a, b, c, d, e>>, 4, 5) = <<d, e>>
  <1> DEFINE V == {a, b, c, d, e}
             s == SubSeq(<<a, b, c, d, e>>, 4, 5)
             t == <<d, e>>
  <1>1. <<a, b, c, d, e>> \in Seq(V) /\ Len(<<a, b, c, d, e>>) = 5
    OBVIOUS
  <1>2. /\ s \in Seq(V) /\ Len(s) = 2
        /\ s[1] = d /\ s[2] = e
    BY <1>1
  <1>3. /\ t \in Seq(V) /\ Len(t) = 2
        /\ t[1] = d /\ t[2] = e
    OBVIOUS
  <1> HIDE DEF V, s, t
  <1>4. \A j \in 1 .. 2 : s[j] = t[j]
    BY <1>2, <1>3
  <1>5. s = t
    BY <1>2, <1>3, <1>4, SeqEqual
  <1>6. QED
    BY <1>5 DEF s, t

LEMMA SubSeq6 ==
    ASSUME NEW a, NEW b, NEW c, NEW d, NEW e, NEW f
    PROVE  SubSeq(<<a, b, c, d, e, f>>, 4, 6) = <<d, e, f>>
  <1> DEFINE V == {a, b, c, d, e, f}
             s == SubSeq(<<a, b, c, d, e, f>>, 4, 6)
             t == <<d, e, f>>
  <1>1. <<a, b, c, d, e, f>> \in Seq(V) /\ Len(<<a, b, c, d, e, f>>) = 6
    OBVIOUS
  <1>2. /\ s \in Seq(V) /\ Len(s) = 3
        /\ s[1] = d /\ s[2] = e /\ s[3] = f
    BY <1>1
  <1>3. /\ t \in Seq(V) /\ Len(t) = 3
        /\ t[1] = d /\ t[2] = e /\ t[3] = f
    OBVIOUS
  <1> HIDE DEF V, s, t
  <1>4. \A j \in 1 .. 3 : s[j] = t[j]
    BY <1>2, <1>3
  <1>5. s = t
    BY <1>2, <1>3, <1>4, SeqEqual
  <1>6. QED
    BY <1>5 DEF s, t

LEMMA SubSeq3 ==
    ASSUME NEW a, NEW b, NEW c
    PROVE  SubSeq(<<a, b, c>>, 3, 3) = <<c>>
  <1> DEFINE V == {a, b, c}
             s == SubSeq(<<a, b, c>>, 3, 3)
             t == <<c>>
  <1>1. <<a, b, c>> \in Seq(V) /\ Len(<<a, b, c>>) = 3
    OBVIOUS
  <1>2. /\ s \in Seq(V) /\ Len(s) = 1
        /\ s[1] = c
    BY <1>1
  <1>3. /\ t \in Seq(V) /\ Len(t) = 1
        /\ t[1] = c
    OBVIOUS
  <1> HIDE DEF V, s, t
  <1>4. \A j \in 1 .. 1 : s[j] = t[j]
    BY <1>2, <1>3
  <1>5. s = t
    BY <1>2, <1>3, <1>4, SeqEqual
  <1>6. QED
    BY <1>5 DEF s, t

-----------------------------------------------------------------------------
(* The namespace.  The digests in a tree have the instance name of the     *)
(* tree, and symbolic links exist.                                         *)
DirectoryOK(n) ==
    /\ n \in DirectoryNodes
    /\ n.type = "treeChild" => n.child.path = n.digest.path

NodeOK(n) ==
    /\ n \in Nodes
    /\ n.type \in DirectoryTypes => DirectoryOK(n)
    /\ n.type = "symlink" =>
         DirectoryOK(n.parent) /\ n.index < Symlinks[GetDirectoryContents(n.parent)]

(* The Directory message that should be found.                             *)
MessageOK(n, m) ==
    /\ n.type \in MessageTypes => GetDirectoryContents(n) = m
    /\ n.type = "symlink" => GetDirectoryContents(n.parent) = m

HeldOK ==
    /\ NodeOK(held.node)
    /\ held.node.type # "walker"
    /\ held.handle = NodeHandle(held.node)
    /\ MessageOK(held.node, held.message)

NamespaceInv ==
    /\ NodeOK(node)
    /\ MessageOK(node, message)
    /\ held = NothingHeld \/ HeldOK

(* The handle of a directory, and of the symbolic links in it.             *)
EntryHandle(n, j) == Append(DirectoryHandle(n), Byte(j))

LEMMA EntryHandleForm ==
    ASSUME NEW d, NEW c, NEW j
    PROVE  /\ EntryHandle(ObjectNode("directory", d), j) =
                <<Allocator("decomposed"), LengthAndPath(d.path),
                  CompactBinary(d), Byte(j)>>
           /\ EntryHandle(TreeRootNode(d), j) =
                <<Allocator("tree"), LengthAndPath(d.path), CompactBinary(d),
                  Byte(0), Byte(j)>>
           /\ EntryHandle(TreeChildNode(d, c), j) =
                <<Allocator("tree"), LengthAndPath(d.path), CompactBinary(d),
                  Byte(1), CompactBinary(c), Byte(j)>>
  <1>1. /\ DirectoryHandle(ObjectNode("directory", d)) =
             DigestHandle("decomposed", d)
        /\ DirectoryHandle(TreeRootNode(d)) =
             Append(DigestHandle("tree", d), Byte(0))
        /\ DirectoryHandle(TreeChildNode(d, c)) =
             DigestHandle("tree", d) \o <<Byte(1), CompactBinary(c)>>
    BY DEF DirectoryHandle, ObjectNode, TreeRootNode, TreeChildNode
  <1>2. EntryHandle(ObjectNode("directory", d), j) =
          <<Allocator("decomposed"), LengthAndPath(d.path), CompactBinary(d),
            Byte(j)>>
    BY <1>1, Append4 DEF EntryHandle, DigestHandle
  <1>3. EntryHandle(TreeRootNode(d), j) =
          <<Allocator("tree"), LengthAndPath(d.path), CompactBinary(d), Byte(0),
            Byte(j)>>
    <2>1. DirectoryHandle(TreeRootNode(d)) =
            <<Allocator("tree"), LengthAndPath(d.path), CompactBinary(d), Byte(0)>>
      BY <1>1, Append4 DEF DigestHandle
    <2>2. QED
      BY <2>1, Append5 DEF EntryHandle
  <1>4. EntryHandle(TreeChildNode(d, c), j) =
          <<Allocator("tree"), LengthAndPath(d.path), CompactBinary(d), Byte(1),
            CompactBinary(c), Byte(j)>>
    <2>1. DirectoryHandle(TreeChildNode(d, c)) =
            <<Allocator("tree"), LengthAndPath(d.path), CompactBinary(d),
              Byte(1), CompactBinary(c)>>
      BY <1>1, Concat5 DEF DigestHandle
    <2>2. QED
      BY <2>1, Append6 DEF EntryHandle
  <1>5. QED
    BY <1>2, <1>3, <1>4

LEMMA DirectoryCases ==
    ASSUME NEW n, DirectoryOK(n)
    PROVE  \/ \E d \in Digests : n = ObjectNode("directory", d)
           \/ \E d \in Digests : n = TreeRootNode(d)
           \/ \E d, c \in Digests : c.path = d.path /\ n = TreeChildNode(d, c)
  <1>1. CASE n \in [type : {"directory", "treeRoot"}, digest : Digests]
    <2>1. /\ n.digest \in Digests /\ n.type \in {"directory", "treeRoot"}
          /\ n = [type |-> n.type, digest |-> n.digest]
      BY <1>1
    <2>2. QED
      BY <2>1 DEF ObjectNode, TreeRootNode
  <1>2. CASE n \in [type : {"treeChild"}, digest : Digests, child : Digests]
    <2>1. /\ n.digest \in Digests /\ n.child \in Digests /\ n.type = "treeChild"
          /\ n = [type |-> n.type, digest |-> n.digest, child |-> n.child]
      BY <1>2
    <2>2. n = TreeChildNode(n.digest, n.child) /\ n.child.path = n.digest.path
      BY <2>1 DEF TreeChildNode, DirectoryOK
    <2>3. QED
      BY <2>1, <2>2
  <1>3. QED
    BY <1>1, <1>2 DEF DirectoryOK, DirectoryNodes

(* What is resolved in the directory n.                                    *)
EntryNode(n, j) == IF j = 0 THEN n ELSE SymlinkNode(n, j - 1)

LEMMA ReadDigestCorrect ==
    ASSUME NEW d \in Digests
    PROVE  ReadDigest(d.path, CompactBinary(d)) = d
  <1>1. d = [path |-> d.path, function |-> d.function, hash |-> d.hash]
    BY DEF Digests
  <1>2. QED
    BY <1>1 DEF ReadDigest, CompactBinary

LEMMA ResolveEntry ==
    ASSUME NEW n, NEW j \in Nat, j <= Symlinks[GetDirectoryContents(n)],
           Symlinks[GetDirectoryContents(n)] \in Nat
    PROVE  ResolveInDirectory(n, <<Byte(j)>>) = EntryNode(n, j)
  <1>1. <<Byte(j)>> # <<>> /\ Head(<<Byte(j)>>) = Byte(j) /\ Byte(j)[2] = j
    BY DEF Byte
  <1>2. CASE j = 0
    BY <1>1, <1>2 DEF ResolveInDirectory, EntryNode
  <1>3. CASE j # 0
    <2>1. j - 1 < Symlinks[GetDirectoryContents(n)]
      BY <1>3
    <2>2. QED
      BY <1>1, <1>3, <2>1 DEF ResolveInDirectory, EntryNode
  <1>4. QED
    BY <1>2, <1>3

(* The factory that resolves a handle.                                     *)
LEMMA ResolveDispatch ==
    ASSUME NEW h
    PROVE  LET d == ReadDigest(h[2][2], h[3])
               r == SubSeq(h, 4, Len(h))
           IN  /\ h[1] = Allocator("decomposed") =>
                    Resolve(h) = ResolveInDirectory(ObjectNode("directory", d), r)
               /\ h[1] = Allocator("tree") => Resolve(h) = ResolveTree(d, r)
               /\ h[1] = Allocator("command") =>
                    Resolve(h) = ObjectNode("command", d)
  <1> DEFINE d == ReadDigest(h[2][2], h[3])
             r == SubSeq(h, 4, Len(h))
             A == h[1] = Allocator("decomposed")
             B == h[1] = Allocator("tree")
             C == h[1] = Allocator("command")
             X == ResolveInDirectory(ObjectNode("directory", d), r)
             Y == ResolveTree(d, r)
             Z == ObjectNode("command", d)
  <1>1. Resolve(h) = CASE A -> X [] B -> Y [] C -> Z
    BY DEF Resolve
  <1>2. ~ (A /\ B) /\ ~ (A /\ C) /\ ~ (B /\ C)
    BY DEF Allocator
  <1>3. (A => Resolve(h) = X) /\ (B => Resolve(h) = Y) /\ (C => Resolve(h) = Z)
    <2> HIDE DEF A, B, C, X, Y, Z
    <2>1. QED
      BY <1>1, <1>2
  <1>4. QED
    BY <1>3

(* A handle of a directory, or of a link in it, resolves to that.          *)
LEMMA ResolveHandleCorrect ==
    ASSUME NEW n, DirectoryOK(n), NEW j \in Nat,
           j <= Symlinks[GetDirectoryContents(n)],
           Symlinks[GetDirectoryContents(n)] \in Nat
    PROVE  Resolve(EntryHandle(n, j)) = EntryNode(n, j)
  <1> DEFINE h == EntryHandle(n, j)
  <1>0. ResolveInDirectory(n, <<Byte(j)>>) = EntryNode(n, j)
    BY ResolveEntry
  <1>1. ASSUME NEW d \in Digests, n = ObjectNode("directory", d)
        PROVE  Resolve(h) = EntryNode(n, j)
    <2>1. h = <<Allocator("decomposed"), LengthAndPath(d.path),
                CompactBinary(d), Byte(j)>>
      BY <1>1, EntryHandleForm
    <2>2. ReadDigest(h[2][2], h[3]) = d /\ h[1] = Allocator("decomposed")
      BY <2>1, ReadDigestCorrect DEF LengthAndPath
    <2>3. SubSeq(h, 4, Len(h)) = <<Byte(j)>>
      BY <2>1, SubSeq4
    <2> HIDE DEF h
    <2>4. Resolve(h) = ResolveInDirectory(ObjectNode("directory", d), <<Byte(j)>>)
      BY <2>2, <2>3, ResolveDispatch, Zenon
    <2>5. QED
      BY <1>0, <1>1, <2>4
  <1>3. ASSUME NEW d \in Digests, n = TreeRootNode(d)
        PROVE  Resolve(h) = EntryNode(n, j)
    <2>1. h = <<Allocator("tree"), LengthAndPath(d.path), CompactBinary(d),
                Byte(0), Byte(j)>>
      BY <1>3, EntryHandleForm
    <2>2. ReadDigest(h[2][2], h[3]) = d /\ h[1] = Allocator("tree")
      BY <2>1, ReadDigestCorrect DEF LengthAndPath
    <2>3. SubSeq(h, 4, Len(h)) = <<Byte(0), Byte(j)>>
      BY <2>1, SubSeq5
    <2> HIDE DEF h
    <2>4. Resolve(h) = ResolveTree(d, <<Byte(0), Byte(j)>>)
      BY <2>2, <2>3, ResolveDispatch, Zenon
    <2> DEFINE r == <<Byte(0), Byte(j)>>
    <2>5. r # <<>> /\ Head(r) = Byte(0) /\ Tail(r) = <<Byte(j)>>
      OBVIOUS
    <2>6. Byte(0) # Byte(1)
      BY DEF Byte
    <2> HIDE DEF r
    <2>7. ResolveTree(d, r) = ResolveInDirectory(TreeRootNode(d), <<Byte(j)>>)
      BY <2>5, <2>6 DEF ResolveTree
    <2>8. QED
      BY <1>0, <1>3, <2>4, <2>7 DEF r
  <1>4. ASSUME NEW d \in Digests, NEW c \in Digests, c.path = d.path,
               n = TreeChildNode(d, c)
        PROVE  Resolve(h) = EntryNode(n, j)
    <2> DEFINE r == <<Byte(1), CompactBinary(c), Byte(j)>>
    <2>1. h = <<Allocator("tree"), LengthAndPath(d.path), CompactBinary(d),
                Byte(1), CompactBinary(c), Byte(j)>>
      BY <1>4, EntryHandleForm
    <2>2. ReadDigest(h[2][2], h[3]) = d /\ h[1] = Allocator("tree")
      BY <2>1, ReadDigestCorrect DEF LengthAndPath
    <2>3. SubSeq(h, 4, Len(h)) = r
      BY <2>1, SubSeq6
    <2> HIDE DEF h
    <2>4. Resolve(h) = ResolveTree(d, r)
      BY <2>2, <2>3, ResolveDispatch, Zenon
    <2>5. /\ r # <<>> /\ Head(r) = Byte(1) /\ Len(r) > 1
          /\ r[2] = CompactBinary(c) /\ SubSeq(r, 3, Len(r)) = <<Byte(j)>>
      BY SubSeq3
    <2>6. Byte(0) # Byte(1)
      BY DEF Byte
    <2>7. ReadDigest(d.path, r[2]) = c
      BY <1>4, <2>5, ReadDigestCorrect
    <2> HIDE DEF r
    <2>8. ResolveTree(d, r) = ResolveInDirectory(TreeChildNode(d, c), <<Byte(j)>>)
      BY <2>5, <2>6, <2>7 DEF ResolveTree
    <2>9. QED
      BY <1>0, <1>4, <2>4, <2>8
  <1>5. QED
    BY <1>1, <1>3, <1>4, DirectoryCases

LEMMA ContentsForm ==
    ASSUME NEW d, NEW c
    PROVE  /\ GetDirectoryContents(ObjectNode("directory", d)) = d.hash
           /\ GetDirectoryContents(TreeRootNode(d)) = TreeRoot[d.hash]
           /\ GetDirectoryContents(TreeChildNode(d, c)) = c.hash
           /\ GetDirectoryContents(WalkerNode(d, c)) =
                IF c = NoNode THEN TreeRoot[d.hash] ELSE c.hash
  BY DEF GetDirectoryContents, ObjectNode, TreeRootNode, TreeChildNode, WalkerNode

LEMMA ContentsType ==
    ASSUME NEW n, DirectoryOK(n)
    PROVE  /\ GetDirectoryContents(n) \in Hash
           /\ Symlinks[GetDirectoryContents(n)] \in Nat
  <1>1. \A d \in Digests : d.hash \in Hash /\ TreeRoot[d.hash] \in Hash
    BY NamespaceAssumption DEF Digests
  <1>2. GetDirectoryContents(n) \in Hash
    <2>1. ASSUME NEW d \in Digests, n = ObjectNode("directory", d)
          PROVE  GetDirectoryContents(n) \in Hash
      BY <1>1, <2>1, ContentsForm, Zenon
    <2>2. ASSUME NEW d \in Digests, n = TreeRootNode(d)
          PROVE  GetDirectoryContents(n) \in Hash
      <3>1. GetDirectoryContents(TreeRootNode(d)) = TreeRoot[d.hash]
        BY ContentsForm, Zenon
      <3>2. QED
        BY <1>1, <2>2, <3>1, Zenon
    <2>3. ASSUME NEW d \in Digests, NEW c \in Digests, n = TreeChildNode(d, c)
          PROVE  GetDirectoryContents(n) \in Hash
      <3>1. GetDirectoryContents(TreeChildNode(d, c)) = c.hash
        BY ContentsForm, Zenon
      <3>2. QED
        BY <1>1, <2>3, <3>1, Zenon
    <2>4. QED
      BY <2>1, <2>2, <2>3, DirectoryCases, Zenon
  <1>3. QED
    BY <1>2, NamespaceAssumption

(* The nodes, by the call to rootHandleAllocator.New() their handles are   *)
(* derived from.                                                           *)
IsInstance(n) == \E p \in Path : n = InstanceNode(p)

IsStatic(n) ==
    \/ \E p \in Path : n = BlobsNode(p)
    \/ \E p \in Path, f \in DOMAIN Functions : n = FunctionNode(p, f)
    \/ \E p \in Path, f \in DOMAIN Functions, t \in DOMAIN Types :
          n = ParsingNode(p, f, t)

IsFile(n) == \E t \in {"executable", "file"}, d \in Digests : n = ObjectNode(t, d)

IsCommand(n) == \E d \in Digests : n = ObjectNode("command", d)

IsEntry(n) ==
    \E p \in DirectoryNodes, j \in Nat :
        /\ DirectoryOK(p)
        /\ j <= Symlinks[GetDirectoryContents(p)]
        /\ n = EntryNode(p, j)

IsWalker(n) ==
    \E d \in Digests, c \in Digests \union {NoNode} : n = WalkerNode(d, c)

LEMMA NodeCases ==
    ASSUME NEW n, NodeOK(n)
    PROVE  \/ IsInstance(n) \/ IsStatic(n) \/ IsFile(n) \/ IsCommand(n)
           \/ IsEntry(n) \/ IsWalker(n)
  <1>0. n \in Nodes
    BY DEF NodeOK
  <1>1. CASE n \in [type : {"instance", "blobs"}, path : Path]
    <2>1. /\ n.path \in Path /\ n.type \in {"instance", "blobs"}
          /\ n = [type |-> n.type, path |-> n.path]
      BY <1>1
    <2>2. QED
      BY <2>1 DEF IsInstance, IsStatic, InstanceNode, BlobsNode
  <1>2. CASE n \in [type : {"function"}, path : Path, function : DOMAIN Functions]
    <2>1. /\ n.path \in Path /\ n.function \in DOMAIN Functions
          /\ n = [type |-> "function", path |-> n.path, function |-> n.function]
      BY <1>2
    <2>2. QED
      BY <2>1 DEF IsStatic, FunctionNode
  <1>3. CASE n \in [type : {"parsing"}, path : Path,
                    function : DOMAIN Functions, of : DOMAIN Types]
    <2>1. /\ n.path \in Path /\ n.function \in DOMAIN Functions
          /\ n.of \in DOMAIN Types
          /\ n = [type |-> "parsing", path |-> n.path, function |-> n.function,
                  of |-> n.of]
      BY <1>3
    <2>2. n = ParsingNode(n.path, n.function, n.of)
      BY <2>1 DEF ParsingNode
    <2>3. QED
      BY <2>1, <2>2 DEF IsStatic
  <1>4. CASE n \in [type : {"command", "executable", "file"}, digest : Digests]
    <2>1. /\ n.digest \in Digests /\ n.type \in {"command", "executable", "file"}
          /\ n = ObjectNode(n.type, n.digest)
      BY <1>4 DEF ObjectNode
    <2>2. QED
      BY <2>1 DEF IsFile, IsCommand
  <1>5. CASE n \in DirectoryNodes
    <2>1. n.type \in DirectoryTypes
      BY <1>5 DEF DirectoryNodes, DirectoryTypes
    <2>2. DirectoryOK(n) /\ Symlinks[GetDirectoryContents(n)] \in Nat
      BY <2>1, ContentsType DEF NodeOK
    <2>3. n = EntryNode(n, 0)
      BY DEF EntryNode
    <2>4. 0 \in Nat /\ 0 <= Symlinks[GetDirectoryContents(n)]
      BY <2>2
    <2>5. QED
      BY <1>5, <2>2, <2>3, <2>4 DEF IsEntry
  <1>6. CASE n \in [type : {"walker"}, digest : Digests,
                    child : Digests \union {NoNode}]
    <2>1. /\ n.digest \in Digests /\ n.child \in Digests \union {NoNode}
          /\ n = WalkerNode(n.digest, n.child)
      BY <1>6 DEF WalkerNode
    <2>2. QED
      BY <2>1 DEF IsWalker
  <1>7. CASE n \in [type : {"symlink"}, parent : DirectoryNodes, index : Nat]
    <2>1. /\ n.parent \in DirectoryNodes /\ n.index \in Nat /\ n.type = "symlink"
          /\ n = SymlinkNode(n.parent, n.index)
      BY <1>7 DEF SymlinkNode
    <2>2. /\ DirectoryOK(n.parent)
          /\ n.index < Symlinks[GetDirectoryContents(n.parent)]
          /\ Symlinks[GetDirectoryContents(n.parent)] \in Nat
      BY <2>1, ContentsType DEF NodeOK
    <2>3. /\ n.index + 1 \in Nat
          /\ n.index + 1 <= Symlinks[GetDirectoryContents(n.parent)]
          /\ n.index + 1 # 0 /\ (n.index + 1) - 1 = n.index
      BY <2>1, <2>2
    <2>4. n = EntryNode(n.parent, n.index + 1)
      BY <2>1, <2>3 DEF EntryNode
    <2>5. QED
      BY <2>1, <2>2, <2>3, <2>4 DEF IsEntry
  <1>8. QED
    BY <1>0, <1>1, <1>2, <1>3, <1>4, <1>5, <1>6, <1>7, Zenon DEF Nodes

(* The handles of all nodes.                                               *)
LEMMA HandleForms ==
    ASSUME NEW p, NEW f, NEW t, NEW d
    PROVE  /\ NodeHandle(InstanceNode(p)) = <<Allocator("cas")>> \o WriteTo(p)
           /\ NodeHandle(BlobsNode(p)) =
                AllocateHandle(p, 6 * Len(Functions) + 1)
           /\ NodeHandle(FunctionNode(p, f)) = AllocateHandle(p, 6 * f - 5)
           /\ NodeHandle(ParsingNode(p, f, t)) = AllocateHandle(p, 6 * f - 5 + t)
           /\ NodeHandle(ObjectNode("command", d)) = DigestHandle("command", d)
           /\ NodeHandle(ObjectNode("executable", d)) =
                Append(DigestHandle("files", d), Byte(1))
           /\ NodeHandle(ObjectNode("file", d)) =
                Append(DigestHandle("files", d), Byte(0))
  <1>1. \A n : n.type = "instance" =>
                 NodeHandle(n) = <<Allocator("cas")>> \o WriteTo(n.path)
    BY DEF NodeHandle, DirectoryTypes
  <1>2. /\ \A n : n.type = "blobs" =>
                    NodeHandle(n) = AllocateHandle(n.path, 6 * Len(Functions) + 1)
        /\ \A n : n.type = "function" =>
                    NodeHandle(n) = AllocateHandle(n.path, 6 * n.function - 5)
        /\ \A n : n.type = "parsing" =>
                    NodeHandle(n) = AllocateHandle(n.path, 6 * n.function - 5 + n.of)
    BY DEF NodeHandle, DirectoryTypes
  <1>3. \A n : n.type = "command" =>
                 NodeHandle(n) = DigestHandle("command", n.digest)
    BY DEF NodeHandle, DirectoryTypes
  <1>4. /\ \A n : n.type = "executable" =>
                    NodeHandle(n) = Append(DigestHandle("files", n.digest), Byte(1))
        /\ \A n : n.type = "file" =>
                    NodeHandle(n) = Append(DigestHandle("files", n.digest), Byte(0))
    BY DEF NodeHandle, DirectoryTypes
  <1>5. NodeHandle(InstanceNode(p)) = <<Allocator("cas")>> \o WriteTo(p)
    BY <1>1 DEF InstanceNode
  <1>6. /\ NodeHandle(BlobsNode(p)) = AllocateHandle(p, 6 * Len(Functions) + 1)
        /\ NodeHandle(FunctionNode(p, f)) = AllocateHandle(p, 6 * f - 5)
        /\ NodeHandle(ParsingNode(p, f, t)) = AllocateHandle(p, 6 * f - 5 + t)
    BY <1>2 DEF BlobsNode, FunctionNode, ParsingNode
  <1>7. /\ NodeHandle(ObjectNode("command", d)) = DigestHandle("command", d)
        /\ NodeHandle(ObjectNode("executable", d)) =
             Append(DigestHandle("files", d), Byte(1))
        /\ NodeHandle(ObjectNode("file", d)) =
             Append(DigestHandle("files", d), Byte(0))
    BY <1>3, <1>4 DEF ObjectNode
  <1>8. QED
    BY <1>5, <1>6, <1>7

LEMMA DirectoryHandleForm ==
    ASSUME NEW p \in DirectoryNodes, NEW j \in Nat
    PROVE  NodeHandle(EntryNode(p, j)) = EntryHandle(p, j)
  <1>0. p.type \in DirectoryTypes
    BY DEF DirectoryNodes, DirectoryTypes
  <1>1. CASE j = 0
    <2>1. p.type \in {"directory", "treeRoot", "treeChild"}
      BY <1>0 DEF DirectoryTypes
    <2>2. NodeHandle(p) = Append(DirectoryHandle(p), Byte(0))
      BY <2>1 DEF NodeHandle, DirectoryTypes
    <2>3. QED
      BY <1>1, <2>2 DEF EntryNode, EntryHandle
  <1>2. CASE j # 0
    <2> DEFINE n == SymlinkNode(p, j - 1)
    <2>1. n.type = "symlink" /\ n.parent = p /\ n.index = j - 1
      BY DEF SymlinkNode
    <2> HIDE DEF n
    <2>2. NodeHandle(n) = Append(DirectoryHandle(p), EncodedIndex(j - 1))
      BY <2>1 DEF NodeHandle, DirectoryTypes
    <2>3. EncodedIndex(j - 1) = Byte(j)
      BY DEF EncodedIndex
    <2>4. QED
      BY <1>2, <2>2, <2>3 DEF EntryNode, EntryHandle, n
  <1>3. QED
    BY <1>1, <1>2

LEMMA CommandResolves ==
    ASSUME NEW n, IsCommand(n)
    PROVE  /\ NodeHandle(n)[1] = Allocator("command")
           /\ Resolve(NodeHandle(n)) = n
  <1>1. PICK d \in Digests : n = ObjectNode("command", d)
    BY DEF IsCommand
  <1> DEFINE h == NodeHandle(n)
  <1>2. h = <<Allocator("command"), LengthAndPath(d.path), CompactBinary(d)>>
    BY <1>1, HandleForms DEF DigestHandle
  <1>3. /\ h[1] = Allocator("command")
        /\ h[2][2] = d.path /\ h[3] = CompactBinary(d)
    BY <1>2 DEF LengthAndPath
  <1> HIDE DEF h
  <1>4. Resolve(h) = ObjectNode("command", ReadDigest(h[2][2], h[3]))
    BY <1>3, ResolveDispatch, Zenon
  <1>5. QED
    BY <1>1, <1>3, <1>4, ReadDigestCorrect DEF h

LEMMA EntryResolves ==
    ASSUME NEW n, IsEntry(n)
    PROVE  /\ NodeHandle(n)[1] \in {Allocator("decomposed"), Allocator("tree")}
           /\ Resolve(NodeHandle(n)) = n
  <1>1. PICK p \in DirectoryNodes, j \in Nat :
                /\ DirectoryOK(p)
                /\ j <= Symlinks[GetDirectoryContents(p)]
                /\ n = EntryNode(p, j)
    BY DEF IsEntry
  <1>2. NodeHandle(n) = EntryHandle(p, j)
    BY <1>1, DirectoryHandleForm
  <1>3. Symlinks[GetDirectoryContents(p)] \in Nat
    BY <1>1, ContentsType
  <1>4. Resolve(EntryHandle(p, j)) = EntryNode(p, j)
    BY <1>1, <1>3, ResolveHandleCorrect
  <1>5. EntryHandle(p, j)[1] \in {Allocator("decomposed"), Allocator("tree")}
    <2>1. ASSUME NEW d \in Digests, p = ObjectNode("directory", d)
          PROVE  EntryHandle(p, j)[1] = Allocator("decomposed")
      <3>1. EntryHandle(p, j) = <<Allocator("decomposed"), LengthAndPath(d.path),
                                  CompactBinary(d), Byte(j)>>
        BY <2>1, EntryHandleForm
      <3>2. QED
        BY <3>1
    <2>2. ASSUME NEW d \in Digests, p = TreeRootNode(d)
          PROVE  EntryHandle(p, j)[1] = Allocator("tree")
      <3>1. EntryHandle(p, j) = <<Allocator("tree"), LengthAndPath(d.path),
                                  CompactBinary(d), Byte(0), Byte(j)>>
        BY <2>2, EntryHandleForm
      <3>2. QED
        BY <3>1
    <2>3. ASSUME NEW d \in Digests, NEW c \in Digests, p = TreeChildNode(d, c)
          PROVE  EntryHandle(p, j)[1] = Allocator("tree")
      <3>1. EntryHandle(p, j) = <<Allocator("tree"), LengthAndPath(d.path),
                                  CompactBinary(d), Byte(1), CompactBinary(c),
                                  Byte(j)>>
        BY <2>3, EntryHandleForm
      <3>2. QED
        BY <3>1
    <2>4. QED
      BY <1>1, <2>1, <2>2, <2>3, DirectoryCases, Zenon
  <1>6. QED
    BY <1>1, <1>2, <1>4, <1>5

LEMMA ComponentIndex ==
    ASSUME NEW N \in Nat, NEW x \in 1 .. 2 * N + 1,
           ~ (x % 2 = 0 \/ x = 2 * N + 1)
    PROVE  (x + 1) \div 2 \in 1 .. N
  OBVIOUS

(* "a/b//" can be told from every other path.                              *)
LEMMA WriteToInjective ==
    ASSUME NEW p \in Path, NEW q \in Path,
           <<Allocator("cas")>> \o WriteTo(p) = <<Allocator("cas")>> \o WriteTo(q)
    PROVE  p = q
  <1> DEFINE V == {Text(c) : c \in Component \union {"/"}} \union
                    {Allocator("cas")}
  <1>1. ASSUME NEW r \in Path
        PROVE  /\ Len(r) \in Nat
               /\ WriteTo(r) \in [1 .. 2 * Len(r) + 1 -> V]
               /\ WriteTo(r) \in Seq(V) /\ Len(WriteTo(r)) = 2 * Len(r) + 1
               /\ \A k \in 1 .. Len(r) : WriteTo(r)[2 * k - 1] = Text(r[k])
    <2>1. Len(r) \in Nat /\ \A k \in 1 .. Len(r) : r[k] \in Component
      BY DEF Path
    <2>2. ASSUME NEW x \in 1 .. 2 * Len(r) + 1
          PROVE  (IF x % 2 = 0 \/ x = 2 * Len(r) + 1 THEN Text("/")
                  ELSE Text(r[(x + 1) \div 2])) \in V
      <3>1. CASE x % 2 = 0 \/ x = 2 * Len(r) + 1
        BY <3>1
      <3>2. CASE ~ (x % 2 = 0 \/ x = 2 * Len(r) + 1)
        <4>1. (x + 1) \div 2 \in 1 .. Len(r)
          BY <2>1, <3>2, ComponentIndex
        <4>2. r[(x + 1) \div 2] \in Component
          BY <2>1, <4>1
        <4>3. QED
          BY <3>2, <4>2
      <3>3. QED
        BY <3>1, <3>2
    <2>3. WriteTo(r) \in [1 .. 2 * Len(r) + 1 -> V]
      <3> HIDE DEF V
      <3>1. QED
        BY <2>2, Zenon DEF WriteTo
    <2>4. ASSUME NEW k \in 1 .. Len(r)
          PROVE  WriteTo(r)[2 * k - 1] = Text(r[k])
      <3>1. /\ 2 * k - 1 \in 1 .. 2 * Len(r) + 1
            /\ (2 * k - 1) % 2 # 0 /\ 2 * k - 1 # 2 * Len(r) + 1
            /\ ((2 * k - 1) + 1) \div 2 = k
        BY <2>1
      <3>2. QED
        BY <3>1 DEF WriteTo
    <2>5. 2 * Len(r) + 1 \in Nat
      BY <2>1
    <2>6. WriteTo(r) \in Seq(V) /\ Len(WriteTo(r)) = 2 * Len(r) + 1
      <3> HIDE DEF V
      <3> DEFINE N == 2 * Len(r) + 1
                 w == WriteTo(r)
      <3>1. N \in Nat /\ w \in [1 .. N -> V]
        BY <2>3, <2>5
      <3> HIDE DEF N, w
      <3>2. w \in Seq(V) /\ Len(w) = N
        BY <3>1
      <3>3. QED
        BY <3>2 DEF N, w
    <2>7. QED
      BY <2>1, <2>3, <2>4, <2>6
  <1> HIDE DEF V
  <1> DEFINE v == WriteTo(p)
             w == WriteTo(q)
             a == Allocator("cas")
  <1>2. /\ v \in Seq(V) /\ w \in Seq(V) /\ a \in V
        /\ <<a>> \o v = <<a>> \o w
    BY <1>1 DEF V
  <1>3. /\ Len(v) = 2 * Len(p) + 1 /\ Len(w) = 2 * Len(q) + 1
        /\ Len(p) \in Nat /\ Len(q) \in Nat
        /\ \A k \in 1 .. Len(p) : v[2 * k - 1] = Text(p[k])
        /\ \A k \in 1 .. Len(q) : w[2 * k - 1] = Text(q[k])
    BY <1>1
  <1> HIDE DEF v, w, a
  <1>4. v = w
    <2>1. <<a>> \in Seq(V) /\ Len(<<a>>) = 1
      BY <1>2
    <2>2. Len(v) = Len(w)
      <3>1. Len(<<a>> \o v) = 1 + Len(v) /\ Len(<<a>> \o w) = 1 + Len(w)
        BY <1>2, <2>1
      <3>2. Len(v) \in Nat /\ Len(w) \in Nat
        BY <1>2
      <3>3. QED
        BY <1>2, <3>1, <3>2
    <2>3. ASSUME NEW k \in 1 .. Len(v)
          PROVE  v[k] = w[k]
      <3>1. (<<a>> \o v)[k + 1] = v[k] /\ (<<a>> \o w)[k + 1] = w[k]
        BY <1>2, <2>1, <2>2
      <3>2. QED
        BY <1>2, <3>1
    <2>4. QED
      BY <1>2, <2>2, <2>3, SeqEqual
  <1>5. Len(p) = Len(q)
    BY <1>3, <1>4
  <1>6. \A k \in 1 .. Len(p) : p[k] = q[k]
    <2> TAKE k \in 1 .. Len(p)
    <2>1. Text(p[k]) = Text(q[k])
      BY <1>3, <1>4, <1>5
    <2>2. QED
      BY <2>1 DEF Text
  <1>7. QED
    BY <1>5, <1>6, SeqEqual DEF Path

LEMMA WriteToFirst ==
    ASSUME NEW p \in Path
    PROVE  (<<Allocator("cas")>> \o WriteTo(p))[1] = Allocator("cas")
  <1> DEFINE V == {WriteTo(p)[x] : x \in 1 .. 2 * Len(p) + 1}
             N == 2 * Len(p) + 1
             w == WriteTo(p)
             a == Allocator("cas")
  <1>1. N \in Nat
    BY DEF Path
  <1>2. w = [x \in 1 .. N |-> w[x]]
    BY DEF WriteTo
  <1> HIDE DEF w, a, N
  <1>3. w \in Seq({w[x] : x \in 1 .. N}) /\ <<a>> \in Seq({a})
    BY <1>1, <1>2
  <1>4. (<<a>> \o w)[1] = a
    BY <1>3
  <1>5. QED
    BY <1>4 DEF w, a

(* The value of allocationCounter, from which a static directory follows.  *)
Counter(n) ==
    IF n.type = "blobs" THEN 6 * Len(Functions) + 1
    ELSE IF n.type = "function" THEN 6 * n.function - 5
    ELSE 6 * n.function - 5 + n.of

LEMMA CounterBounds ==
    ASSUME NEW L \in Nat, 6 * L + 1 < 256, NEW f \in 1 .. L, NEW t \in 1 .. 5
    PROVE  /\ 6 * f - 5 \in 1 .. 255
           /\ 6 * f - 5 + t \in 1 .. 255
  OBVIOUS

LEMMA StaticHandle ==
    ASSUME NEW n, IsStatic(n)
    PROVE  /\ n.path \in Path
           /\ Counter(n) \in 1 .. 255
           /\ NodeHandle(n) = <<Allocator("blobs"), LengthAndPath(n.path),
                                Byte(Counter(n))>>
           /\ \/ n = BlobsNode(n.path)
              \/ /\ n = FunctionNode(n.path, n.function)
                 /\ n.function \in 1 .. Len(Functions)
              \/ /\ n = ParsingNode(n.path, n.function, n.of)
                 /\ n.function \in 1 .. Len(Functions)
                 /\ n.of \in 1 .. 5
  <1> DEFINE L == Len(Functions)
  <1>0. /\ L \in Nat /\ 6 * L + 1 < 256 /\ DOMAIN Functions = 1 .. L
        /\ DOMAIN Types = 1 .. 5
    BY NamespaceAssumption DEF Types
  <1> HIDE DEF L
  <1>a. ASSUME NEW x \in 1 .. 255, NEW p
        PROVE  AllocateHandle(p, x) = <<Allocator("blobs"), LengthAndPath(p), Byte(x)>>
    <2>1. x % 256 = x
      OBVIOUS
    <2>2. QED
      BY <2>1 DEF AllocateHandle
  <1>1. ASSUME NEW p \in Path, n = BlobsNode(p)
        PROVE  /\ n.path = p /\ Counter(n) = 6 * L + 1 /\ Counter(n) \in 1 .. 255
               /\ NodeHandle(n) = AllocateHandle(p, Counter(n))
    <2>1. n.path = p /\ n.type = "blobs"
      BY <1>1 DEF BlobsNode
    <2>2. Counter(n) = 6 * L + 1
      BY <2>1 DEF Counter, L
    <2>3. NodeHandle(n) = AllocateHandle(p, 6 * L + 1)
      BY <1>1, HandleForms DEF L
    <2>4. 6 * L + 1 \in 1 .. 255
      BY <1>0
    <2>5. QED
      BY <2>1, <2>2, <2>3, <2>4
  <1>2. ASSUME NEW p \in Path, NEW f \in DOMAIN Functions, n = FunctionNode(p, f)
        PROVE  /\ n.path = p /\ n.function = f /\ Counter(n) = 6 * f - 5
               /\ Counter(n) \in 1 .. 255
               /\ NodeHandle(n) = AllocateHandle(p, Counter(n))
    <2>1. n.path = p /\ n.function = f /\ n.type = "function"
      BY <1>2 DEF FunctionNode
    <2>2. Counter(n) = 6 * f - 5
      BY <2>1 DEF Counter
    <2>3. f \in 1 .. L
      BY <1>0
    <2>4. 6 * f - 5 \in 1 .. 255
      <3>1. 1 \in 1 .. 5
        OBVIOUS
      <3>2. QED
        BY <1>0, <2>3, <3>1, CounterBounds
    <2>5. NodeHandle(n) = AllocateHandle(p, 6 * f - 5)
      BY <1>2, HandleForms
    <2>6. QED
      BY <2>1, <2>2, <2>4, <2>5, Zenon
  <1>3. ASSUME NEW p \in Path, NEW f \in DOMAIN Functions, NEW t \in DOMAIN Types,
               n = ParsingNode(p, f, t)
        PROVE  /\ n.path = p /\ n.function = f /\ n.of = t
               /\ Counter(n) = 6 * f - 5 + t /\ Counter(n) \in 1 .. 255
               /\ NodeHandle(n) = AllocateHandle(p, Counter(n))
    <2>1. n.path = p /\ n.function = f /\ n.of = t /\ n.type = "parsing"
      BY <1>3 DEF ParsingNode
    <2>2. Counter(n) = 6 * f - 5 + t
      BY <2>1 DEF Counter
    <2>3. f \in 1 .. L /\ t \in 1 .. 5
      BY <1>0
    <2>4. 6 * f - 5 + t \in 1 .. 255
      BY <1>0, <2>3, CounterBounds
    <2>5. NodeHandle(n) = AllocateHandle(p, 6 * f - 5 + t)
      BY <1>3, HandleForms
    <2>6. QED
      BY <2>1, <2>2, <2>4, <2>5, Zenon
  <1>4. CASE \E p \in Path : n = BlobsNode(p)
    <2>1. PICK p \in Path : n = BlobsNode(p)
      BY <1>4
    <2>2. QED
      BY <1>1, <1>a, <2>1
  <1>5. CASE \E p \in Path, f \in DOMAIN Functions : n = FunctionNode(p, f)
    <2>1. PICK p \in Path, f \in DOMAIN Functions : n = FunctionNode(p, f)
      BY <1>5
    <2>2. /\ n.path = p /\ n.function = f
          /\ Counter(n) \in 1 .. 255
          /\ NodeHandle(n) = AllocateHandle(p, Counter(n))
      BY <1>2, <2>1
    <2>3. NodeHandle(n) = <<Allocator("blobs"), LengthAndPath(p), Byte(Counter(n))>>
      BY <1>a, <2>2, Zenon
    <2>4. f \in 1 .. Len(Functions)
      BY <1>0 DEF L
    <2>5. QED
      BY <2>1, <2>2, <2>3, <2>4, Zenon
  <1>6. CASE \E p \in Path, f \in DOMAIN Functions, t \in DOMAIN Types :
                n = ParsingNode(p, f, t)
    <2>1. PICK p \in Path, f \in DOMAIN Functions, t \in DOMAIN Types :
                  n = ParsingNode(p, f, t)
      BY <1>6
    <2>2. /\ n.path = p /\ n.function = f /\ n.of = t
          /\ Counter(n) \in 1 .. 255
          /\ NodeHandle(n) = AllocateHandle(p, Counter(n))
      BY <1>3, <2>1
    <2>3. NodeHandle(n) = <<Allocator("blobs"), LengthAndPath(p), Byte(Counter(n))>>
      BY <1>a, <2>2, Zenon
    <2>4. f \in 1 .. Len(Functions) /\ t \in 1 .. 5
      BY <1>0 DEF L
    <2>5. QED
      BY <2>1, <2>2, <2>3, <2>4, Zenon
  <1>7. QED
    BY <1>4, <1>5, <1>6 DEF IsStatic

LEMMA StaticInjective ==
    ASSUME NEW n, NEW m, IsStatic(n), IsStatic(m), NodeHandle(n) = NodeHandle(m)
    PROVE  n = m
  <1>1. n.path = m.path /\ Counter(n) = Counter(m)
    <2>1. <<Allocator("blobs"), LengthAndPath(n.path), Byte(Counter(n))>> =
            <<Allocator("blobs"), LengthAndPath(m.path), Byte(Counter(m))>>
      BY StaticHandle
    <2>2. LengthAndPath(n.path) = LengthAndPath(m.path)
          /\ Byte(Counter(n)) = Byte(Counter(m))
      BY <2>1
    <2>3. QED
      BY <2>2 DEF LengthAndPath, Byte
  <1> DEFINE L == Len(Functions)
             x == Counter(n)
  <1>2. L \in Nat
    BY NamespaceAssumption
  <1> HIDE DEF L
  <1>3. ASSUME NEW k, IsStatic(k)
        PROVE  \/ k = BlobsNode(k.path) /\ Counter(k) = 6 * L + 1
               \/ /\ k = FunctionNode(k.path, k.function)
                  /\ k.function \in 1 .. L /\ Counter(k) = 6 * k.function - 5
               \/ /\ k = ParsingNode(k.path, k.function, k.of)
                  /\ k.function \in 1 .. L /\ k.of \in 1 .. 5
                  /\ Counter(k) = 6 * k.function - 5 + k.of
    <2>1. CASE k = BlobsNode(k.path)
      <3>1. k.type = "blobs"
        BY <2>1 DEF BlobsNode
      <3>2. QED
        BY <2>1, <3>1 DEF Counter, L
    <2>2. CASE /\ k = FunctionNode(k.path, k.function)
               /\ k.function \in 1 .. Len(Functions)
      <3>1. k.type = "function"
        BY <2>2 DEF FunctionNode
      <3>2. QED
        BY <2>2, <3>1 DEF Counter, L
    <2>3. CASE /\ k = ParsingNode(k.path, k.function, k.of)
               /\ k.function \in 1 .. Len(Functions)
               /\ k.of \in 1 .. 5
      <3>1. k.type = "parsing"
        BY <2>3 DEF ParsingNode
      <3>2. QED
        BY <2>3, <3>1 DEF Counter, L
    <2>4. QED
      BY <1>3, <2>1, <2>2, <2>3, StaticHandle
  <1>4. x = Counter(m)
    BY <1>1
  <1> HIDE DEF x
  <1> DEFINE B(k) == k = BlobsNode(k.path) /\ x = 6 * L + 1
             F(k) == /\ k = FunctionNode(k.path, k.function)
                     /\ k.function \in 1 .. L /\ x = 6 * k.function - 5
             P(k) == /\ k = ParsingNode(k.path, k.function, k.of)
                     /\ k.function \in 1 .. L /\ k.of \in 1 .. 5
                     /\ x = 6 * k.function - 5 + k.of
  <1>5. B(n) \/ F(n) \/ P(n)
    BY <1>3, Zenon DEF x
  <1>6. B(m) \/ F(m) \/ P(m)
    BY <1>3, <1>4, Zenon
  <1>7. ASSUME NEW k, NEW l, B(k)
        PROVE  ~ F(l) /\ ~ P(l)
    BY <1>2, <1>7
  <1>8. ASSUME NEW k, NEW l, F(k)
        PROVE  ~ P(l) /\ (F(l) => k.function = l.function)
    BY <1>2, <1>8
  <1>9. ASSUME NEW k, NEW l, P(k), P(l)
        PROVE  k.function = l.function /\ k.of = l.of
    BY <1>2, <1>9
  <1>10. CASE B(n)
    <2>1. B(m)
      BY <1>6, <1>7, <1>10
    <2>2. QED
      BY <1>1, <1>10, <2>1
  <1>11. CASE F(n)
    <2>1. F(m) /\ n.function = m.function
      BY <1>6, <1>7, <1>8, <1>11
    <2>2. QED
      BY <1>1, <1>11, <2>1
  <1>12. CASE P(n)
    <2>1. P(m)
      BY <1>6, <1>7, <1>8, <1>12
    <2>2. QED
      BY <1>1, <1>9, <1>12, <2>1
  <1>13. QED
    BY <1>5, <1>10, <1>11, <1>12

LEMMA FileHandle ==
    ASSUME NEW n, IsFile(n)
    PROVE  /\ n.digest \in Digests /\ n.type \in {"executable", "file"}
           /\ n = ObjectNode(n.type, n.digest)
           /\ NodeHandle(n) =
                <<Allocator("files"), LengthAndPath(n.digest.path),
                  CompactBinary(n.digest),
                  Byte(IF n.type = "executable" THEN 1 ELSE 0)>>
  <1>1. PICK t \in {"executable", "file"}, d \in Digests : n = ObjectNode(t, d)
    BY DEF IsFile
  <1>2. n.type = t /\ n.digest = d
    BY <1>1 DEF ObjectNode
  <1>3. ASSUME NEW x
        PROVE  Append(DigestHandle("files", d), x) =
                 <<Allocator("files"), LengthAndPath(d.path), CompactBinary(d), x>>
    BY Append4 DEF DigestHandle
  <1>4. /\ t = "executable" => NodeHandle(n) = Append(DigestHandle("files", d), Byte(1))
        /\ t = "file" => NodeHandle(n) = Append(DigestHandle("files", d), Byte(0))
    BY <1>1, HandleForms, Zenon
  <1>5. NodeHandle(n) =
          <<Allocator("files"), LengthAndPath(d.path), CompactBinary(d),
            Byte(IF t = "executable" THEN 1 ELSE 0)>>
    BY <1>3, <1>4
  <1>6. QED
    BY <1>1, <1>2, <1>5

LEMMA FileInjective ==
    ASSUME NEW n, NEW m, IsFile(n), IsFile(m), NodeHandle(n) = NodeHandle(m)
    PROVE  n = m
  <1> DEFINE b(k) == Byte(IF k.type = "executable" THEN 1 ELSE 0)
  <1>1. /\ LengthAndPath(n.digest.path) = LengthAndPath(m.digest.path)
        /\ CompactBinary(n.digest) = CompactBinary(m.digest)
        /\ b(n) = b(m)
    <2>1. <<Allocator("files"), LengthAndPath(n.digest.path),
            CompactBinary(n.digest), b(n)>> =
          <<Allocator("files"), LengthAndPath(m.digest.path),
            CompactBinary(m.digest), b(m)>>
      BY FileHandle
    <2> HIDE DEF b
    <2>2. QED
      BY <2>1
  <1>2. n.digest = m.digest
    <2>1. n.digest.path = m.digest.path
      BY <1>1 DEF LengthAndPath
    <2>2. QED
      BY <1>1, <2>1, FileHandle, ReadDigestCorrect
  <1>3. n.type = m.type
    BY <1>1, FileHandle DEF Byte
  <1>4. QED
    BY <1>2, <1>3, FileHandle

(* Different nodes have different handles.                                 *)
LEMMA HandlesInjective ==
    ASSUME NEW n, NEW m, NodeOK(n), NodeOK(m), ~ IsWalker(n), ~ IsWalker(m),
           NodeHandle(n) = NodeHandle(m)
    PROVE  n = m
  <1> DEFINE Token(k) == NodeHandle(k)[1]
  <1>1. ASSUME NEW k, IsInstance(k)
        PROVE  Token(k) = Allocator("cas")
    <2>1. PICK p \in Path : k = InstanceNode(p)
      BY <1>1 DEF IsInstance
    <2>2. NodeHandle(k) = <<Allocator("cas")>> \o WriteTo(p)
      BY <2>1, HandleForms
    <2>3. QED
      BY <2>1, <2>2, WriteToFirst
  <1>2. ASSUME NEW k, IsStatic(k)
        PROVE  Token(k) = Allocator("blobs")
    BY <1>2, StaticHandle
  <1>3. ASSUME NEW k, IsFile(k)
        PROVE  Token(k) = Allocator("files")
    BY <1>3, FileHandle
  <1>4. ASSUME NEW k, IsCommand(k) \/ IsEntry(k)
        PROVE  /\ Token(k) \in {Allocator("command"), Allocator("decomposed"),
                                Allocator("tree")}
               /\ Resolve(NodeHandle(k)) = k
    BY <1>4, CommandResolves, EntryResolves
  <1>5. Token(n) = Token(m)
    OBVIOUS
  <1> HIDE DEF Token
  <1>6. /\ IsInstance(n) \/ IsStatic(n) \/ IsFile(n) \/ IsCommand(n) \/ IsEntry(n)
        /\ IsInstance(m) \/ IsStatic(m) \/ IsFile(m) \/ IsCommand(m) \/ IsEntry(m)
    BY NodeCases
  <1>7. /\ Allocator("cas") \notin {Allocator("blobs"), Allocator("files")}
        /\ Allocator("blobs") # Allocator("files")
        /\ {Allocator("cas"), Allocator("blobs"), Allocator("files")} \intersect
             {Allocator("command"), Allocator("decomposed"), Allocator("tree")} = {}
    BY DEF Allocator
  <1>8. CASE IsInstance(n)
    <2>1. IsInstance(m)
      BY <1>1, <1>2, <1>3, <1>4, <1>5, <1>6, <1>7, <1>8
    <2>2. PICK p \in Path : n = InstanceNode(p)
      BY <1>8 DEF IsInstance
    <2>3. PICK q \in Path : m = InstanceNode(q)
      BY <2>1 DEF IsInstance
    <2>4. <<Allocator("cas")>> \o WriteTo(p) = <<Allocator("cas")>> \o WriteTo(q)
      BY <2>2, <2>3, HandleForms
    <2>5. QED
      BY <2>2, <2>3, <2>4, WriteToInjective
  <1>9. CASE IsStatic(n)
    <2>1. IsStatic(m)
      BY <1>1, <1>2, <1>3, <1>4, <1>5, <1>6, <1>7, <1>9
    <2>2. QED
      BY <1>9, <2>1, StaticInjective
  <1>10. CASE IsFile(n)
    <2>1. IsFile(m)
      BY <1>1, <1>2, <1>3, <1>4, <1>5, <1>6, <1>7, <1>10
    <2>2. QED
      BY <1>10, <2>1, FileInjective
  <1>11. CASE IsCommand(n) \/ IsEntry(n)
    <2>1. IsCommand(m) \/ IsEntry(m)
      BY <1>1, <1>2, <1>3, <1>4, <1>5, <1>6, <1>7, <1>11
    <2>2. QED
      BY <1>4, <1>11, <2>1
  <1>12. QED
    BY <1>6, <1>8, <1>9, <1>10, <1>11

(* A walk keeps to nodes that exist.                                       *)
LEMMA InstanceIsNode ==
    ASSUME NEW p \in Path
    PROVE  NodeOK(InstanceNode(p)) /\ MessageOK(InstanceNode(p), NoNode)
  <1> DEFINE n == InstanceNode(p)
  <1>1. /\ n.type = "instance"
        /\ n \in [type : {"instance", "blobs"}, path : Path]
    BY DEF InstanceNode
  <1> HIDE DEF n
  <1>2. QED
    BY <1>1 DEF NodeOK, MessageOK, Nodes, DirectoryTypes, MessageTypes, n

LEMMA BlobsIsNode ==
    ASSUME NEW p \in Path
    PROVE  NodeOK(BlobsNode(p)) /\ MessageOK(BlobsNode(p), NoNode)
  <1> DEFINE n == BlobsNode(p)
  <1>1. /\ n.type = "blobs"
        /\ n \in [type : {"instance", "blobs"}, path : Path]
    BY DEF BlobsNode
  <1> HIDE DEF n
  <1>2. QED
    BY <1>1 DEF NodeOK, MessageOK, Nodes, DirectoryTypes, MessageTypes, n

LEMMA FunctionIsNode ==
    ASSUME NEW p \in Path, NEW f \in DOMAIN Functions
    PROVE  NodeOK(FunctionNode(p, f)) /\ MessageOK(FunctionNode(p, f), NoNode)
  <1> DEFINE n == FunctionNode(p, f)
  <1>1. /\ n.type = "function"
        /\ n \in [type : {"function"}, path : Path, function : DOMAIN Functions]
    BY DEF FunctionNode
  <1> HIDE DEF n
  <1>2. QED
    BY <1>1 DEF NodeOK, MessageOK, Nodes, DirectoryTypes, MessageTypes, n

LEMMA ParsingIsNode ==
    ASSUME NEW p \in Path, NEW f \in DOMAIN Functions, NEW t \in DOMAIN Types
    PROVE  NodeOK(ParsingNode(p, f, t)) /\ MessageOK(ParsingNode(p, f, t), NoNode)
  <1> DEFINE n == ParsingNode(p, f, t)
  <1>1. /\ n.type = "parsing"
        /\ n \in [type : {"parsing"}, path : Path,
                  function : DOMAIN Functions, of : DOMAIN Types]
    BY DEF ParsingNode
  <1> HIDE DEF n
  <1>2. QED
    BY <1>1 DEF NodeOK, MessageOK, Nodes, DirectoryTypes, MessageTypes, n

LEMMA ObjectTypes ==
    ASSUME NEW d \in Digests, NEW t \in {"command", "executable", "file"}
    PROVE  NodeOK(ObjectNode(t, d)) /\ MessageOK(ObjectNode(t, d), NoNode)
  <1> DEFINE n == ObjectNode(t, d)
  <1>1. /\ n.type \in {"command", "executable", "file"}
        /\ n \in [type : {"command", "executable", "file"}, digest : Digests]
    BY DEF ObjectNode
  <1> HIDE DEF n
  <1>2. QED
    BY <1>1 DEF NodeOK, MessageOK, Nodes, DirectoryTypes, MessageTypes, n

LEMMA DirectoryTypesOK ==
    ASSUME NEW d \in Digests, NEW c \in Digests, c.path = d.path
    PROVE  /\ DirectoryOK(ObjectNode("directory", d))
           /\ DirectoryOK(TreeRootNode(d))
           /\ DirectoryOK(TreeChildNode(d, c))
  <1>1. DirectoryOK(ObjectNode("directory", d)) /\ DirectoryOK(TreeRootNode(d))
    BY DEF DirectoryOK, DirectoryNodes, ObjectNode, TreeRootNode
  <1>2. DirectoryOK(TreeChildNode(d, c))
    BY DEF DirectoryOK, DirectoryNodes, TreeChildNode
  <1>3. QED
    BY <1>1, <1>2

LEMMA DirectoryIsNode ==
    ASSUME NEW n, DirectoryOK(n)
    PROVE  /\ NodeOK(n) /\ MessageOK(n, GetDirectoryContents(n))
           /\ n.type \in DirectoryTypes
  <1>1. n \in DirectoryNodes /\ n \in Nodes
    BY Zenon DEF DirectoryOK, Nodes
  <1>2. n.type \in DirectoryTypes /\ n.type # "symlink"
    BY <1>1 DEF DirectoryNodes, DirectoryTypes
  <1>3. QED
    BY <1>1, <1>2 DEF NodeOK, MessageOK

LEMMA WalkerIsNode ==
    ASSUME NEW d \in Digests, NEW c \in Digests \union {NoNode}
    PROVE  LET n == WalkerNode(d, c)
           IN  NodeOK(n) /\ MessageOK(n, GetDirectoryContents(n))
  <1> DEFINE n == WalkerNode(d, c)
  <1>1. /\ n.type = "walker"
        /\ n \in [type : {"walker"}, digest : Digests,
                  child : Digests \union {NoNode}]
    BY DEF WalkerNode
  <1> HIDE DEF n
  <1>2. n \in Nodes
    BY <1>1, Zenon DEF Nodes
  <1>3. NodeOK(n) /\ MessageOK(n, GetDirectoryContents(n))
    BY <1>1, <1>2 DEF NodeOK, MessageOK, DirectoryTypes
  <1>4. QED
    BY <1>3 DEF n

LEMMA SymlinkIsNode ==
    ASSUME NEW p, DirectoryOK(p), NEW j \in Nat,
           j < Symlinks[GetDirectoryContents(p)]
    PROVE  LET n == SymlinkNode(p, j)
           IN  NodeOK(n) /\ MessageOK(n, GetDirectoryContents(p))
  <1> DEFINE n == SymlinkNode(p, j)
  <1>0. p \in DirectoryNodes
    BY DEF DirectoryOK
  <1>1. /\ n.type = "symlink" /\ n.parent = p /\ n.index = j
        /\ n \in [type : {"symlink"}, parent : DirectoryNodes, index : Nat]
    BY <1>0 DEF SymlinkNode
  <1> HIDE DEF n
  <1>2. n \in Nodes
    BY <1>1, Zenon DEF Nodes
  <1>3. NodeOK(n) /\ MessageOK(n, GetDirectoryContents(p))
    BY <1>1, <1>2 DEF NodeOK, MessageOK, DirectoryTypes, MessageTypes
  <1>4. QED
    BY <1>3 DEF n

(* What a node is, given its type.                                         *)
LEMMA TypeOfNode ==
    ASSUME NEW n, NodeOK(n)
    PROVE  /\ n.type \in {"instance", "blobs", "function", "parsing"} => n.path \in Path
           /\ n.type \in {"function", "parsing"} => n.function \in DOMAIN Functions
           /\ n.type = "parsing" => n.of \in DOMAIN Types
           /\ n.type = "walker" <=> IsWalker(n)
           /\ n.type = "walker" => n.digest \in Digests
  <1>0. n \in Nodes
    BY DEF NodeOK
  <1>1. CASE n \in [type : {"instance", "blobs"}, path : Path]
    BY <1>1 DEF IsWalker, WalkerNode
  <1>2. CASE n \in [type : {"function"}, path : Path, function : DOMAIN Functions]
    BY <1>2 DEF IsWalker, WalkerNode
  <1>3. CASE n \in [type : {"parsing"}, path : Path,
                    function : DOMAIN Functions, of : DOMAIN Types]
    BY <1>3 DEF IsWalker, WalkerNode
  <1>4. CASE n \in [type : {"command", "executable", "file"}, digest : Digests]
    BY <1>4 DEF IsWalker, WalkerNode
  <1>5. CASE n \in DirectoryNodes
    <2>1. n.type \in {"directory", "treeRoot", "treeChild"}
      BY <1>5 DEF DirectoryNodes
    <2>2. QED
      BY <2>1 DEF IsWalker, WalkerNode
  <1>6. CASE n \in [type : {"walker"}, digest : Digests,
                    child : Digests \union {NoNode}]
    <2>1. /\ n.type = "walker" /\ n.digest \in Digests
          /\ n.child \in Digests \union {NoNode}
          /\ n = WalkerNode(n.digest, n.child)
      BY <1>6 DEF WalkerNode
    <2>2. QED
      BY <2>1 DEF IsWalker
  <1>7. CASE n \in [type : {"symlink"}, parent : DirectoryNodes, index : Nat]
    BY <1>7 DEF IsWalker, WalkerNode
  <1>8. QED
    BY <1>0, <1>1, <1>2, <1>3, <1>4, <1>5, <1>6, <1>7, Zenon DEF Nodes

LEMMA DigestWith ==
    ASSUME NEW d \in Digests, NEW h \in Hash
    PROVE  LET c == [d EXCEPT !.hash = h]
           IN  c \in Digests /\ c.path = d.path /\ c.hash = h /\ c # NoNode
  <1>1. /\ [d EXCEPT !.hash = h] \in Digests
        /\ [d EXCEPT !.hash = h].path = d.path
        /\ [d EXCEPT !.hash = h].hash = h
    BY DEF Digests
  <1>2. NoNode \notin Digests
    BY NamespaceAssumption, Zenon
  <1>3. QED
    BY <1>1, <1>2

LEMMA DirectoryOfType ==
    ASSUME NEW n, NodeOK(n), n.type \in MessageTypes
    PROVE  /\ n.digest \in Digests
           /\ GetDirectoryContents(n) \in Hash
           /\ n.type = "walker" \/ (DirectoryOK(n) /\ n.type \in DirectoryTypes)
  <1>1. CASE n.type = "walker"
    <2>1. PICK d \in Digests, c \in Digests \union {NoNode} : n = WalkerNode(d, c)
      BY <1>1, TypeOfNode DEF IsWalker
    <2>2. GetDirectoryContents(n) =
            IF c = NoNode THEN TreeRoot[d.hash] ELSE c.hash
      BY <2>1, ContentsForm
    <2>3. \A e \in Digests : e.hash \in Hash /\ TreeRoot[e.hash] \in Hash
      BY NamespaceAssumption DEF Digests
    <2>4. GetDirectoryContents(n) \in Hash
      BY <2>1, <2>2, <2>3
    <2>5. QED
      BY <1>1, <2>4, TypeOfNode
  <1>2. CASE n.type # "walker"
    <2>1. n.type \in DirectoryTypes
      BY <1>2 DEF MessageTypes
    <2>2. DirectoryOK(n)
      BY <2>1 DEF NodeOK
    <2>3. n.digest \in Digests
      BY <2>2 DEF DirectoryOK, DirectoryNodes
    <2>4. QED
      BY <2>1, <2>2, <2>3, ContentsType
  <1>3. QED
    BY <1>1, <1>2

LEMMA ChildIsNode ==
    ASSUME NEW n, NodeOK(n), n.type \in MessageTypes, NEW h \in Hash
    PROVE  LET c == LookupDirectory(n, [n.digest EXCEPT !.hash = h])
           IN  NodeOK(c) /\ MessageOK(c, h)
  <1> DEFINE d == n.digest
             e == [n.digest EXCEPT !.hash = h]
  <1>1. d \in Digests
    BY DirectoryOfType
  <1>2. e \in Digests /\ e.path = d.path /\ e.hash = h /\ e # NoNode
    BY <1>1, DigestWith
  <1> HIDE DEF e
  <1>3. CASE n.type = "directory"
    <2>1. LookupDirectory(n, e) = ObjectNode("directory", e)
      BY <1>3 DEF LookupDirectory
    <2>2. /\ DirectoryOK(ObjectNode("directory", e))
          /\ GetDirectoryContents(ObjectNode("directory", e)) = h
      BY <1>2, DirectoryTypesOK, ContentsForm
    <2>3. QED
      BY <2>1, <2>2, DirectoryIsNode DEF e
  <1>4. CASE n.type \in {"treeRoot", "treeChild"}
    <2>1. LookupDirectory(n, e) = TreeChildNode(d, e)
      BY <1>4 DEF LookupDirectory
    <2>2. /\ DirectoryOK(TreeChildNode(d, e))
          /\ GetDirectoryContents(TreeChildNode(d, e)) = h
      BY <1>1, <1>2, DirectoryTypesOK, ContentsForm
    <2>3. QED
      BY <2>1, <2>2, DirectoryIsNode DEF e
  <1>5. CASE n.type = "walker"
    <2>1. LookupDirectory(n, e) = WalkerNode(d, e)
      BY <1>5 DEF LookupDirectory
    <2>2. GetDirectoryContents(WalkerNode(d, e)) = h
      BY <1>2, ContentsForm
    <2>3. /\ NodeOK(WalkerNode(d, e))
          /\ MessageOK(WalkerNode(d, e), GetDirectoryContents(WalkerNode(d, e)))
      BY <1>1, <1>2, WalkerIsNode
    <2>4. QED
      BY <2>1, <2>2, <2>3 DEF e
  <1>6. QED
    BY <1>3, <1>4, <1>5 DEF MessageTypes, DirectoryTypes

LEMMA ResolvableResolves ==
    ASSUME NEW n, NodeOK(n), Resolvable(n)
    PROVE  Resolve(NodeHandle(n)) = n
  <1>1. n.type \in DirectoryTypes \union {"symlink", "command"}
    BY DEF Resolvable
  <1>2. ~ IsInstance(n) /\ ~ IsStatic(n) /\ ~ IsFile(n) /\ ~ IsWalker(n)
    BY <1>1 DEF IsInstance, IsStatic, IsFile, IsWalker, InstanceNode, BlobsNode,
                FunctionNode, ParsingNode, ObjectNode, WalkerNode, DirectoryTypes
  <1>3. QED
    BY <1>2, NodeCases, CommandResolves, EntryResolves

LEMMA NamespaceInitial ==
    ASSUME NamespaceInit
    PROVE  NamespaceInv
  <1>1. <<>> \in Path
    BY DEF Path
  <1>2. NodeOK(InstanceNode(<<>>)) /\ MessageOK(InstanceNode(<<>>), NoNode)
    BY <1>1, InstanceIsNode
  <1>3. QED
    BY <1>2 DEF NamespaceInit, NamespaceInv

LEMMA NamespaceUnchanged ==
    ASSUME NamespaceInv, UNCHANGED namespaceVars
    PROVE  NamespaceInv'
  BY DEF NamespaceInv, HeldOK, namespaceVars

LEMMA NamespaceSteps ==
    ASSUME NamespaceInv, NamespaceNext
    PROVE  NamespaceInv'
  <1>0. NodeOK(node) /\ MessageOK(node, message)
    BY DEF NamespaceInv
  <1>1. ASSUME NEW n, NEW m, NodeOK(n), MessageOK(n, m), Go(n, m)
        PROVE  NamespaceInv'
    <2>1. node' = n /\ message' = m /\ held' = held
      BY <1>1 DEF Go
    <2>2. QED
      BY <1>1, <2>1 DEF NamespaceInv, HeldOK
  <1>2. ASSUME NEW c \in Component, LookupComponent(c)
        PROVE  NamespaceInv'
    <2>1. node.type = "instance" /\ Go(InstanceNode(Append(node.path, c)), NoNode)
      BY <1>2 DEF LookupComponent
    <2>2. node.path \in Path
      BY <1>0, <2>1, TypeOfNode
    <2>3. Append(node.path, c) \in Path
      BY <2>2 DEF Path
    <2>4. QED
      BY <1>1, <2>1, <2>3, InstanceIsNode
  <1>3. CASE LookupBlobs
    <2>1. node.type = "instance" /\ Go(BlobsNode(node.path), NoNode)
      BY <1>3 DEF LookupBlobs
    <2>2. node.path \in Path
      BY <1>0, <2>1, TypeOfNode
    <2>3. QED
      BY <1>1, <2>1, <2>2, BlobsIsNode
  <1>4. CASE LookupStatic
    <2>1. CASE /\ node.type = "blobs"
               /\ \E f \in DOMAIN Functions : Go(FunctionNode(node.path, f), NoNode)
      <3>1. PICK f \in DOMAIN Functions : Go(FunctionNode(node.path, f), NoNode)
        BY <2>1
      <3>2. node.path \in Path
        BY <1>0, <2>1, TypeOfNode
      <3>3. QED
        BY <1>1, <3>1, <3>2, FunctionIsNode
    <2>2. CASE /\ node.type = "function"
               /\ \E t \in DOMAIN Types :
                     Go(ParsingNode(node.path, node.function, t), NoNode)
      <3>1. PICK t \in DOMAIN Types :
                    Go(ParsingNode(node.path, node.function, t), NoNode)
        BY <2>2
      <3>2. node.path \in Path /\ node.function \in DOMAIN Functions
        BY <1>0, <2>2, TypeOfNode
      <3>3. QED
        BY <1>1, <3>1, <3>2, ParsingIsNode
    <2>3. QED
      BY <1>4, <2>1, <2>2 DEF LookupStatic
  <1>d. ASSUME NEW p \in Path, NEW f \in DOMAIN Functions, NEW h \in Hash
        PROVE  Digest(p, f, h) \in Digests /\ Digest(p, f, h).hash = h
    BY DEF Digest, Digests
  <1>5. ASSUME NEW name \in Filename, LookupDigest(name)
        PROVE  NamespaceInv'
    <2> DEFINE d == Digest(node.path, node.function, name.hash)
               t == Types[node.of]
    <2>1. node.type = "parsing"
      BY <1>5 DEF LookupDigest
    <2>2. /\ node.path \in Path /\ node.function \in DOMAIN Functions
          /\ node.of \in DOMAIN Types
      BY <1>0, <2>1, TypeOfNode
    <2>3. name.hash \in Hash
      BY DEF Filename
    <2>4. d \in Digests /\ d.hash = name.hash
      BY <1>d, <2>2, <2>3
    <2>5. t \in {"command", "directory", "executable", "file", "tree"}
      BY <2>2 DEF Types
    <2>6. CASE t = "tree"
      <3>1. Go(TreeRootNode(d), TreeRoot[name.hash])
        BY <1>5, <2>6 DEF LookupDigest
      <3>2. /\ DirectoryOK(TreeRootNode(d))
            /\ GetDirectoryContents(TreeRootNode(d)) = TreeRoot[name.hash]
        BY <2>4, DirectoryTypesOK, ContentsForm
      <3>3. QED
        BY <1>1, <3>1, <3>2, DirectoryIsNode
    <2>7. CASE t = "directory"
      <3>1. Go(ObjectNode("directory", d), name.hash)
        BY <1>5, <2>7 DEF LookupDigest
      <3>2. /\ DirectoryOK(ObjectNode("directory", d))
            /\ GetDirectoryContents(ObjectNode("directory", d)) = name.hash
        BY <2>4, DirectoryTypesOK, ContentsForm
      <3>3. QED
        BY <1>1, <3>1, <3>2, DirectoryIsNode
    <2>8. CASE t \in {"command", "executable", "file"}
      <3>1. Go(ObjectNode(t, d), NoNode)
        BY <1>5, <2>8 DEF LookupDigest
      <3>2. NodeOK(ObjectNode(t, d)) /\ MessageOK(ObjectNode(t, d), NoNode)
        BY <2>4, <2>8, ObjectTypes
      <3>3. QED
        BY <1>1, <3>1, <3>2
    <2>9. QED
      BY <2>5, <2>6, <2>7, <2>8
  <1>6. ASSUME NEW hash \in Hash, NEW known \in BOOLEAN, StageTree(hash, known)
        PROVE  NamespaceInv'
    <2> DEFINE d == Digest(node.path, node.function, hash)
               e == [d EXCEPT !.hash = TreeRoot[hash]]
               c == IF known THEN e ELSE NoNode
    <2>1. node.type = "function" /\ Go(WalkerNode(d, c), TreeRoot[hash])
      BY <1>6 DEF StageTree
    <2>2. node.path \in Path /\ node.function \in DOMAIN Functions
      BY <1>0, <2>1, TypeOfNode
    <2>3. d \in Digests /\ d.hash = hash
      BY <1>d, <2>2
    <2>4. TreeRoot[hash] \in Hash
      BY NamespaceAssumption
    <2> HIDE DEF d
    <2>5. e \in Digests /\ e.hash = TreeRoot[hash] /\ e # NoNode
      BY <2>3, <2>4, DigestWith
    <2> HIDE DEF e
    <2>6. /\ c \in Digests \union {NoNode}
          /\ (IF c = NoNode THEN TreeRoot[d.hash] ELSE c.hash) = TreeRoot[hash]
      BY <2>3, <2>5
    <2> HIDE DEF c
    <2>7. GetDirectoryContents(WalkerNode(d, c)) = TreeRoot[hash]
      BY <2>6, ContentsForm
    <2>8. /\ NodeOK(WalkerNode(d, c))
          /\ MessageOK(WalkerNode(d, c), GetDirectoryContents(WalkerNode(d, c)))
      BY <2>3, <2>6, WalkerIsNode
    <2>9. QED
      BY <1>1, <2>1, <2>7, <2>8
  <1>7. CASE LookupChildDirectory
    <2> DEFINE g == GetDirectoryContents(node)
    <2>0. PICK k \in DOMAIN Directories[g] :
              Go(LookupDirectory(node, [node.digest EXCEPT !.hash = Directories[g][k]]),
                 Directories[message][k])
      BY <1>7, Zenon DEF LookupChildDirectory
    <2> DEFINE h == Directories[g][k]
    <2>1. /\ node.type \in MessageTypes /\ k \in DOMAIN Directories[g]
          /\ Go(LookupDirectory(node, [node.digest EXCEPT !.hash = h]),
                Directories[message][k])
      BY <1>7, <2>0, Zenon DEF LookupChildDirectory
    <2>2. g \in Hash /\ message = g
      BY <1>0, <2>1, DirectoryOfType DEF MessageOK
    <2>3. h \in Hash
      <3>1. Directories[g] \in Seq(Hash)
        BY <2>2, NamespaceAssumption
      <3>2. QED
        BY <2>1, <3>1
    <2>4. /\ NodeOK(LookupDirectory(node, [node.digest EXCEPT !.hash = h]))
          /\ MessageOK(LookupDirectory(node, [node.digest EXCEPT !.hash = h]), h)
      BY <1>0, <2>1, <2>3, ChildIsNode
    <2>5. QED
      BY <1>1, <2>1, <2>2, <2>4
  <1>8. CASE LookupSymlink
    <2>1. node.type \in DirectoryTypes
      BY <1>8 DEF LookupSymlink
    <2>2. DirectoryOK(node) /\ message = GetDirectoryContents(node)
      BY <1>0, <2>1 DEF NodeOK, MessageOK, MessageTypes
    <2> DEFINE l == Symlinks[GetDirectoryContents(node)]
    <2>3. PICK k \in 0 .. l - 1 : Go(SymlinkNode(node, k), message)
      BY <1>8, Zenon DEF LookupSymlink
    <2>4. l \in Nat
      <3>1. GetDirectoryContents(node) \in Hash
        BY <1>0, <2>1, DirectoryOfType DEF MessageTypes
      <3>2. QED
        BY <3>1, NamespaceAssumption
    <2> HIDE DEF l
    <2>5. k \in Nat /\ k < l
      BY <2>4
    <2>6. QED
      BY <1>1, <2>2, <2>3, <2>5, SymlinkIsNode DEF l
  <1>9. CASE Return
    <2>1. NodeOK(node') /\ MessageOK(node', message')
      <3>1. <<>> \in Path
        BY DEF Path
      <3>2. QED
        BY <1>9, <3>1, InstanceIsNode DEF Return
    <2>2. held' = NothingHeld \/ HeldOK'
      <3>1. CASE held' = held
        BY <3>1 DEF NamespaceInv, HeldOK
      <3>2. CASE /\ node.type # "walker"
                 /\ held' = [handle |-> NodeHandle(node), node |-> node,
                             message |-> message]
        <4>1. /\ held'.handle = NodeHandle(node) /\ held'.node = node
              /\ held'.message = message
          BY <3>2
        <4>2. QED
          BY <1>0, <3>2, <4>1 DEF HeldOK
      <3>3. QED
        BY <1>9, <3>1, <3>2 DEF Return
    <2>3. QED
      BY <2>1, <2>2 DEF NamespaceInv
  <1>10. CASE UseHandle
    <2>1. HeldOK /\ Resolvable(held.node)
      BY <1>10 DEF UseHandle, NamespaceInv
    <2>2. Resolve(held.handle) = held.node
      BY <2>1, ResolvableResolves DEF HeldOK
    <2>3. Go(held.node, held.message)
      BY <1>10, <2>2 DEF UseHandle
    <2>4. QED
      BY <1>1, <2>1, <2>3 DEF HeldOK
  <1>11. QED
    BY <1>2, <1>3, <1>4, <1>5, <1>6, <1>7, <1>8, <1>9, <1>10, Zenon DEF NamespaceNext

LEMMA HandlesDistinctFollows ==
    ASSUME NamespaceInv
    PROVE  HandlesDistinct
  <1>1. SUFFICES ASSUME held # NothingHeld, node # NoNode, node.type # "walker"
                 PROVE  held.handle = NodeHandle(node) <=> held.node = node
    BY DEF HandlesDistinct
  <1>2. HeldOK /\ NodeOK(node)
    BY <1>1 DEF NamespaceInv
  <1>3. /\ NodeOK(held.node) /\ held.handle = NodeHandle(held.node)
        /\ ~ IsWalker(held.node) /\ ~ IsWalker(node)
    BY <1>1, <1>2, TypeOfNode DEF HeldOK
  <1>4. QED
    BY <1>2, <1>3, HandlesInjective

(* Handles identify nodes, however a process has got to them, and what it  *)
(* finds in a directory is what the message in the storage says, for any   *)
(* instance names, digest functions, objects and depth of the directories: *)
(* the handle allocators that main() creates, and the VirtualLookup() and  *)
(* resolve functions of the directories that use them.                     *)
THEOREM WalkAgrees == FileSystemSpec => [](HandlesDistinct /\ ContentsAgree)
  <1>1. FileSystemInit => NamespaceInv
    BY NamespaceInitial DEF FileSystemInit
  <1>2. NamespaceInv /\ [FileSystemNext]_allVars => NamespaceInv'
    <2>1. SUFFICES ASSUME NamespaceInv, [FileSystemNext]_allVars
                   PROVE  NamespaceInv'
      OBVIOUS
    <2>2. NamespaceNext \/ UNCHANGED namespaceVars
      BY <2>1 DEF FileSystemNext, Walk, List, Copy, allVars
    <2>3. QED
      BY <2>1, <2>2, NamespaceSteps, NamespaceUnchanged
  <1>3. NamespaceInv => HandlesDistinct /\ ContentsAgree
    <2>1. SUFFICES ASSUME NamespaceInv
                   PROVE  HandlesDistinct /\ ContentsAgree
      OBVIOUS
    <2>2. NodeOK(node) /\ MessageOK(node, message)
      BY <2>1 DEF NamespaceInv
    <2>3. node # NoNode
      <3>1. node \in Nodes
        BY <2>2 DEF NodeOK
      <3>2. NoNode \notin Nodes
        BY NamespaceAssumption, Zenon
      <3>3. QED
        BY <3>1, <3>2
    <2>4. ContentsAgree
      BY <2>2, <2>3 DEF ContentsAgree, MessageOK
    <2>5. QED
      BY <2>1, <2>4, HandlesDistinctFollows
  <1>4. QED
    BY <1>1, <1>2, <1>3, PTL DEF FileSystemSpec

-----------------------------------------------------------------------------
(* Command files.  A function that is defined by recursion on the numbers  *)
(* up to m exists.                                                         *)
Recursive(T, a, g, m, f) ==
    /\ f \in [0 .. m -> T]
    /\ f[0] = a
    /\ \A k \in 1 .. m : f[k] = g[<<k, f[k - 1]>>]

LEMMA RecursionExists ==
    ASSUME NEW T, NEW a \in T, NEW m \in Nat, NEW g \in [(1 .. m) \X T -> T]
    PROVE  \E f : Recursive(T, a, g, m, f)
  <1> USE DEF Recursive
  <1> DEFINE OK(l, f) == Recursive(T, a, g, l, f)
             S == {l \in Nat : l <= m => \E f : OK(l, f)}
  <1>1. 0 \in S
    <2>1. OK(0, [k \in 0 .. 0 |-> a])
      OBVIOUS
    <2>2. QED
      BY <2>1
  <1>2. ASSUME NEW l \in S
        PROVE  l + 1 \in S
    <2>1. SUFFICES ASSUME l + 1 <= m
                   PROVE  \E f : OK(l + 1, f)
      OBVIOUS
    <2>2. l \in Nat /\ l + 1 \in 1 .. m
      BY <2>1
    <2>3. PICK f : OK(l, f)
      BY <2>1, <2>2
    <2> DEFINE h == [k \in 0 .. l + 1 |-> IF k = l + 1 THEN g[<<l + 1, f[l]>>]
                                          ELSE f[k]]
    <2>4. f[l] \in T
      BY <2>2, <2>3
    <2>5. g[<<l + 1, f[l]>>] \in T
      BY <2>2, <2>4
    <2>6. h \in [0 .. l + 1 -> T]
      BY <2>2, <2>3, <2>5
    <2>7. h[0] = a
      BY <2>2, <2>3
    <2>8. ASSUME NEW k \in 1 .. l + 1
          PROVE  h[k] = g[<<k, h[k - 1]>>]
      <3>1. h[k - 1] = f[k - 1]
        BY <2>2
      <3>2. CASE k = l + 1
        <4>1. k - 1 = l
          BY <2>2, <3>2
        <4>2. h[k] = g[<<l + 1, f[l]>>]
          BY <3>2
        <4> HIDE DEF h
        <4>3. QED
          BY <3>1, <3>2, <4>1, <4>2, Zenon
      <3>3. CASE k # l + 1
        BY <2>2, <2>3, <3>1, <3>3
      <3>4. QED
        BY <3>2, <3>3
    <2> HIDE DEF h
    <2>9. QED
      BY <2>6, <2>7, <2>8
  <1>3. S = Nat
    <2> HIDE DEF S
    <2>1. S \in SUBSET Nat
      BY DEF S
    <2>2. QED
      BY <1>1, <1>2, <2>1, SetInduction
  <1>4. \E f : OK(m, f)
    <2>1. m \in S /\ m <= m
      BY <1>3
    <2> HIDE DEF OK
    <2>2. QED
      BY <2>1
  <1>5. QED
    BY <1>4

(* The script up to and including its k-th string.                         *)
Flattening(s) ==
    CHOOSE flatten :
        flatten = [j \in 1 .. Len(s) |-> IF j = 1 THEN s[j]
                                         ELSE flatten[j - 1] \o s[j]]

Prefix(s, k) == IF k = 0 THEN <<>> ELSE Flattening(s)[k]

LEMMA FlatteningExists ==
    ASSUME NEW s \in Seq(Seq(STRING))
    PROVE  Flattening(s) = [j \in 1 .. Len(s) |->
                               IF j = 1 THEN s[j]
                               ELSE Flattening(s)[j - 1] \o s[j]]
  <1> DEFINE T == Seq(STRING)
             g == [p \in (1 .. Len(s)) \X T |-> p[2] \o s[p[1]]]
  <1>1. Len(s) \in Nat /\ <<>> \in T /\ \A j \in 1 .. Len(s) : s[j] \in T
    OBVIOUS
  <1>2. g \in [(1 .. Len(s)) \X T -> T]
    BY <1>1
  <1>3. \A k \in 1 .. Len(s), x \in T : g[<<k, x>>] = x \o s[k]
    OBVIOUS
  <1> HIDE DEF g
  <1>4. PICK f : Recursive(T, <<>>, g, Len(s), f)
    <2>1. Len(s) \in Nat /\ <<>> \in T
      BY <1>1
    <2> HIDE DEF T
    <2>2. QED
      BY <1>2, <2>1, RecursionExists
  <1> USE DEF Recursive
  <1> DEFINE h == [j \in 1 .. Len(s) |-> f[j]]
  <1>5. ASSUME NEW j \in 1 .. Len(s)
        PROVE  h[j] = IF j = 1 THEN s[j] ELSE h[j - 1] \o s[j]
    <2>1. f[j - 1] \in T
      BY <1>1, <1>4
    <2>2. h[j] = f[j - 1] \o s[j]
      BY <1>3, <1>4, <2>1
    <2>3. CASE j = 1
      <3>1. f[j - 1] = <<>>
        BY <1>4, <2>3
      <3>2. <<>> \o s[j] = s[j]
        BY <1>1, ConcatEmptySeq
      <3>3. QED
        BY <2>2, <2>3, <3>1, <3>2
    <2>4. CASE j # 1
      <3>1. h[j - 1] = f[j - 1]
        BY <1>1, <2>4
      <3>2. QED
        BY <2>2, <2>4, <3>1
    <2>5. QED
      BY <2>3, <2>4
  <1>6. h = [j \in 1 .. Len(s) |-> h[j]]
    OBVIOUS
  <1> HIDE DEF h
  <1>7. h = [j \in 1 .. Len(s) |-> IF j = 1 THEN s[j] ELSE h[j - 1] \o s[j]]
    BY <1>5, <1>6
  <1>8. QED
    BY <1>7, Zenon DEF Flattening

LEMMA PrefixStep ==
    ASSUME NEW s \in Seq(Seq(STRING))
    PROVE  /\ Prefix(s, 0) = <<>>
           /\ \A k \in 0 .. Len(s) : Prefix(s, k) \in Seq(STRING)
           /\ \A k \in 1 .. Len(s) : Prefix(s, k) = Prefix(s, k - 1) \o s[k]
           /\ FlattenSeq(s) = Prefix(s, Len(s))
  <1> DEFINE P(k) == Prefix(s, k)
             S == {k \in Nat : k <= Len(s) => P(k) \in Seq(STRING)}
  <1>1. Len(s) \in Nat /\ \A j \in 1 .. Len(s) : s[j] \in Seq(STRING)
    OBVIOUS
  <1>2. P(0) = <<>>
    BY DEF Prefix
  <1>3. ASSUME NEW k \in 1 .. Len(s)
        PROVE  P(k) = P(k - 1) \o s[k]
    <2>1. Flattening(s)[k] = IF k = 1 THEN s[k] ELSE Flattening(s)[k - 1] \o s[k]
      BY FlatteningExists
    <2>2. CASE k = 1
      <3>1. <<>> \o s[k] = s[k]
        BY <1>1, ConcatEmptySeq
      <3>2. QED
        BY <1>2, <2>1, <2>2, <3>1 DEF Prefix
    <2>3. CASE k # 1
      <3>1. k # 0 /\ k - 1 # 0
        BY <2>3
      <3>2. P(k) = Flattening(s)[k] /\ P(k - 1) = Flattening(s)[k - 1]
        BY <3>1, Zenon DEF Prefix
      <3>3. QED
        BY <2>1, <2>3, <3>2, Zenon
    <2>4. QED
      BY <2>2, <2>3
  <1>4. FlattenSeq(s) = P(Len(s))
    <2>1. CASE Len(s) = 0
      <3>1. s = <<>>
        BY <2>1, EmptySeq
      <3>2. QED
        BY <2>1, <3>1 DEF FlattenSeq, Prefix
    <2>2. CASE Len(s) # 0
      <3>1. P(Len(s)) = Flattening(s)[Len(s)]
        BY <2>2, Zenon DEF Prefix
      <3>2. FlattenSeq(s) = Flattening(s)[Len(s)]
        BY <2>2, Zenon DEF FlattenSeq, Flattening
      <3>3. QED
        BY <3>1, <3>2
    <2>3. QED
      BY <2>1, <2>2
  <1> HIDE DEF P
  <1>5. 0 \in S
    <2>1. <<>> \in Seq(STRING)
      OBVIOUS
    <2>2. P(0) \in Seq(STRING)
      BY <1>2, <2>1, Zenon
    <2>3. QED
      BY <2>2
  <1>6. ASSUME NEW k \in S
        PROVE  k + 1 \in S
    <2>1. SUFFICES ASSUME k + 1 <= Len(s)
                   PROVE  P(k + 1) \in Seq(STRING)
      OBVIOUS
    <2>2. P(k) \in Seq(STRING) /\ k + 1 \in 1 .. Len(s) /\ (k + 1) - 1 = k
      BY <1>1, <2>1
    <2>3. P(k + 1) = P(k) \o s[k + 1]
      BY <1>3, <2>2
    <2>4. s[k + 1] \in Seq(STRING)
      BY <1>1, <2>2
    <2>5. P(k) \o s[k + 1] \in Seq(STRING)
      BY <2>2, <2>4
    <2>6. QED
      BY <2>3, <2>5
  <1>7. S = Nat
    <2> HIDE DEF S
    <2>1. S \in SUBSET Nat
      BY DEF S
    <2>2. QED
      BY <1>5, <1>6, <2>1, SetInduction
  <1>8. \A k \in 0 .. Len(s) : P(k) \in Seq(STRING)
    <2> TAKE k \in 0 .. Len(s)
    <2>1. k \in S /\ k <= Len(s)
      BY <1>1, <1>7
    <2>2. QED
      BY <2>1
  <1>9. QED
    BY <1>2, <1>3, <1>4, <1>8 DEF P

(* sizeCountingWriter: the size of a file is that of the whole script.     *)
Counting ==
    CHOOSE count :
        count = [k \in 0 .. Len(script) |-> IF k = 0 THEN 0
                                            ELSE count[k - 1] + Len(script[k])]

LEMMA SizeIsCounted ==
    ASSUME script \in Seq(Seq(STRING))
    PROVE  SizeCounted = Len(FlattenSeq(script))
  <1> DEFINE m == Len(script)
             g == [p \in (1 .. m) \X Nat |-> p[2] + Len(script[p[1]])]
             count == Counting
             P(k) == Prefix(script, k)
             S == {k \in Nat : k <= m => count[k] = Len(P(k))}
  <1>1. m \in Nat /\ \A k \in 1 .. m : script[k] \in Seq(STRING)
    OBVIOUS
  <1>2. \A k \in 1 .. m : Len(script[k]) \in Nat
    BY <1>1
  <1>3. g \in [(1 .. m) \X Nat -> Nat]
    BY <1>2
  <1>4. \A k \in 1 .. m, x \in Nat : g[<<k, x>>] = x + Len(script[k])
    OBVIOUS
  <1>p. /\ P(0) = <<>>
        /\ \A k \in 0 .. m : P(k) \in Seq(STRING)
        /\ \A k \in 1 .. m : P(k) = P(k - 1) \o script[k]
        /\ FlattenSeq(script) = P(m)
    BY PrefixStep
  <1>c. SizeCounted = count[m]
    BY Zenon DEF SizeCounted, Counting
  <1> HIDE DEF g, P, m
  <1>5. PICK f : Recursive(Nat, 0, g, m, f)
    BY <1>1, <1>3, RecursionExists
  <1>6. f = [k \in 0 .. m |-> IF k = 0 THEN 0 ELSE f[k - 1] + Len(script[k])]
    <2>1. ASSUME NEW k \in 0 .. m
          PROVE  f[k] = IF k = 0 THEN 0 ELSE f[k - 1] + Len(script[k])
      <3>1. CASE k = 0
        BY <1>5, <3>1 DEF Recursive
      <3>2. CASE k # 0
        <4>1. k \in 1 .. m /\ k - 1 \in 0 .. m
          BY <1>1, <3>2
        <4>2. f[k] = g[<<k, f[k - 1]>>] /\ f[k - 1] \in Nat
          BY <1>5, <4>1 DEF Recursive
        <4>3. QED
          BY <1>4, <3>2, <4>1, <4>2
      <3>3. QED
        BY <3>1, <3>2
    <2>2. f = [k \in 0 .. m |-> f[k]]
      BY <1>5 DEF Recursive
    <2>3. QED
      BY <2>1, <2>2
  <1>7. count = [k \in 0 .. m |-> IF k = 0 THEN 0
                                  ELSE count[k - 1] + Len(script[k])]
    BY <1>6, Zenon DEF Counting, m
  <1> HIDE DEF count
  <1>8. 0 \in S
    <2>1. count[0] = 0
      BY <1>1, <1>7
    <2>2. QED
      BY <1>p, <2>1
  <1>9. ASSUME NEW k \in S
        PROVE  k + 1 \in S
    <2>1. SUFFICES ASSUME k + 1 <= m
                   PROVE  count[k + 1] = Len(P(k + 1))
      OBVIOUS
    <2>2. /\ k \in Nat /\ k \in 0 .. m /\ k + 1 \in 1 .. m /\ k + 1 \in 0 .. m
          /\ k + 1 # 0 /\ (k + 1) - 1 = k
          /\ count[k] = Len(P(k))
      BY <1>1, <2>1
    <2>3. count[k + 1] = count[k] + Len(script[k + 1])
      BY <1>7, <2>2
    <2>4. P(k + 1) = P(k) \o script[k + 1]
      BY <1>p, <2>2
    <2>5. P(k) \in Seq(STRING) /\ script[k + 1] \in Seq(STRING)
      BY <1>1, <1>p, <2>2
    <2>6. Len(P(k) \o script[k + 1]) = Len(P(k)) + Len(script[k + 1])
      BY <2>5
    <2>7. QED
      BY <2>2, <2>3, <2>4, <2>6
  <1>10. S = Nat
    <2> HIDE DEF S
    <2>1. S \in SUBSET Nat
      BY DEF S
    <2>2. QED
      BY <1>8, <1>9, <2>1, SetInduction
  <1>11. m \in S /\ m <= m
    BY <1>1, <1>10
  <1>12. count[m] = Len(P(m))
    BY <1>11
  <1>13. QED
    BY <1>c, <1>p, <1>12

(* regionExtractingWriter: its state after the strings of which the        *)
(* concatenation is p, if n bytes are to be read at offset o.              *)
Writer == [space : Nat, offset : Nat, data : Seq(STRING)]

WriterOK(p, o, n, w) ==
    /\ w \in Writer
    /\ o >= Len(p) => w.offset = o - Len(p) /\ w.space = n /\ Len(w.data) = 0
    /\ o < Len(p) => /\ w.offset = 0
                     /\ Len(w.data) = Least(n, Len(p) - o)
                     /\ w.space = n - Len(w.data)
    /\ \A j \in 1 .. Len(w.data) : w.data[j] = p[o + j]

LEMMA LeastType ==
    ASSUME NEW x \in Nat, NEW y \in Nat
    PROVE  /\ Least(x, y) \in Nat
           /\ Least(x, y) <= x /\ Least(x, y) <= y
           /\ Least(x, y) = x \/ Least(x, y) = y
  BY DEF Least

LEMMA ConcatForm ==
    ASSUME NEW s \in Seq(STRING), NEW t \in Seq(STRING)
    PROVE  /\ s \o t \in Seq(STRING)
           /\ Len(s \o t) = Len(s) + Len(t)
           /\ \A j \in 1 .. Len(s) : (s \o t)[j] = s[j]
           /\ \A j \in 1 .. Len(t) : (s \o t)[Len(s) + j] = t[j]
  OBVIOUS

LEMMA WriterRecord ==
    ASSUME NEW x \in Nat, NEW y \in Nat, NEW z \in Seq(STRING)
    PROVE  [space |-> x, offset |-> y, data |-> z] \in Writer
  BY DEF Writer

LEMMA SliceForm ==
    ASSUME NEW s \in Seq(STRING), NEW o \in Nat, NEW n \in Nat, o + n <= Len(s)
    PROVE  /\ SubSeq(s, o + 1, o + n) \in Seq(STRING)
           /\ Len(SubSeq(s, o + 1, o + n)) = n
           /\ \A j \in 1 .. n : SubSeq(s, o + 1, o + n)[j] = s[o + j]
  <1> DEFINE a == o + 1
             b == o + n
             t == SubSeq(s, a, b)
  <1>1. a \in Int /\ b \in Int /\ b - a + 1 = n /\ (a <= b \/ n = 0)
    OBVIOUS
  <1>2. \A j \in a .. b : s[j] \in STRING
    OBVIOUS
  <1>3. \A j \in 1 .. n : a + j - 1 = o + j
    OBVIOUS
  <1>n. a <= b => b - a + 1 = n
    BY <1>1
  <1>m. ~ (a <= b) => n = 0
    BY <1>1
  <1> HIDE DEF a, b
  <1>4. /\ t \in Seq(STRING)
        /\ Len(t) = IF a <= b THEN b - a + 1 ELSE 0
        /\ \A j \in 1 .. b - a + 1 : t[j] = s[a + j - 1]
    BY <1>1, <1>2, SubSeqProperties
  <1> HIDE DEF t
  <1>5. Len(t) = n
    BY <1>4, <1>n, <1>m
  <1>6. \A j \in 1 .. n : t[j] = s[o + j]
    BY <1>1, <1>3, <1>4
  <1>7. QED
    BY <1>4, <1>5, <1>6 DEF t, a, b

LEMMA WriteStringType ==
    ASSUME NEW w \in Writer, NEW s \in Seq(STRING)
    PROVE  /\ WriteString(w, s) \in Writer
           /\ w.offset >= Len(s) =>
                  WriteString(w, s) = [w EXCEPT !.offset = @ - Len(s)]
           /\ w.offset < Len(s) =>
                  LET n == Least(w.space, Len(s) - w.offset)
                      x == WriteString(w, s)
                  IN  /\ x.space = w.space - n
                      /\ x.offset = 0
                      /\ Len(x.data) = Len(w.data) + n
                      /\ \A j \in 1 .. Len(w.data) : x.data[j] = w.data[j]
                      /\ \A j \in 1 .. n :
                             x.data[Len(w.data) + j] = s[w.offset + j]
  <1>1. /\ w.offset \in Nat /\ w.space \in Nat /\ w.data \in Seq(STRING)
        /\ Len(w.data) \in Nat /\ Len(s) \in Nat
    BY DEF Writer
  <1>2. CASE w.offset >= Len(s)
    <2>1. WriteString(w, s) = [w EXCEPT !.offset = @ - Len(s)]
      BY <1>2 DEF WriteString
    <2>2. w.offset - Len(s) \in Nat
      BY <1>1, <1>2
    <2>3. QED
      BY <1>1, <1>2, <2>1, <2>2 DEF Writer
  <1>3. CASE ~ (w.offset >= Len(s))
    <2> DEFINE n == Least(w.space, Len(s) - w.offset)
               t == SubSeq(s, w.offset + 1, w.offset + n)
               x == WriteString(w, s)
    <2>1. x = [space |-> w.space - n, offset |-> 0, data |-> w.data \o t]
      BY <1>3 DEF WriteString
    <2>2. n \in Nat /\ n <= w.space /\ n <= Len(s) - w.offset
      <3>1. Len(s) - w.offset \in Nat
        BY <1>1, <1>3
      <3>2. QED
        BY <1>1, <3>1, LeastType, Zenon
    <2> HIDE DEF n, x
    <2>3. /\ t \in Seq(STRING) /\ Len(t) = n
          /\ \A j \in 1 .. n : t[j] = s[w.offset + j]
      <3>1. w.offset + n <= Len(s)
        BY <1>1, <1>3, <2>2
      <3>2. QED
        BY <1>1, <2>2, <3>1, SliceForm
    <2> HIDE DEF t
    <2>4. /\ x.space = w.space - n /\ x.offset = 0 /\ x.data = w.data \o t
          /\ w.data \o t \in Seq(STRING)
      BY <1>1, <2>1, <2>3
    <2>5. x \in Writer
      <3> DEFINE d == w.data \o t
                 v == w.space - n
      <3>1. x = [space |-> v, offset |-> 0, data |-> d]
        BY <2>1
      <3>2. v \in Nat /\ 0 \in Nat /\ d \in Seq(STRING)
        BY <1>1, <2>2, <2>4
      <3> HIDE DEF d, v
      <3>3. QED
        BY <3>1, <3>2, WriterRecord, Zenon
    <2> DEFINE u == w.data \o t
    <2>6. /\ Len(u) = Len(w.data) + n
          /\ \A j \in 1 .. Len(w.data) : u[j] = w.data[j]
          /\ \A j \in 1 .. n : u[Len(w.data) + j] = t[j]
      BY <1>1, <2>3, ConcatForm, Zenon
    <2> HIDE DEF u
    <2>7. \A j \in 1 .. n : u[Len(w.data) + j] = s[w.offset + j]
      BY <2>3, <2>6
    <2>8. x.data = u
      BY <2>4 DEF u
    <2>9. QED
      BY <1>1, <1>3, <2>4, <2>5, <2>6, <2>7, <2>8 DEF n, x
  <1>4. QED
    BY <1>2, <1>3

LEMMA WriteArithmetic ==
    ASSUME NEW a \in Nat, NEW b \in Nat, NEW d \in Nat, NEW n \in Nat,
           NEW o \in Nat, NEW v \in Nat, NEW c \in Nat, NEW r,
           o >= a => v = o - a /\ c = n /\ d = 0,
           o < a => v = 0 /\ d = (IF n < a - o THEN n ELSE a - o) /\ c = n - d,
           v < b,
           r = IF c < b - v THEN c ELSE b - v
    PROVE  /\ o < a + b
           /\ d + r = IF n < (a + b) - o THEN n ELSE (a + b) - o
           /\ c - r = n - (d + r)
           /\ \A k \in 1 .. r : v + k \in 1 .. b /\ a + (v + k) = o + (d + k)
  <1>1. CASE o >= a
    BY <1>1
  <1>2. CASE o < a
    BY <1>2
  <1>3. QED
    BY <1>1, <1>2

LEMMA WriteStep ==
    ASSUME NEW p \in Seq(STRING), NEW o \in Nat, NEW n \in Nat, NEW w,
           WriterOK(p, o, n, w), NEW s \in Seq(STRING)
    PROVE  WriterOK(p \o s, o, n, WriteString(w, s))
  <1> DEFINE x == WriteString(w, s)
             q == p \o s
             a == Len(p)
             b == Len(s)
             d == Len(w.data)
             r == Least(w.space, b - w.offset)
  <1>1. /\ w \in Writer /\ w.offset \in Nat /\ w.space \in Nat
        /\ w.data \in Seq(STRING)
        /\ a \in Nat /\ b \in Nat /\ d \in Nat
    BY DEF WriterOK, Writer
  <1>2. /\ q \in Seq(STRING)
        /\ Len(q) = a + b
        /\ \A j \in 1 .. a : q[j] = p[j]
        /\ \A j \in 1 .. b : q[a + j] = s[j]
    BY ConcatForm
  <1>3. /\ x \in Writer
        /\ w.offset >= b => x = [w EXCEPT !.offset = @ - b]
        /\ w.offset < b => /\ x.space = w.space - r
                           /\ x.offset = 0
                           /\ Len(x.data) = d + r
                           /\ \A j \in 1 .. d : x.data[j] = w.data[j]
                           /\ \A j \in 1 .. r : x.data[d + j] = s[w.offset + j]
    BY <1>1, WriteStringType
  <1>4. /\ o >= a => w.offset = o - a /\ w.space = n /\ d = 0
        /\ o < a => w.offset = 0 /\ d = Least(n, a - o) /\ w.space = n - d
        /\ \A j \in 1 .. d : w.data[j] = p[o + j]
    BY DEF WriterOK
  <1>5. x.space \in Nat /\ x.offset \in Nat /\ Len(x.data) \in Nat
    BY <1>3 DEF Writer
  <1>r. w.offset < b => r \in Nat /\ r <= w.space /\ r <= b - w.offset
    BY <1>1 DEF Least
  <1>d. o < a => o + d <= a /\ d <= n
    BY <1>1, <1>4 DEF Least
  <1>l. r = IF w.space < b - w.offset THEN w.space ELSE b - w.offset
    BY DEF Least
  <1>k. o < a => d = IF n < a - o THEN n ELSE a - o
    BY <1>4 DEF Least
  <1> HIDE DEF x, q, a, b, d, r
  <1>6. CASE w.offset >= b
    <2>1. x.space = w.space /\ x.offset = w.offset - b /\ x.data = w.data
      BY <1>1, <1>3, <1>6 DEF Writer
    <2>2. d = 0 => \A j \in 1 .. d : x.data[j] = q[o + j]
      BY <1>1
    <2>3. CASE o >= a
      <3>1. o >= a + b /\ x.offset = o - (a + b) /\ x.space = n /\ d = 0
        BY <1>1, <1>4, <1>6, <2>1, <2>3
      <3>2. Len(x.data) = 0
        BY <2>1, <3>1 DEF d
      <3>3. \A j \in 1 .. Len(x.data) : x.data[j] = q[o + j]
        BY <3>2
      <3>4. QED
        BY <1>1, <1>2, <1>3, <3>1, <3>2, <3>3 DEF WriterOK, x, q
    <2>4. CASE o < a
      <3>1. w.offset = 0 /\ b = 0 /\ x.offset = 0 /\ o < a + b /\ a + b = a
        BY <1>1, <1>4, <1>6, <2>1, <2>4
      <3>2. Len(x.data) = d
        BY <2>1 DEF d
      <3>3. d = Least(n, Len(q) - o) /\ x.space = n - d
        BY <1>2, <1>4, <2>1, <2>4, <3>1
      <3>4. \A j \in 1 .. d : x.data[j] = q[o + j]
        <4> TAKE j \in 1 .. d
        <4>1. o + j \in 1 .. a
          BY <1>1, <1>d, <2>4
        <4>2. QED
          BY <1>2, <1>4, <2>1, <4>1
      <3>5. ~ (o >= Len(q)) /\ \A j \in 1 .. Len(x.data) : x.data[j] = q[o + j]
        BY <1>1, <1>2, <2>4, <3>1, <3>2, <3>4
      <3>6. QED
        BY <1>3, <3>1, <3>2, <3>3, <3>5 DEF WriterOK, x, q
    <2>5. QED
      BY <1>1, <2>3, <2>4
  <1>7. CASE ~ (w.offset >= b)
    <2>1. w.offset < b
      BY <1>1, <1>7
    <2>2. /\ o < a + b
          /\ d + r = IF n < (a + b) - o THEN n ELSE (a + b) - o
          /\ w.space - r = n - (d + r)
          /\ \A k \in 1 .. r : /\ w.offset + k \in 1 .. b
                              /\ a + (w.offset + k) = o + (d + k)
      <3> DEFINE v == w.offset
                 c == w.space
      <3>1. /\ o >= a => v = o - a /\ c = n /\ d = 0
            /\ o < a => /\ v = 0
                        /\ d = (IF n < a - o THEN n ELSE a - o)
                        /\ c = n - d
            /\ v < b /\ v \in Nat /\ c \in Nat
            /\ r = IF c < b - v THEN c ELSE b - v
        BY <1>1, <1>4, <1>k, <1>l, <2>1
      <3> HIDE DEF v, c
      <3>2. /\ o < a + b
            /\ d + r = IF n < (a + b) - o THEN n ELSE (a + b) - o
            /\ c - r = n - (d + r)
            /\ \A k \in 1 .. r : v + k \in 1 .. b /\ a + (v + k) = o + (d + k)
        BY <1>1, <3>1, WriteArithmetic
      <3>3. QED
        BY <3>2 DEF v, c
    <2>4. x.space = n - (d + r)
      BY <1>3, <2>1, <2>2
    <2>5. Len(x.data) = d + r
      BY <1>3, <2>1
    <2>6. ASSUME NEW j \in 1 .. d + r
          PROVE  x.data[j] = q[o + j]
      <3>1. r \in Nat
        BY <1>r, <2>1
      <3>2. CASE j <= d
        <4>1. o < a
          BY <1>1, <1>4, <3>1, <3>2
        <4>2. j \in 1 .. d /\ o + j \in 1 .. a
          BY <1>1, <1>d, <3>1, <3>2, <4>1
        <4>3. x.data[j] = w.data[j]
          BY <1>3, <2>1, <4>2
        <4>4. QED
          BY <1>2, <1>4, <4>2, <4>3
      <3>3. CASE ~ (j <= d)
        <4> DEFINE k == j - d
        <4>1. k \in 1 .. r /\ d + k = j
          BY <1>1, <3>1, <3>3
        <4>2. w.offset + k \in 1 .. b /\ a + (w.offset + k) = o + j
          BY <2>2, <4>1
        <4> HIDE DEF k
        <4>4. x.data[d + k] = s[w.offset + k]
          BY <1>3, <2>1, <4>1
        <4>5. q[a + (w.offset + k)] = s[w.offset + k]
          BY <1>2, <4>2
        <4>6. QED
          BY <4>1, <4>2, <4>4, <4>5
      <3>4. QED
        BY <3>2, <3>3
    <2>7. Len(x.data) = Least(n, Len(q) - o)
      <3>1. Len(x.data) = Least(n, (a + b) - o)
        BY <2>2, <2>5, Zenon DEF Least
      <3>2. QED
        BY <1>2, <3>1, Zenon
    <2>8. x.space = n - Len(x.data)
      BY <2>4, <2>5
    <2>9. x.offset = 0
      BY <1>3, <2>1
    <2>10. \A j \in 1 .. Len(x.data) : x.data[j] = q[o + j]
      BY <2>5, <2>6
    <2>11. ~ (o >= Len(q))
      BY <1>1, <1>2, <2>2
    <2>12. QED
      BY <1>3, <2>7, <2>8, <2>9, <2>10, <2>11 DEF WriterOK, x, q
  <1>8. QED
    BY <1>6, <1>7

Writing(n) ==
    CHOOSE writer :
        writer = [k \in 0 .. Len(script) |->
                     IF k = 0 THEN [space |-> n, offset |-> offset, data |-> <<>>]
                     ELSE WriteString(writer[k - 1], script[k])]

LEMMA WritingExists ==
    ASSUME script \in Seq(Seq(STRING)), NEW n \in Nat, offset \in Nat
    PROVE  Writing(n) = [k \in 0 .. Len(script) |->
               IF k = 0 THEN [space |-> n, offset |-> offset, data |-> <<>>]
               ELSE WriteString(Writing(n)[k - 1], script[k])]
  <1> DEFINE m == Len(script)
             a == [space |-> n, offset |-> offset, data |-> <<>>]
             g == [p \in (1 .. m) \X Writer |-> WriteString(p[2], script[p[1]])]
  <1>1. m \in Nat /\ \A k \in 1 .. m : script[k] \in Seq(STRING)
    OBVIOUS
  <1>2. a \in Writer
    <2>1. <<>> \in Seq(STRING)
      OBVIOUS
    <2>2. QED
      BY <2>1, WriterRecord, Zenon
  <1>3. \A k \in 1 .. m, w \in Writer : WriteString(w, script[k]) \in Writer
    BY <1>1, WriteStringType
  <1>4. \A k \in 1 .. m, w \in Writer : g[<<k, w>>] = WriteString(w, script[k])
    OBVIOUS
  <1>5. g \in [(1 .. m) \X Writer -> Writer]
    BY <1>3
  <1> HIDE DEF g, m, a
  <1>6. PICK f : Recursive(Writer, a, g, m, f)
    BY <1>1, <1>2, <1>5, RecursionExists
  <1>7. f = [k \in 0 .. m |-> IF k = 0 THEN a
                              ELSE WriteString(f[k - 1], script[k])]
    <2>1. ASSUME NEW k \in 0 .. m
          PROVE  f[k] = IF k = 0 THEN a ELSE WriteString(f[k - 1], script[k])
      <3>1. CASE k = 0
        BY <1>6, <3>1 DEF Recursive
      <3>2. CASE k # 0
        <4>1. k \in 1 .. m /\ k - 1 \in 0 .. m
          BY <1>1, <3>2
        <4>2. f[k] = g[<<k, f[k - 1]>>] /\ f[k - 1] \in Writer
          BY <1>6, <4>1 DEF Recursive
        <4>3. QED
          BY <1>4, <3>2, <4>1, <4>2
      <3>3. QED
        BY <3>1, <3>2
    <2>2. f = [k \in 0 .. m |-> f[k]]
      BY <1>6 DEF Recursive
    <2>3. QED
      BY <2>1, <2>2
  <1>8. QED
    BY <1>7, Zenon DEF Writing, m, a

(* What VirtualRead() has got once the whole script has been written.      *)
LEMMA WrittenCorrect ==
    ASSUME script \in Seq(Seq(STRING)), NEW n \in Nat, offset \in Nat
    PROVE  WriterOK(FlattenSeq(script), offset, n, Written(n))
  <1> DEFINE m == Len(script)
             a == [space |-> n, offset |-> offset, data |-> <<>>]
             f == Writing(n)
             P(k) == Prefix(script, k)
             S == {k \in Nat : k <= m => WriterOK(P(k), offset, n, f[k])}
  <1>1. m \in Nat /\ \A k \in 1 .. m : script[k] \in Seq(STRING)
    OBVIOUS
  <1>2. f = [k \in 0 .. m |-> IF k = 0 THEN a
                              ELSE WriteString(f[k - 1], script[k])]
    BY WritingExists
  <1>3. Written(n) = f[m]
    BY Zenon DEF Written, Writing
  <1>4. /\ P(0) = <<>>
        /\ \A k \in 0 .. m : P(k) \in Seq(STRING)
        /\ \A k \in 1 .. m : P(k) = P(k - 1) \o script[k]
        /\ FlattenSeq(script) = P(m)
    BY PrefixStep
  <1>5. a \in Writer
    <2>1. <<>> \in Seq(STRING)
      OBVIOUS
    <2>2. QED
      BY <2>1, WriterRecord, Zenon
  <1>6. WriterOK(<<>>, offset, n, a)
    <2>1. Len(<<>>) = 0 /\ offset >= 0 /\ ~ (offset < 0) /\ offset - 0 = offset
      OBVIOUS
    <2>2. a.offset = offset /\ a.space = n /\ a.data = <<>>
      OBVIOUS
    <2>3. \A j \in 1 .. Len(a.data) : a.data[j] = <<>>[offset + j]
      BY <2>1, <2>2
    <2> HIDE DEF a
    <2>4. QED
      BY <1>5, <2>1, <2>2, <2>3 DEF WriterOK
  <1> HIDE DEF a, f, P, m
  <1>7. 0 \in S
    <2>1. f[0] = a
      BY <1>1, <1>2
    <2>2. WriterOK(P(0), offset, n, f[0])
      BY <1>4, <1>6, <2>1, Zenon
    <2>3. QED
      BY <2>2
  <1>8. ASSUME NEW k \in S
        PROVE  k + 1 \in S
    <2>1. SUFFICES ASSUME k + 1 <= m
                   PROVE  WriterOK(P(k + 1), offset, n, f[k + 1])
      OBVIOUS
    <2>2. /\ k \in Nat /\ k \in 0 .. m /\ k + 1 \in 1 .. m /\ k + 1 \in 0 .. m
          /\ k + 1 # 0 /\ (k + 1) - 1 = k /\ k <= m
      BY <1>1, <2>1
    <2>3. WriterOK(P(k), offset, n, f[k])
      BY <2>2
    <2>4. f[k + 1] = WriteString(f[k], script[k + 1])
      BY <1>2, <2>2
    <2>5. P(k + 1) = P(k) \o script[k + 1]
      BY <1>4, <2>2
    <2>6. P(k) \in Seq(STRING) /\ script[k + 1] \in Seq(STRING)
      BY <1>1, <1>4, <2>2
    <2>7. QED
      BY <2>3, <2>4, <2>5, <2>6, WriteStep, Zenon
  <1>9. S = Nat
    <2> HIDE DEF S
    <2>1. S \in SUBSET Nat
      BY DEF S
    <2>2. QED
      BY <1>7, <1>8, <2>1, SetInduction
  <1>10. m \in S /\ m <= m
    BY <1>1, <1>9
  <1>11. WriterOK(P(m), offset, n, f[m])
    BY <1>10
  <1>12. QED
    BY <1>3, <1>4, <1>11

-----------------------------------------------------------------------------
(* The process has copied the script up to its offset, and the size that   *)
(* LookupFile() has counted is that of the script.                         *)
CopyInv ==
    /\ script \in Seq(Seq(STRING))
    /\ state \in {"lookup", "failed", "found", "refused", "seek", "copy", "end"}
    /\ state \in {"found", "seek", "copy", "end"} => size = Len(FlattenSeq(script))
    /\ offset \in Nat
    /\ offset <= Len(FlattenSeq(script))
    /\ state = "copy" => region = size /\ offset < region
    /\ state = "end" => offset = size
    /\ copied = SubSeq(FlattenSeq(script), 1, offset)

LEMMA ScriptType ==
    ASSUME script \in Seq(Seq(STRING))
    PROVE  FlattenSeq(script) \in Seq(STRING) /\ Len(FlattenSeq(script)) \in Nat
  <1>1. Len(script) \in 0 .. Len(script)
    OBVIOUS
  <1>2. FlattenSeq(script) \in Seq(STRING)
    BY <1>1, PrefixStep
  <1>3. QED
    BY <1>2

LEMMA CopyInitial == CommandInit => CopyInv
  <1>1. SUFFICES ASSUME CommandInit
                 PROVE  CopyInv
    OBVIOUS
  <1>2. script \in Seq(Seq(STRING))
    <2>1. PICK n \in 0 .. MaxStrings : script \in [1 .. n -> Strings]
      BY <1>1 DEF CommandInit
    <2>2. n \in Nat /\ Strings \subseteq Seq(STRING)
      BY CommandFileAssumption
    <2>3. script \in [1 .. n -> Seq(STRING)]
      BY <2>1, <2>2
    <2>4. QED
      BY <2>2, <2>3
  <1>3. FlattenSeq(script) \in Seq(STRING) /\ Len(FlattenSeq(script)) \in Nat
    BY <1>2, ScriptType
  <1>4. SubSeq(FlattenSeq(script), 1, 0) = <<>>
    BY SubSeqEmpty
  <1> DEFINE whole == FlattenSeq(script)
  <1> HIDE DEF whole
  <1>5. QED
    BY <1>1, <1>2, <1>3, <1>4 DEF CommandInit, CopyInv

LEMMA CopyUnchanged == CopyInv /\ UNCHANGED commandVars => CopyInv'
  BY DEF CopyInv, commandVars

(* A read extends what was copied.                                         *)
LEMMA ReadExtends ==
    ASSUME NEW s \in Seq(STRING), NEW o \in Nat, NEW n \in Nat, o + n <= Len(s),
           NEW w, n > 0, WriterOK(s, o, n, w)
    PROVE  /\ w.space = 0
           /\ SubSeq(s, 1, o) \o w.data = SubSeq(s, 1, o + n)
  <1> DEFINE p == SubSeq(s, 1, o)
             d == w.data
             q == SubSeq(s, 1, o + n)
  <1>1. Len(s) \in Nat
    OBVIOUS
  <1>2. /\ d \in Seq(STRING) /\ w.space = n - Len(d) /\ Len(d) = Least(n, Len(s) - o)
        /\ \A j \in 1 .. Len(d) : d[j] = s[o + j]
    BY <1>1 DEF WriterOK, Writer
  <1>3. Len(d) = n
    <2>1. Least(n, Len(s) - o) = n
      BY <1>1 DEF Least
    <2>2. QED
      BY <1>2, <2>1
  <1>4. /\ p \in Seq(STRING) /\ Len(p) = o
        /\ \A j \in 1 .. o : p[j] = s[j]
    <2>1. 0 + 1 = 1 /\ 0 + o = o /\ 0 + o <= Len(s)
      BY <1>1
    <2>2. /\ SubSeq(s, 0 + 1, 0 + o) \in Seq(STRING)
          /\ Len(SubSeq(s, 0 + 1, 0 + o)) = o
          /\ \A j \in 1 .. o : SubSeq(s, 0 + 1, 0 + o)[j] = s[0 + j]
      BY <2>1, SliceForm
    <2>3. QED
      BY <2>1, <2>2
  <1>5. /\ q \in Seq(STRING) /\ Len(q) = o + n
        /\ \A j \in 1 .. o + n : q[j] = s[j]
    <2> DEFINE e == o + n
    <2>1. 0 + 1 = 1 /\ 0 + e = e /\ 0 + e <= Len(s) /\ e \in Nat
      BY <1>1
    <2> HIDE DEF e
    <2>2. /\ SubSeq(s, 0 + 1, 0 + e) \in Seq(STRING)
          /\ Len(SubSeq(s, 0 + 1, 0 + e)) = e
          /\ \A j \in 1 .. e : SubSeq(s, 0 + 1, 0 + e)[j] = s[0 + j]
      BY <2>1, SliceForm
    <2>3. QED
      BY <2>1, <2>2 DEF e
  <1> HIDE DEF p, d, q
  <1>6. /\ p \o d \in Seq(STRING)
        /\ Len(p \o d) = o + n
        /\ \A j \in 1 .. o : (p \o d)[j] = p[j]
        /\ \A j \in 1 .. n : (p \o d)[o + j] = d[j]
    BY <1>2, <1>3, <1>4, ConcatForm
  <1>7. ASSUME NEW j \in 1 .. o + n
        PROVE  (p \o d)[j] = q[j]
    <2>1. CASE j <= o
      <3>1. j \in 1 .. o
        BY <2>1
      <3>2. (p \o d)[j] = p[j] /\ p[j] = s[j] /\ q[j] = s[j]
        BY <1>4, <1>5, <1>6, <3>1
      <3>3. QED
        BY <3>2
    <2>2. CASE ~ (j <= o)
      <3> DEFINE k == j - o
      <3>1. k \in 1 .. n /\ o + k = j
        BY <2>2
      <3> HIDE DEF k
      <3>2. (p \o d)[j] = d[k] /\ d[k] = s[o + k]
        BY <1>2, <1>3, <1>6, <3>1
      <3>3. QED
        BY <1>5, <3>1, <3>2
    <2>3. QED
      BY <2>1, <2>2
  <1>8. p \o d = q
    <2> DEFINE c == p \o d
    <2>1. c \in Seq(STRING) /\ Len(c) = Len(q) /\ \A j \in 1 .. Len(c) : c[j] = q[j]
      BY <1>5, <1>6, <1>7
    <2> HIDE DEF c
    <2>2. c = q
      BY <1>5, <2>1, SeqEqual
    <2>3. QED
      BY <2>2 DEF c
  <1>9. w.space = 0
    BY <1>2, <1>3
  <1>10. QED
    BY <1>8, <1>9 DEF p, d, q

LEMMA CopySteps == CopyInv /\ CommandNext => CopyInv'
  <1>1. SUFFICES ASSUME CopyInv, CommandNext
                 PROVE  CopyInv'
    OBVIOUS
  <1> DEFINE whole == FlattenSeq(script)
             Data == {"found", "seek", "copy", "end"}
             States == Data \union {"lookup", "failed", "refused"}
  <1>2. /\ script \in Seq(Seq(STRING))
        /\ state \in States
        /\ state \in Data => size = Len(whole)
        /\ offset \in Nat /\ offset <= Len(whole)
        /\ state = "copy" => region = size /\ offset < region
        /\ state = "end" => offset = size
        /\ copied = SubSeq(whole, 1, offset)
    BY <1>1 DEF CopyInv
  <1>3. script' = script
    BY <1>1 DEF CommandNext, LookupFile, LookupFileFails, ResolveFile,
                VirtualOpenSelf, VirtualSeek, VirtualRead, VirtualReadFails
  <1>4. whole \in Seq(STRING) /\ Len(whole) \in Nat
    BY <1>2, ScriptType
  <1>5. whole' = whole
    BY <1>3
  <1>6. SizeCounted = Len(whole)
    BY <1>2, SizeIsCounted
  <1> DEFINE Kept == /\ state' \in States
                     /\ state' \in Data => size' = Len(whole)
                     /\ offset' \in Nat /\ offset' <= Len(whole)
                     /\ state' = "copy" => region' = size' /\ offset' < region'
                     /\ state' = "end" => offset' = size'
                     /\ copied' = SubSeq(whole, 1, offset')
  <1>7. SUFFICES Kept
    BY <1>2, <1>3 DEF CopyInv
  <1> HIDE DEF whole
  <1>8. CASE LookupFile
    BY <1>2, <1>6, <1>8 DEF LookupFile
  <1>9. CASE LookupFileFails
    BY <1>2, <1>9 DEF LookupFileFails
  <1>10. CASE ResolveFile
    BY <1>2, <1>6, <1>10 DEF ResolveFile
  <1>11. ASSUME NEW write \in BOOLEAN, NEW truncate \in BOOLEAN,
                VirtualOpenSelf(write, truncate)
         PROVE  Kept
    BY <1>2, <1>11 DEF VirtualOpenSelf
  <1>12. CASE VirtualSeek
    BY <1>2, <1>4, <1>12 DEF VirtualSeek
  <1>13. ASSUME NEW length \in 1 .. MaxRead, VirtualRead(length)
         PROVE  Kept
    <2> DEFINE n == BoundReadToFileSize(Least(length, region - offset))
               w == Written(n)
    <2>1. /\ state = "copy" /\ region = size /\ size = Len(whole)
          /\ offset < size /\ length \in Nat /\ length > 0
      BY <1>2, <1>13, CommandFileAssumption DEF VirtualRead
    <2>2. n \in Nat /\ n > 0 /\ offset + n <= Len(whole)
      BY <1>2, <1>4, <2>1 DEF BoundReadToFileSize, Least
    <2>3. WriterOK(whole, offset, n, w)
      <3> HIDE DEF n
      <3>1. QED
        BY <1>2, <2>2, WrittenCorrect DEF whole
    <2>4. /\ IF n > 0 /\ w.space # 0
               THEN state' = "panic" /\ UNCHANGED <<offset, copied>>
               ELSE /\ copied' = copied \o w.data
                    /\ offset' = offset + n
                    /\ state' = IF offset' = region THEN "seek" ELSE "copy"
          /\ UNCHANGED <<size, region>>
      BY <1>13, Zenon DEF VirtualRead
    <2> HIDE DEF n, w
    <2>5. /\ w.space = 0
          /\ SubSeq(whole, 1, offset) \o w.data = SubSeq(whole, 1, offset + n)
      <3>1. offset \in Nat /\ whole \in Seq(STRING)
        BY <1>2, <1>4
      <3>2. \A x : WriterOK(whole, offset, n, x) =>
                      /\ x.space = 0
                      /\ SubSeq(whole, 1, offset) \o x.data
                             = SubSeq(whole, 1, offset + n)
        BY <2>2, <3>1, ReadExtends
      <3>3. QED
        BY <2>3, <3>2, Zenon
    <2>6. /\ copied' = SubSeq(whole, 1, offset') /\ offset' = offset + n
          /\ state' = IF offset' = region THEN "seek" ELSE "copy"
          /\ size' = size /\ region' = region
      BY <1>2, <2>4, <2>5
    <2>7. /\ offset' \in Nat /\ offset' <= Len(whole)
          /\ offset' # region => offset' < region
      BY <1>2, <1>4, <2>1, <2>2, <2>6
    <2>8. QED
      BY <2>1, <2>6, <2>7
  <1>14. CASE VirtualReadFails
    BY <1>2, <1>14 DEF VirtualReadFails
  <1>15. QED
    BY <1>1, <1>8, <1>9, <1>10, <1>11, <1>12, <1>13, <1>14 DEF CommandNext

LEMMA CopiedExactlyFollows == CopyInv => CopiedExactly
  <1>1. SUFFICES ASSUME CopyInv
                 PROVE  CopiedExactly
    OBVIOUS
  <1> DEFINE whole == FlattenSeq(script)
  <1>2. /\ script \in Seq(Seq(STRING))
        /\ state # "panic"
        /\ state = "end" => offset = Len(whole)
        /\ copied = SubSeq(whole, 1, offset)
    BY <1>1 DEF CopyInv
  <1>3. whole \in Seq(STRING)
    BY <1>2, ScriptType
  <1> HIDE DEF whole
  <1>4. SubSeq(whole, 1, Len(whole)) = whole
    BY <1>3, SubSeqFull
  <1>5. QED
    BY <1>2, <1>4 DEF CopiedExactly, whole

(* A process that copies a command file ends up with exactly the script,   *)
(* whatever the strings that ConvertCommandToShellScript() writes and the  *)
(* sizes of the reads, and VirtualRead() never panics.                     *)
THEOREM CopyCorrect == FileSystemSpec => []CopiedExactly
  <1>1. FileSystemInit => CopyInv
    BY CopyInitial DEF FileSystemInit
  <1>2. CopyInv /\ [FileSystemNext]_allVars => CopyInv'
    <2>1. SUFFICES ASSUME CopyInv, [FileSystemNext]_allVars
                   PROVE  CopyInv'
      OBVIOUS
    <2>2. CommandNext \/ UNCHANGED commandVars
      BY <2>1 DEF FileSystemNext, Walk, List, Copy, allVars
    <2>3. QED
      BY <2>1, <2>2, CopySteps, CopyUnchanged
  <1>3. QED
    BY <1>1, <1>2, CopiedExactlyFollows, PTL DEF FileSystemSpec
=============================================================================
