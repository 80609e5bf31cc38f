---------------------------- MODULE CASDirectory ----------------------------
(***************************************************************************)
(* A read-only directory that is backed by a Directory message in the      *)
(* Content Addressable Storage.  The message consists of three lists, each *)
(* sorted by name.                                                         *)
(*                                                                         *)
(* A process lists the directory with any number of VirtualReadDir()       *)
(* requests, and looks up names.  Nothing is kept between requests but the *)
(* cookie and file handles the process has: every request loads the        *)
(* message anew.  The reply of a request that fails is discarded.          *)
(***************************************************************************)
EXTENDS Naturals, Sequences, FiniteSetsExt

CONSTANTS
    Name,       \* names, as integers to have an order
    MaxLength,  \* bound: the length of each of the lists
    NULL

ASSUME CASDirectoryAssumption ==
    /\ Name \subseteq Nat
    /\ MaxLength \in Nat
    /\ NULL \notin [kind : 1 .. 3, index : Nat]

Kinds == <<"directory", "file", "symlink">>

VARIABLES
    lists,     \* the message: a list of names for every kind
    pc,        \* the progress of the listing
    cookie,    \* the cookie that the next request starts at
    kind,      \* VirtualReadDir(): which of the three loops is running
    i,         \* VirtualReadDir(): i
    base,      \* VirtualReadDir(): nextCookieOffset
    reply,     \* the children in the reply, and the cookies after them
    reported   \* history: the children in replies the process received

vars == <<lists, pc, cookie, kind, i, base, reply, reported>>

Sorted(s) == \A j, k \in DOMAIN s : j < k => s[j] < s[k]
SortedList == {s \in UNION {[1 .. n -> Name] : n \in 0 .. MaxLength} : Sorted(s)}

(* Names are unique in valid messages.                                     *)
Valid(l) == \A j, k \in 1 .. 3 : j # k => Range(l[j]) \intersect Range(l[k]) = {}

Init ==
    /\ lists \in {l \in [1 .. 3 -> SortedList] : Valid(l)}
    /\ pc = "open"
    /\ cookie = 0
    /\ kind = 1
    /\ i = 0
    /\ base = 1
    /\ reply = <<>>
    /\ reported = <<>>

-----------------------------------------------------------------------------
(* A request comes in, and GetDirectoryContents() succeeds.                *)
VirtualReadDir ==
    /\ pc = "open"
    /\ pc' = "reading"
    /\ kind' = 1
    /\ i' = cookie
    /\ base' = 1
    /\ reply' = <<>>
    /\ UNCHANGED <<lists, cookie, reported>>

(* GetDirectoryContents() fails, or an entry is malformed.                 *)
VirtualReadDirFails ==
    /\ pc = "reading"
    /\ pc' = "open"
    /\ UNCHANGED <<lists, cookie, kind, i, base, reply, reported>>

(* Mutant: the cookie counts from the start of the loop.                   *)
ReportEntryRelative ==
    /\ pc = "reading"
    /\ i < Len(lists[kind])
    /\ reply' = Append(reply, [child  |-> [kind |-> kind, index |-> i],
                               cookie |-> 1 + i])
    /\ i' = i + 1
    /\ UNCHANGED <<lists, pc, cookie, kind, base, reported>>

(* ReportEntry() accepts an entry.                                         *)
ReportEntry ==
    /\ pc = "reading"
    /\ i < Len(lists[kind])
    /\ reply' = Append(reply, [child  |-> [kind |-> kind, index |-> i],
                               cookie |-> base + i])
    /\ i' = i + 1
    /\ UNCHANGED <<lists, pc, cookie, kind, base, reported>>

(* The process receives the reply, and continues after its last entry.  An *)
(* empty reply that is not due to a lack of space ends the listing.        *)
Receive(last) ==
    /\ reported' = reported \o [j \in DOMAIN reply |-> reply[j].child]
    /\ cookie' = IF reply = <<>> THEN cookie ELSE reply[Len(reply)].cookie
    /\ pc' = IF last /\ reply = <<>> THEN "end" ELSE "open"
    /\ UNCHANGED <<lists, kind, i, base, reply>>

(* ReportEntry() has no space left.                                        *)
ReportEntryFull ==
    /\ pc = "reading"
    /\ i < Len(lists[kind])
    /\ Receive(FALSE)

(* The next of the three loops begins.                                     *)
NextLoop ==
    /\ pc = "reading"
    /\ i >= Len(lists[kind])
    /\ kind < 3
    /\ kind' = kind + 1
    /\ i' = i - Len(lists[kind])
    /\ base' = base + Len(lists[kind])
    /\ UNCHANGED <<lists, pc, cookie, reply, reported>>

VirtualReadDirEnd ==
    /\ pc = "reading"
    /\ i >= Len(lists[kind])
    /\ kind = 3
    /\ Receive(TRUE)

Next ==
    \/ VirtualReadDir
    \/ VirtualReadDirFails
    \/ ReportEntry
    \/ ReportEntryFull
    \/ NextLoop
    \/ VirtualReadDirEnd

Spec == Init /\ [][Next]_vars

-----------------------------------------------------------------------------
(* sort.Search(): the first index whose name is not smaller, by bisection. *)
(* [lo, hi) is what remains after k halvings.                              *)
Halve(s, n, r) ==
    LET h == (r.lo + r.hi) \div 2
    IN  IF r.lo >= r.hi THEN r
        ELSE IF s[h + 1] >= n THEN [lo |-> r.lo, hi |-> h]
        ELSE [lo |-> h + 1, hi |-> r.hi]

Search(s, n) ==
    LET step[k \in 0 .. Len(s)] == IF k = 0 THEN [lo |-> 0, hi |-> Len(s)]
                                   ELSE Halve(s, n, step[k - 1])
    IN  step[Len(s)].lo

(* Mutant: the name that was found is not compared.                        *)
MatchesFirst(s, n) == Search(s, n) < Len(s)

Matches(s, n) == Search(s, n) < Len(s) /\ s[Search(s, n) + 1] = n

(* VirtualLookup(): the lists are searched one after the other.            *)
VirtualLookup(n) ==
    LET found == {k \in 1 .. 3 : Matches(lists[k], n)}
    IN  IF found = {} THEN NULL
        ELSE [kind |-> Min(found), index |-> Search(lists[Min(found)], n)]

(* VirtualOpenChild(): what open() does, given whether it may open an      *)
(* existing file and may create a new one.                                 *)
VirtualOpenChild(n, existing, create) ==
    LET child == VirtualLookup(n)
    IN  IF child = NULL
          THEN IF create THEN "ErrROFS" ELSE "ErrNoEnt"
          ELSE IF ~existing THEN "ErrExist"
          ELSE CASE Kinds[child.kind] = "directory" -> "ErrIsDir"
                 [] Kinds[child.kind] = "file"      -> "OK"
                 [] Kinds[child.kind] = "symlink"   -> "ErrSymlink"

(* The suffixes of the file handles of the directory itself and of the     *)
(* symbolic links in it.                                                   *)
Self == [kind |-> 0, index |-> 0]
HandleOf(child) == IF child = Self THEN 0 ELSE child.index + 1

ResolveHandle(handle) ==
    IF handle = 0 THEN Self
    ELSE IF handle - 1 >= Len(lists[3]) THEN NULL
    ELSE [kind |-> 3, index |-> handle - 1]

-----------------------------------------------------------------------------
NameOf(child) == lists[child.kind][child.index + 1]

Everything == UNION {{[kind |-> k, index |-> j - 1] : j \in DOMAIN lists[k]} :
                       k \in 1 .. 3}

(* A process is told about every child exactly once by VirtualReadDir(),   *)
(* no matter how the listing is divided into requests, at the end of which *)
(* of the three loops a request stops, and which requests fail.            *)
ListedOnce ==
    /\ \A j, k \in DOMAIN reported : j # k => reported[j] # reported[k]
    /\ pc = "end" => Range(reported) = Everything

(* What is listed can be looked up, by name and, if it is a symbolic link, *)
(* by file handle.  What is not listed is not found.                       *)
LookupAgrees ==
    /\ \A j \in DOMAIN reported :
          LET child == reported[j]
          IN  /\ VirtualLookup(NameOf(child)) = child
              /\ VirtualOpenChild(NameOf(child), TRUE, FALSE) = "OK"
                   <=> Kinds[child.kind] = "file"
              /\ Kinds[child.kind] = "symlink" =>
                   ResolveHandle(HandleOf(child)) = child
    /\ pc = "end" =>
          \A n \in Name \ {NameOf(child) : child \in Range(reported)} :
              /\ VirtualLookup(n) = NULL
              /\ VirtualOpenChild(n, TRUE, FALSE) = "ErrNoEnt"
=============================================================================
