--------------------------- MODULE PathReference ---------------------------
(***************************************************************************)
(* What StageArtifacts() and BatchStat() are supposed to do, defined on    *)
(* complete output paths and independently of component walkers.           *)
(***************************************************************************)
EXTENDS PathResolution

CONSTANT MaxDepth   \* bound: the depth of the places that are compared

ASSUME DepthAssumption == MaxDepth \in Nat

(* The result of lstat() in tr.  A path is resolved one component at a     *)
(* time, from left to right.  The functions give the result for what       *)
(* follows: "next" for the components after this one, by directory, and    *)
(* "follow" for any components, with one symbolic link less.               *)
Parent(tr, d) == CHOOSE e \in Dir : \E n \in Name : tr[e][n] = DirectoryEntry(d)

StatScope(d, absolute, components, stat) ==
    IF ~absolute THEN stat[<<d, components>>]
    ELSE IF components # <<>> /\ Head(components) = RootName
      THEN stat[<<Root, Tail(components)>>]
      ELSE Unknown

StatComponent(tr, d, c, rest, links, next, follow) ==
    LET entry == tr[d][c]
    IN  CASE c = "" -> next[d]
          [] c = ".." -> IF d = Root THEN Unknown ELSE next[Parent(tr, d)]
          [] c \in Name /\ entry = None -> Missing
          [] c \in Name /\ entry.type = "directory" -> next[entry.dir]
          [] c \in Name /\ entry.type \in {"file", "symlink"} ->
               IF rest = <<>> THEN entry
               ELSE IF entry.type = "file" \/ links = 0 THEN Error
               ELSE StatScope(d, entry.target.absolute,
                              entry.target.components \o rest, follow)

(* The components of c from the i-th on.                                   *)
From(c, i) == SubSeq(c, i, Len(c))

(* The last k components of c, starting in any directory.                  *)
StatLast(tr, c, links, follow) ==
    LET last[k \in 0 .. Len(c)] ==
            IF k = 0 THEN [d \in Dir |-> Directory]
            ELSE [d \in Dir |->
                    StatComponent(tr, d, c[Len(c) - k + 1], From(c, Len(c) - k + 2),
                                  links, last[k - 1], follow)]
    IN  last

StatAll(tr, links, follow) ==
    [x \in Dir \X Seq(STRING) |->
        StatLast(tr, x[2], links, follow)[Len(x[2])][x[1]]]

StatWithLinks(tr, links) ==
    LET stat[l \in 0 .. links] ==
            IF l = 0 THEN StatAll(tr, 0, <<>>) ELSE StatAll(tr, l, stat[l - 1])
    IN  stat[links]

StatPath(tr, p, links) ==
    StatScope(Root, p.absolute, p.components, StatWithLinks(tr, links))

(* What BatchStat() responds: one path that cannot be resolved makes the   *)
(* whole call fail.                                                        *)
BatchStat(paths) ==
    LET stats == [i \in DOMAIN paths |-> StatPath(tree, paths[i], MaxLinks)]
    IN  IF \E i \in DOMAIN stats : stats[i] = Error THEN <<Error>> ELSE stats

(* The place that the first i components of a path lead to, if they are    *)
(* all directories.                                                        *)
Place(p) ==
    LET c == p.components
        place[i \in 0 .. Len(c)] ==
            IF i = 0 THEN <<>>
            ELSE LET before == place[i - 1] IN
                 CASE c[i] = "" -> before
                   [] c[i] = ".." -> SubSeq(before, 1, Len(before) - 1)
                   [] OTHER -> Append(before, c[i])
    IN  place

(* The directories that staging p goes through, and the place that it      *)
(* creates.                                                                *)
Visited(p)  == {Place(p)[i] : i \in 0 .. Len(p.components) - 1}
Location(p) == Place(p)[Len(p.components)]

IsPrefix(s, u) == Len(s) <= Len(u) /\ SubSeq(u, 1, Len(s)) = s

(* Whether staging q may remove what is at a place.                        *)
Displaces(q, place) == place \in Visited(q) \/ IsPrefix(Location(q), place)

(* All artifacts: the position of a request, and the request.              *)
Artifacts ==
    UNION {{<<t, i, scenario.calls[t].requests[i]>> :
               i \in DOMAIN scenario.calls[t].requests} :
             t \in {u \in Thread : scenario.calls[u].kind = "stage"}}

(* What is at a place in tr.                                               *)
EntryAt(tr, place) ==
    LET entry[i \in 1 .. Len(place)] ==
            IF i = 1 THEN tr[Root][place[1]]
            ELSE IF entry[i - 1].type = "directory"
              THEN tr[entry[i - 1].dir][place[i]]
              ELSE None
    IN  entry[Len(place)]

-----------------------------------------------------------------------------
(* BatchStat() reports what lstat() does, with symbolic links that are     *)
(* relative, absolute, dangling or cyclic, paths that go up through them,  *)
(* and trailing slashes; it never claims to know what is outside.          *)
StatAgrees ==
    \A t \in Thread :
        Finished(t) /\ call[t].kind = "stat" /\ call[t].undisturbed =>
            call[t].responses \in {BatchStat(scenario.calls[t].requests), <<IOError>>}

(* An artifact that StageArtifacts() reported to be staged is found under  *)
(* its path, no matter which other artifacts are staged at the same time,  *)
(* as long as none of them is meant to take its place.                     *)
StagedIsFound ==
    \A a \in Artifacts :
        LET path == a[3].path IN
        /\ a[2] \in DOMAIN call[a[1]].responses
        /\ call[a[1]].responses[a[2]] = "OK"
        /\ \A b \in Artifacts :
              /\ b # a => ~Displaces(b[3].path, Location(path))
              /\ Location(b[3].path) \notin Visited(path)
        => StatPath(tree, path, MaxLinks) =
             IF a[3].type = "file" THEN FileEntry(a[3].digest) ELSE Directory

(* Staging leaves everything alone that is not in its way, also if it ends *)
(* up being refused half-way.                                              *)
OthersKept ==
    \A place \in UNION {[1 .. k -> Name] : k \in 1 .. MaxDepth} :
        /\ EntryAt(scenario.tree, place).type \in {"file", "symlink"}
        /\ \A a \in Artifacts : ~Displaces(a[3].path, place)
        => EntryAt(tree, place) = EntryAt(scenario.tree, place)
=============================================================================
