-------------------------- MODULE MCPathResolution --------------------------
(* Every path of up to three components is resolved in a few hundred       *)
(* output paths.  In some of them, artifacts are staged in parallel.       *)
EXTENDS PathReference

PathOf(absolute, components) == [absolute |-> absolute, components |-> components]

Components(k) ==
    {c \in [1 .. k -> Name \union {"..", ""}] :
        \A i \in 1 .. k : c[i] = "" => i = k}

Targets ==
    {PathOf(FALSE, <<"b">>), PathOf(FALSE, <<"..", "b">>), PathOf(FALSE, <<"a", "b">>),
     PathOf(TRUE, <<RootName, "a">>), PathOf(TRUE, <<"b">>)}

Leaves == {None, FileEntry("f0")} \union {SymlinkEntry(p) : p \in Targets}

MCTree(a, b, ab, bb) ==
    [d \in Dir |->
       CASE d = Root -> [n \in Name |-> IF n = "a" THEN a ELSE b]
         [] d = "d1" -> IF DirectoryEntry("d1") \in {a, b}
                          THEN [n \in Name |-> IF n = "a" THEN ab ELSE bb]
                          ELSE Empty
         [] OTHER -> Empty]

Trees == {MCTree(a, b, ab, bb) : a \in Leaves \union {DirectoryEntry("d1")},
                                 b, ab, bb \in Leaves}

Stat(paths)         == [kind |-> "stat", requests |-> paths]
Stage(artifacts)    == [kind |-> "stage", requests |-> artifacts]
FileAt(c, f)        == [path |-> PathOf(FALSE, c), type |-> "file", digest |-> f]
TreeAt(c, f)        == [path |-> PathOf(FALSE, c), type |-> "tree", digest |-> f]
Calls(x, y)         == [t \in Thread |-> IF t = "t1" THEN x ELSE y]

StatPaths ==
    {PathOf(FALSE, c) : c \in UNION {Components(k) : k \in 0 .. 3}}
      \union {PathOf(TRUE, <<RootName>> \o c) :
                c \in UNION {Components(k) : k \in 0 .. 1}}
      \union {PathOf(TRUE, <<"a">>), PathOf(TRUE, <<>>)}

StatScenarios ==
    [tree : Trees, calls : {Calls(Stat(<<p>>), Stat(<<>>)) : p \in StatPaths}]

StagePaths == {<<"a">>, <<"b">>, <<"a", "a">>, <<"a", "b">>, <<"b", "..", "a">>,
               <<"a", "..", "..">>, <<"b", "a", "">>}

StageScenarios ==
    [tree : {MCTree(None, None, None, None),
             MCTree(DirectoryEntry("d1"), FileEntry("f0"), None, FileEntry("f0")),
             MCTree(SymlinkEntry(PathOf(FALSE, <<"b">>)), DirectoryEntry("d1"),
                    FileEntry("f0"), None)},
     calls : {Calls(Stage(<<FileAt(p, "f1"), FileAt(q, "f2")>>), c) :
                p, q \in StagePaths,
                c \in {Stage(<<TreeAt(r, "f3")>>) : r \in StagePaths}
                        \union {Stat(<<PathOf(FALSE, <<"a", "b">>),
                                       PathOf(FALSE, <<"b">>)>>),
                                Stage(<<[FileAt(<<"b">>, "f3") EXCEPT
                                           !.path.absolute = TRUE]>>)}}]

MCScenario == StatScenarios \union StageScenarios
=============================================================================
