--------------------------- MODULE PathResolution ---------------------------
(***************************************************************************)
(* How StageArtifacts() and BatchStat() of the Bazel Output Service        *)
(* resolve paths in an output path, while other calls do the same.         *)
(*                                                                         *)
(* path.Resolve() hands one component at a time to a component walker,     *)
(* which holds on to a stack of directories.  Each component is an action, *)
(* as calls run in parallel.  StageArtifacts() creates the directories     *)
(* that are missing, and replaces whatever else is in its way.  BatchStat()*)
(* creates nothing, but follows symbolic links.                            *)
(*                                                                         *)
(* A path is a sequence of components, of which an empty one at the end    *)
(* stands for a trailing slash, and whether it is absolute.                *)
(***************************************************************************)
EXTENDS Naturals, Sequences, FiniteSets

CONSTANTS
    Name,       \* file names
    Dir,        \* directory objects
    Root,       \* the root directory of the output path
    RootName,   \* the path of the output path, as a single component
    MaxLinks,   \* the number of symbolic links that are followed
    Thread,
    Scenario    \* contents of the output path, and calls for every thread

VARIABLES
    scenario,   \* the initial contents, and the calls that are made
    tree,       \* the contents of every directory
    call        \* the progress of every call

vars == <<scenario, tree, call>>

(* What a name in a directory refers to.                                   *)
None              == [type |-> "none"]
DirectoryEntry(d) == [type |-> "directory", dir |-> d]
FileEntry(f)      == [type |-> "file", digest |-> f]
SymlinkEntry(p)   == [type |-> "symlink", target |-> p]

(* What BatchStat() may report besides files and symbolic links.           *)
Missing   == [type |-> "missing"]
Directory == [type |-> "directory"]
Unknown   == [type |-> "unknown"]
Error     == [type |-> "error"]
IOError   == [type |-> "I/O error"]

Empty == [n \in Name |-> None]

Path == [absolute : BOOLEAN, components : Seq(STRING)]

Entry ==
    {None} \union [type : {"directory"}, dir : Dir]
           \union [type : {"file"}, digest : STRING]
           \union [type : {"symlink"}, target : Path]

Artifact == [path : Path, type : {"file", "tree"}, digest : STRING]

(* Directories that are part of tr.  Those that are not were removed.      *)
Subdirectories(tr, d) ==
    {tr[d][n].dir : n \in {m \in Name : tr[d][m].type = "directory"}}

Linked(tr) ==
    {d \in Dir : \A S \in SUBSET Dir :
        Root \in S /\ (\A e \in S : Subdirectories(tr, e) \subseteq S) => d \in S}

(* Every directory is in one place, and directories that were removed are  *)
(* empty.                                                                  *)
IsTree(tr) ==
    /\ tr \in [Dir -> [Name -> Entry]]
    /\ \A d \in Dir \ Linked(tr) : tr[d] = Empty
    /\ \A d, e \in Dir, m, n \in Name :
          tr[d][m].type = "directory" /\ tr[d][m] = tr[e][n] => d = e /\ m = n
    /\ \A d \in Dir, n \in Name : tr[d][n] # DirectoryEntry(Root)

ASSUME PathAssumption ==
    /\ Root \in Dir
    /\ Name \in SUBSET (STRING \ {"", ".."})
    /\ MaxLinks \in Nat
    /\ \A tr \in {s.tree : s \in Scenario} : IsTree(tr)
    /\ \A c \in UNION {{s.calls[t] : t \in Thread} : s \in Scenario} :
          c \in [kind : {"stat"}, requests : Seq(Path)]
               \union [kind : {"stage"}, requests : Seq(Artifact)]

(* Directory objects to which nothing refers.                              *)
Fresh ==
    {d \in Dir \ Linked(tree) :
        \A t \in Thread : \A k \in DOMAIN call[t].stack : call[t].stack[k] # d}

NewDirectory == CHOOSE d \in Fresh : TRUE

(* The progress of a call: "requests" are the artifacts or paths that      *)
(* remain, "todo" the components that remain of the first of them, and     *)
(* "stack" the directories that were entered, empty if resolution has left *)
(* the output path.  "undisturbed" is whether the output path has remained *)
(* the same since the call began.                                          *)
NewCall(kind, requests) ==
    [kind        |-> kind,
     pc          |-> "next",
     requests    |-> requests,
     responses   |-> <<>>,
     todo        |-> <<>>,
     stack       |-> <<Root>>,
     stat        |-> Unknown,
     links       |-> 0,
     undisturbed |-> TRUE]

Init ==
    \E s \in Scenario :
        /\ scenario = s
        /\ tree = s.tree
        /\ call = [t \in Thread |-> NewCall(s.calls[t].kind,
                                            s.calls[t].requests)]

At(t, kind, pc) == call[t].kind = kind /\ call[t].pc = pc
Component(t)    == Head(call[t].todo)
IsTerminal(t)   == Len(call[t].todo) = 1
Top(t)          == call[t].stack[Len(call[t].stack)]
Request(t)      == Head(call[t].requests)

(* LookupChild() in the current directory.  There is nothing in one that   *)
(* was removed.                                                            *)
Child(t) == tree[Top(t)][Component(t)]

(* The output path becomes tr.  Directories that are no longer part of it  *)
(* are emptied.                                                            *)
Update(t, tr, c) ==
    /\ LET linked == Linked(tr)
       IN  tree' = [d \in Dir |-> IF d \in linked THEN tr[d] ELSE Empty]
    /\ call' = [u \in Thread |->
                  IF u = t THEN c
                  ELSE [call[u] EXCEPT !.undisturbed = @ /\ tree' = tree]]
    /\ UNCHANGED scenario

Continue(t, c) == call' = [call EXCEPT ![t] = c] /\ UNCHANGED <<scenario, tree>>

(* The call c with one more response.                                      *)
Responded(c, r) ==
    [c EXCEPT !.pc = "next", !.requests = Tail(@), !.responses = Append(@, r)]

(* Resolution of the first of the remaining requests begins.               *)
BeginPath(t, p, stack) ==
    [call[t] EXCEPT !.pc = "walk", !.todo = p, !.stack = stack,
                    !.stat = Unknown, !.links = 0]

Finished(t) == call[t].pc = "next" /\ call[t].requests = <<>>

(* Components that name no directory entry.                                *)
SkipDot(t) ==
    /\ call[t].pc = "walk"
    /\ call[t].todo # <<>>
    /\ Component(t) = ""
    /\ Continue(t, [call[t] EXCEPT !.todo = Tail(@)])

Walking(t) == /\ call[t].pc = "walk"
              /\ call[t].todo # <<>>
              /\ call[t].stack # <<>>

AtName(t) == Walking(t) /\ Component(t) \in Name
AtUp(t)   == Walking(t) /\ Component(t) = ".."

Push(t, d) == [call[t] EXCEPT !.todo = Tail(@), !.stack = Append(@, d)]
Pop(t)     == [call[t] EXCEPT !.todo = Tail(@),
                              !.stack = SubSeq(@, 1, Len(@) - 1)]

-----------------------------------------------------------------------------
(* StageArtifacts().  Absolute paths are refused.                          *)
StageSingleArtifact(t) ==
    /\ At(t, "stage", "next")
    /\ call[t].requests # <<>>
    /\ Continue(t, IF Request(t).path.absolute
                     THEN Responded(call[t], "error")
                     ELSE BeginPath(t, Request(t).path.components, <<Root>>))

(* A new directory takes the place of what has the name of the component.  *)
CreateAndEnter(t) ==
    /\ Fresh # {}
    /\ LET d == NewDirectory
       IN  Update(t, [tree EXCEPT ![Top(t)][Component(t)] = DirectoryEntry(d)],
                  Push(t, d))

(* Mutant: a directory that is in the way is replaced too.                 *)
StageOnDirectoryAnew(t) ==
    /\ AtName(t)
    /\ call[t].kind = "stage"
    /\ ~IsTerminal(t)
    /\ Top(t) \in Linked(tree)
    /\ CreateAndEnter(t)

(* parentDirectoryCreatingComponentWalker.OnDirectory(): CreateAndEnter-   *)
(* PrepopulatedDirectory() enters the directory of that name.  If there is *)
(* none, it creates one.                                                   *)
StageOnDirectory(t) ==
    /\ AtName(t)
    /\ call[t].kind = "stage"
    /\ ~IsTerminal(t)
    /\ Top(t) \in Linked(tree)
    /\ IF Child(t).type = "directory"
         THEN Continue(t, Push(t, Child(t).dir))
         ELSE CreateAndEnter(t)

(* Mutant: OnUp() remains where it is.                                     *)
StageOnUpStays(t) ==
    /\ AtUp(t)
    /\ call[t].kind = "stage"
    /\ Continue(t, [call[t] EXCEPT !.todo = Tail(@)])

(* OnUp(): paths that leave the output path are refused.                   *)
StageOnUp(t) ==
    /\ AtUp(t)
    /\ call[t].kind = "stage"
    /\ Continue(t, IF Len(call[t].stack) > 1 THEN Pop(t)
                   ELSE Responded(call[t], "error"))

(* The path has no name at the end, a directory has been removed by        *)
(* another call or cannot be loaded, or the locator turns out to be        *)
(* invalid once the path has been resolved.                                *)
StageFails(t) ==
    /\ At(t, "stage", "walk")
    /\ call[t].todo = <<>> \/ AtName(t)
    /\ Continue(t, Responded(call[t], "error"))

(* CreateChildren() replaces what is there by a file.                      *)
StageFile(t) ==
    /\ AtName(t)
    /\ At(t, "stage", "walk")
    /\ IsTerminal(t)
    /\ Request(t).type = "file"
    /\ Top(t) \in Linked(tree)
    /\ Update(t, [tree EXCEPT ![Top(t)][Component(t)] =
                                FileEntry(Request(t).digest)],
              Responded(call[t], "OK"))

(* CreateChildren() replaces what is there by a directory, the contents of *)
(* which come from the storage.                                            *)
StageTree(t) ==
    /\ AtName(t)
    /\ At(t, "stage", "walk")
    /\ IsTerminal(t)
    /\ Request(t).type = "tree"
    /\ Top(t) \in Linked(tree)
    /\ Fresh # {}
    /\ LET d == NewDirectory
       IN  Update(t, [tree EXCEPT
                        ![Top(t)][Component(t)] = DirectoryEntry(d),
                        ![d] = [n \in Name |-> FileEntry(Request(t).digest)]],
                  Responded(call[t], "OK"))

-----------------------------------------------------------------------------
(* BatchStat().  An absolute path is relative to the root directory if it  *)
(* starts with the path of the output path, and refers to something else   *)
(* if it does not.                                                         *)
Absolute(c, components) ==
    IF components # <<>> /\ Head(components) = RootName
      THEN [c EXCEPT !.todo = Tail(components), !.stack = <<Root>>,
                     !.stat = Directory]
      ELSE [c EXCEPT !.todo = <<>>, !.stack = <<>>]

Relative(c, components) ==
    [c EXCEPT !.todo = components, !.stat = Directory]

Scope(c, absolute, components) ==
    IF absolute THEN Absolute(c, components) ELSE Relative(c, components)

StatBegin(t) ==
    /\ At(t, "stat", "next")
    /\ call[t].requests # <<>>
    /\ Continue(t, Scope(BeginPath(t, <<>>, <<Root>>), Request(t).absolute,
                         Request(t).components))

(* The whole call fails.                                                   *)
Failed(t, error) ==
    [call[t] EXCEPT !.pc = "next", !.requests = <<>>, !.responses = <<error>>]

(* Mutant: what the target is relative to is lost.                         *)
FollowFromRoot(t, target) ==
    Scope([call[t] EXCEPT !.stat = Unknown, !.links = @ + 1, !.stack = <<Root>>],
          target.absolute, target.components \o Tail(call[t].todo))

(* GotSymlink: the target takes the place of the component.                *)
Follow(t, target) ==
    Scope([call[t] EXCEPT !.stat = Unknown, !.links = @ + 1],
          target.absolute, target.components \o Tail(call[t].todo))

(* statWalker.OnDirectory().                                               *)
StatOnDirectory(t) ==
    /\ AtName(t)
    /\ call[t].kind = "stat"
    /\ ~IsTerminal(t)
    /\ LET child == Child(t) IN
       Continue(t,
         CASE child.type = "none"      -> Responded(call[t], Missing)
           [] child.type = "directory" -> Push(t, child.dir)
           [] child.type = "file"      -> Failed(t, Error)
           [] child.type = "symlink"   ->
                IF call[t].links < MaxLinks THEN Follow(t, child.target)
                ELSE Failed(t, Error))

(* statWalker.OnTerminal(): symbolic links are not followed.               *)
StatOnTerminal(t) ==
    /\ AtName(t)
    /\ call[t].kind = "stat"
    /\ IsTerminal(t)
    /\ LET child == Child(t) IN
       Continue(t,
         CASE child.type = "none"      -> Responded(call[t], Missing)
           [] child.type = "directory" -> Push(t, child.dir)
           [] OTHER -> [call[t] EXCEPT !.todo = <<>>, !.stat = child])

(* statWalker.OnUp(): what is above the output path is not known.          *)
StatOnUp(t) ==
    /\ AtUp(t)
    /\ call[t].kind = "stat"
    /\ Continue(t, IF Len(call[t].stack) > 1 THEN Pop(t)
                   ELSE [call[t] EXCEPT !.todo = <<>>, !.stack = <<>>,
                                        !.stat = Unknown])

StatEnd(t) ==
    /\ At(t, "stat", "walk")
    /\ call[t].todo = <<>>
    /\ Continue(t, Responded(call[t], call[t].stat))

(* The contents of a directory cannot be loaded, or those of a file cannot *)
(* be hashed.                                                              *)
StatFails(t) ==
    /\ AtName(t)
    /\ call[t].kind = "stat"
    /\ Continue(t, Failed(t, IOError))

-----------------------------------------------------------------------------
Terminated == (\A t \in Thread : Finished(t)) /\ UNCHANGED vars

Next ==
    \/ \E t \in Thread :
          \/ SkipDot(t)
          \/ StageSingleArtifact(t)
          \/ StageOnDirectory(t)
          \/ StageOnUp(t)
          \/ StageFails(t)
          \/ StageFile(t)
          \/ StageTree(t)
          \/ StatBegin(t)
          \/ StatOnDirectory(t)
          \/ StatOnTerminal(t)
          \/ StatOnUp(t)
          \/ StatEnd(t)
          \/ StatFails(t)
    \/ Terminated

Spec == Init /\ [][Next]_vars
=============================================================================
