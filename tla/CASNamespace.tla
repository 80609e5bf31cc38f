---------------------------- MODULE CASNamespace ----------------------------
(***************************************************************************)
(* The "cas" directory at the top of the mount: nodes for every instance   *)
(* name, digest function and digest, none of which are stored.  Looking up *)
(* a name creates a node, and whether two nodes are the same only follows  *)
(* from the handles they are given.  The handles of directories and        *)
(* symbolic links in the Content Addressable Storage can also be resolved, *)
(* which creates the node once more from its handle.                       *)
(*                                                                         *)
(* A process walks through the directories, while the kernel holds on to   *)
(* one of the nodes the process was at.  It may also walk through a tree   *)
(* that was staged in an output path.                                      *)
(***************************************************************************)
EXTENDS Integers, Sequences

CONSTANTS
    Component,     \* components of instance names
    Reserved,      \* those that instance names cannot contain
    MaxComponents, \* bound: the number of components of instance names
    Functions,     \* digest.SupportedDigestFunctions, a sequence
    Hash,          \* hashes, each with the size of the object
    LengthOf,      \* the length of every hash
    HashLength,    \* the length of the hashes of every digest function
    TreeRoot,      \* the root directory in the Tree message of a hash
    Directories,   \* the child directories in the Directory message of a hash
    Symlinks,      \* the number of symbolic links in it
    NoNode

VARIABLES
    node,      \* the node the process is at
    message,   \* history: the Directory message it should find there, if any
    held       \* a node the kernel holds: its handle, and the values of these

namespaceVars == <<node, message, held>>

Types == <<"command", "directory", "executable", "file", "tree">>
DirectoryTypes == {"directory", "treeRoot", "treeChild"}
MessageTypes   == DirectoryTypes \union {"walker"}

(* Nodes.  A digest includes the instance name and the digest function.    *)
InstanceNode(path)         == [type |-> "instance", path |-> path]
BlobsNode(path)            == [type |-> "blobs", path |-> path]
FunctionNode(path, f)      == [type |-> "function", path |-> path, function |-> f]
ParsingNode(path, f, t)    == [type |-> "parsing", path |-> path, function |-> f,
                               of |-> t]
ObjectNode(t, digest)      == [type |-> t, digest |-> digest]
TreeRootNode(tree)         == [type |-> "treeRoot", digest |-> tree]
TreeChildNode(tree, child) == [type |-> "treeChild", digest |-> tree,
                               child |-> child]
SymlinkNode(parent, i)     == [type |-> "symlink", parent |-> parent, index |-> i]

(* NewTreeDirectoryWalker(): treeChildDirectoryWalker, or, without a child *)
(* digest, treeRootDirectoryWalker.                                        *)
WalkerNode(tree, child) == [type |-> "walker", digest |-> tree, child |-> child]

Digest(path, f, hash) == [path |-> path, function |-> Functions[f], hash |-> hash]

(* All of these.                                                           *)
Path == Seq(Component)
Digests == [path : Path, function : {Functions[f] : f \in DOMAIN Functions},
            hash : Hash]
DirectoryNodes ==
    [type : {"directory", "treeRoot"}, digest : Digests] \union
    [type : {"treeChild"}, digest : Digests, child : Digests]
Nodes ==
    [type : {"instance", "blobs"}, path : Path] \union
    [type : {"function"}, path : Path, function : DOMAIN Functions] \union
    [type : {"parsing"}, path : Path, function : DOMAIN Functions,
     of : DOMAIN Types] \union
    [type : {"command", "executable", "file"}, digest : Digests] \union
    DirectoryNodes \union
    [type : {"walker"}, digest : Digests, child : Digests \union {NoNode}] \union
    [type : {"symlink"}, parent : DirectoryNodes, index : Nat]

(* allocationCounter in main() does not overflow.                          *)
ASSUME NamespaceAssumption ==
    /\ Functions \in Seq(STRING)
    /\ 6 * Len(Functions) + 1 < 256
    /\ LengthOf \in [Hash -> Nat]
    /\ HashLength \in [{Functions[f] : f \in DOMAIN Functions} -> Nat]
    /\ Reserved \subseteq Component
    /\ TreeRoot \in [Hash -> Hash]
    /\ Directories \in [Hash -> Seq(Hash)]
    /\ Symlinks \in [Hash -> Nat]
    /\ NoNode \notin Nodes \union Digests

-----------------------------------------------------------------------------
(* Handles are sequences of tokens.  The first one says which of the calls *)
(* to rootHandleAllocator.New() in main() the handle was derived from.     *)
Byte(b)         == <<"byte", b>>
Text(c)         == <<"text", c>>
Allocator(name) == <<"allocator", name>>
LengthAndPath(path)   == <<"path", path>>
CompactBinary(digest) == <<"digest", digest.function, digest.hash>>

(* instanceNameParsingPath.WriteTo(): "a/b//".                             *)
WriteTo(path) ==
    [i \in 1 .. 2 * Len(path) + 1 |->
       IF i % 2 = 0 \/ i = 2 * Len(path) + 1 THEN Text("/")
       ELSE Text(path[(i + 1) \div 2])]

(* allocateHandle() in main(): the function directories and, in each of    *)
(* them, the directories that parse digests come first.                    *)
AllocateHandle(path, counter) ==
    <<Allocator("blobs"), LengthAndPath(path), Byte(counter % 256)>>

(* ResolvableDigestHandleAllocator.New().                                  *)
DigestHandle(name, digest) ==
    <<Allocator(name), LengthAndPath(digest.path), CompactBinary(digest)>>

(* The handle that NewCASDirectory() is called with.                       *)
DirectoryHandle(n) ==
    CASE n.type = "directory" -> DigestHandle("decomposed", n.digest)
      [] n.type = "treeRoot"  -> Append(DigestHandle("tree", n.digest), Byte(0))
      [] n.type = "treeChild" -> DigestHandle("tree", n.digest)
                                   \o <<Byte(1), CompactBinary(n.child)>>

(* Mutant: symbolic links are numbered from zero.                          *)
EncodedIndexFromZero(i) == Byte(i)

(* createSymlink(): zero is the directory itself.                          *)
EncodedIndex(i) == Byte(i + 1)

NodeHandle(n) ==
    CASE n.type = "instance" -> <<Allocator("cas")>> \o WriteTo(n.path)
      [] n.type = "blobs"    -> AllocateHandle(n.path, 6 * Len(Functions) + 1)
      [] n.type = "function" -> AllocateHandle(n.path, 6 * n.function - 5)
      [] n.type = "parsing"  -> AllocateHandle(n.path, 6 * n.function - 5 + n.of)
      [] n.type = "command"  -> DigestHandle("command", n.digest)
      [] n.type \in {"executable", "file"} ->
           Append(DigestHandle("files", n.digest),
                  Byte(IF n.type = "executable" THEN 1 ELSE 0))
      [] n.type \in DirectoryTypes -> Append(DirectoryHandle(n), Byte(0))
      [] n.type = "symlink"  -> Append(DirectoryHandle(n.parent),
                                       EncodedIndex(n.index))

(* GetDirectoryContents() and, for walkers, GetDirectory(): the hash of    *)
(* the message that is loaded.                                             *)
GetDirectoryContents(n) ==
    CASE n.type = "directory" -> n.digest.hash
      [] n.type = "treeRoot"  -> TreeRoot[n.digest.hash]
      [] n.type = "treeChild" -> n.child.hash
      [] n.type = "walker"    -> IF n.child = NoNode THEN TreeRoot[n.digest.hash]
                                 ELSE n.child.hash

(* casDirectory.resolveHandle() of the directory n.                        *)
ResolveInDirectory(n, r) ==
    IF r = <<>> THEN NoNode
    ELSE IF Head(r)[2] = 0 THEN n
    ELSE IF Head(r)[2] - 1 < Symlinks[GetDirectoryContents(n)]
      THEN SymlinkNode(n, Head(r)[2] - 1)
    ELSE NoNode

(* NewDigestFromCompactBinary().                                           *)
ReadDigest(path, token) == [path |-> path, function |-> token[2], hash |-> token[3]]

(* Mutant: the digest of a child is not parsed.                            *)
ResolveTreeAsRoot(tree, r) ==
    IF r = <<>> THEN NoNode
    ELSE ResolveInDirectory(TreeRootNode(tree), SubSeq(r, Len(r), Len(r)))

(* treeCASDirectoryContext.resolve().                                      *)
ResolveTree(tree, r) ==
    IF r = <<>> THEN NoNode
    ELSE CASE Head(r) = Byte(0) -> ResolveInDirectory(TreeRootNode(tree), Tail(r))
           [] Head(r) = Byte(1) /\ Len(r) > 1 ->
                ResolveInDirectory(TreeChildNode(tree, ReadDigest(tree.path, r[2])),
                              SubSeq(r, 3, Len(r)))
           [] OTHER -> NoNode

(* The factory for whose allocator the handle was created resolves it.     *)
Resolve(handle) ==
    LET digest    == ReadDigest(handle[2][2], handle[3])
        remainder == SubSeq(handle, 4, Len(handle))
    IN  CASE handle[1] = Allocator("decomposed") ->
               ResolveInDirectory(ObjectNode("directory", digest), remainder)
          [] handle[1] = Allocator("tree") -> ResolveTree(digest, remainder)
          [] handle[1] = Allocator("command") -> ObjectNode("command", digest)

Resolvable(n) == n.type \in DirectoryTypes \union {"symlink", "command"}

-----------------------------------------------------------------------------
NothingHeld == [handle |-> <<>>, node |-> NoNode, message |-> NoNode]

NamespaceInit ==
    /\ node = InstanceNode(<<>>)
    /\ message = NoNode
    /\ held = NothingHeld

Go(n, m) == node' = n /\ message' = m /\ UNCHANGED held

(* instanceNameParsingDirectory.VirtualLookup().                           *)
LookupComponent(c) ==
    /\ node.type = "instance"
    /\ Len(node.path) < MaxComponents
    /\ Go(InstanceNode(Append(node.path, c)), NoNode)

(* Its reserved keyword "blobs".  Instance names cannot contain others.    *)
LookupBlobs ==
    /\ node.type = "instance"
    /\ \A i \in DOMAIN node.path : node.path[i] \notin Reserved
    /\ Go(BlobsNode(node.path), NoNode)

(* The static directories that blobsDirectoryLookupFunc() creates.         *)
LookupStatic ==
    \/ /\ node.type = "blobs"
       /\ \E f \in DOMAIN Functions : Go(FunctionNode(node.path, f), NoNode)
    \/ /\ node.type = "function"
       /\ \E t \in DOMAIN Types :
             Go(ParsingNode(node.path, node.function, t), NoNode)

(* digestParsingDirectory.parseFilename(): a filename has a dash, the last *)
(* one of which is followed by a number, and starts with a hash.  Any hash *)
(* of the right length is accepted, also one that was computed with        *)
(* another digest function that has hashes of this length.                 *)
ParseFilename(name) ==
    /\ name.dash
    /\ name.number
    /\ LengthOf[name.hash] = HashLength[Functions[node.function]]

Filename == [dash : BOOLEAN, number : BOOLEAN, hash : Hash]

(* digestParsingDirectory.VirtualLookup(), and the lookupFuncs of main().  *)
LookupDigest(name) ==
    /\ node.type = "parsing"
    /\ ParseFilename(name)
    /\ LET digest == Digest(node.path, node.function, name.hash)
       IN  CASE Types[node.of] = "tree" ->
                  Go(TreeRootNode(digest), TreeRoot[name.hash])
             [] Types[node.of] = "directory" ->
                  Go(ObjectNode("directory", digest), name.hash)
             [] OTHER -> Go(ObjectNode(Types[node.of], digest), NoNode)

(* StageArtifacts() of a tree.  Bazel may know the digest of its root.     *)
StageTree(hash, known) ==
    /\ node.type = "function"
    /\ LengthOf[hash] = HashLength[Functions[node.function]]
    /\ LET tree == Digest(node.path, node.function, hash)
       IN  Go(WalkerNode(tree, IF known THEN [tree EXCEPT !.hash = TreeRoot[hash]]
                               ELSE NoNode),
              TreeRoot[hash])

(* LookupDirectory() of the directory context, and GetChild() of a walker. *)
LookupDirectory(n, digest) ==
    CASE n.type = "directory" -> ObjectNode("directory", digest)
      [] n.type \in {"treeRoot", "treeChild"} -> TreeChildNode(n.digest, digest)
      [] n.type = "walker" -> WalkerNode(n.digest, digest)

(* casDirectory.VirtualLookup() of a directory or of a symbolic link.      *)
LookupChildDirectory ==
    /\ node.type \in MessageTypes
    /\ \E i \in DOMAIN Directories[GetDirectoryContents(node)] :
         LET child == [node.digest EXCEPT
                         !.hash = Directories[GetDirectoryContents(node)][i]]
         IN  Go(LookupDirectory(node, child), Directories[message][i])

LookupSymlink ==
    /\ node.type \in DirectoryTypes
    /\ \E i \in 0 .. Symlinks[GetDirectoryContents(node)] - 1 :
         Go(SymlinkNode(node, i), message)

(* The process starts at the top again, and the kernel may keep the node   *)
(* it was at.                                                              *)
Return ==
    /\ node' = InstanceNode(<<>>)
    /\ message' = NoNode
    /\ \/ UNCHANGED held
       \/ /\ node.type # "walker"
          /\ held' = [handle |-> NodeHandle(node), node |-> node,
                      message |-> message]

(* The process uses what the kernel holds, for which its handle has to be  *)
(* resolved.                                                               *)
UseHandle ==
    /\ held # NothingHeld
    /\ Resolvable(held.node)
    /\ Go(Resolve(held.handle), held.message)

NamespaceNext ==
    \/ \E c \in Component : LookupComponent(c)
    \/ LookupBlobs
    \/ LookupStatic
    \/ \E name \in Filename : LookupDigest(name)
    \/ \E hash \in Hash, known \in BOOLEAN : StageTree(hash, known)
    \/ LookupChildDirectory
    \/ LookupSymlink
    \/ Return
    \/ UseHandle

-----------------------------------------------------------------------------
(* The kernel takes two nodes for the same one, because their handles are, *)
(* only if they are: the same directory, file or link of the same instance *)
(* name and digest function, however the process has got there.            *)
HandlesDistinct ==
    held # NothingHeld /\ node # NoNode /\ node.type # "walker" =>
        (held.handle = NodeHandle(node) <=> held.node = node)

(* The contents that a process finds in a directory are those that the     *)
(* message in the storage says are there, also in a tree, in which every   *)
(* directory is part of the same object, and if handles were resolved on   *)
(* the way.                                                                *)
ContentsAgree ==
    /\ node # NoNode
    /\ node.type \in MessageTypes => GetDirectoryContents(node) = message
    /\ node.type = "symlink" => GetDirectoryContents(node.parent) = message
=============================================================================
