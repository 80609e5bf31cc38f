SPECIFICATION FileSystemSpec
CONSTANTS
    Name = {1, 2, 3, 4, 5}
    MaxLength = 3
    NULL = NULL
    Strings <- MCStrings
    MaxStrings = 4
    MaxRead = 4
    Component = {"x", "y", "uploads"}
    Reserved = {"uploads"}
    MaxComponents = 2
    Functions <- MCFunctions
    Hash = {"d1", "d2", "d3", "t1", "t2", "e"}
    LengthOf <- MCLengthOf
    HashLength <- MCHashLength
    TreeRoot <- MCTreeRoot
    Directories <- MCDirectories
    Symlinks <- MCSymlinks
    NoNode = NoNode
CHECK_DEADLOCK FALSE
INVARIANTS
    ListedOnce
    LookupAgrees
    CopiedExactly
    HandlesDistinct
    ContentsAgree
