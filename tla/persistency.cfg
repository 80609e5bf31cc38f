SPECIFICATION Spec
CONSTANTS
    BaseName = {"a", "b"}
    Name = {"a", "b", "a.tmp", "b.tmp"}
    TemporaryName <- MCTemporaryName
    Inode = {i1, i2, i3}
    Thread = {t1, t2}
    State <- MCState
    NULL = NULL
    PathID = {p1, p2}
    Artifact = {x1}
    MaxAge = 1
    MaxTime = 0
    Overlap = FALSE
    PowerFails = FALSE
SYMMETRY Symmetry
VIEW View
INVARIANTS
    OnlyStagedIsShown
    SavedStateKept
PROPERTIES
    UsesStoreCorrectly
