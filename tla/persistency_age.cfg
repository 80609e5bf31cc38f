SPECIFICATION Spec
CONSTANTS
    BaseName = {"a"}
    Name = {"a", "a.tmp"}
    TemporaryName <- MCTemporaryName
    Inode = {i1, i2, i3}
    Thread = {t1}
    State <- MCState
    NULL = NULL
    PathID = {p1}
    Artifact = {x1}
    MaxAge = 2
    MaxTime = 2
    Overlap = FALSE
    PowerFails = TRUE
SYMMETRY Symmetry
VIEW View
INVARIANTS
    StateFilesWhole
PROPERTIES
    RestoredIsRecent
