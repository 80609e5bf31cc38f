SPECIFICATION Spec
CONSTANTS
    BaseName = {"a"}
    Name = {"a", "a.tmp"}
    TemporaryName <- MCTemporaryName
    Inode = {i1, i2, i3}
    Thread = {t1, t2}
    State <- MCState
    NULL = NULL
    PathID = {p1, p2}
    Artifact = {x1}
    MaxAge = 1
    MaxTime = 0
    Overlap = TRUE
    PowerFails = FALSE
SYMMETRY Symmetry
INVARIANTS
    OnlyStagedIsShown
