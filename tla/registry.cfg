SPECIFICATION Spec
CONSTANTS
    OutputBase = {ob1, ob2}
    BuildID = {b1, b2}
    PathID = {p1, p2}
    Call = {c1, c2}
    Reader = {r1}
    NULL = NULL
    ROOT = ROOT
SYMMETRY Symmetry
INVARIANTS
    TypeOK
    IndexConsistent
    AdmittedToOwnBuild
    UnregisteredEmptied
    SealedIsTransient
    ListConsistent
    ReadDirComplete
    ReadDirNoDuplicates
    DentryFresh
PROPERTIES
    ChangeIDAdvances
    ImplementsBuildSessions
