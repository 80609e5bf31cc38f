SPECIFICATION Spec
CONSTANTS
    File = {"x", "stable-status.txt"}
    StatusFile = {"stable-status.txt"}
    Directory = {"root", "bin"}
    ParentOf <- MCParentOf
    Content = {c1, c2}
    Function = {f1, f2}
    BatchSize = 1
    MaxTouched = 1
    NULL = NULL
SYMMETRY Symmetry
INVARIANTS
    ReadsAsWritten
    NothingFrozen
PROPERTIES
    SavedIsUploaded
