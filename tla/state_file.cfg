SPECIFICATION FairSpec
CONSTANTS
    Node = {"r", "a", "b", "c", "d"}
    Root = "r"
    Children <- MCChildren
    Leafless = {"r", "d"}
    HeaderSize = 2
    Maximum = 8
    Half = 10
    Size <- MCSize
    DamagedChildren <- MCDamagedChildren
    NULL = NULL
CHECK_DEADLOCK FALSE
INVARIANTS
    NoCycles
    OwnFileAccepted
PROPERTIES
    RestoreTerminates
