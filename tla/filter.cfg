SPECIFICATION FairSpec
CONSTANTS
    Child = {"file", "tree", "other"}
    Digest = {"d1", "d2", "d3", "e1"}
    ContainingDigests <- MCContainingDigests
    WrongFunction = {"e1"}
    Limit = 2
    NULL = "NULL"
INVARIANTS
    KeptIsStored
    BatchBounded
PROPERTIES
    RemovedForCause
    FilterTerminates
