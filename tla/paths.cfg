SPECIFICATION Spec
CONSTANTS
    Name = {"a", "b"}
    Dir = {"root", "d1", "d2", "d3", "d4", "d5"}
    Root = "root"
    RootName = "out"
    MaxLinks = 3
    MaxDepth = 2
    Thread = {"t1", "t2"}
    Scenario <- MCScenario
INVARIANTS
    StatAgrees
    StagedIsFound
    OthersKept
