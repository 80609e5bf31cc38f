SPECIFICATION FairSpec
CONSTANTS
    OutputBase = {ob1, ob2}
    BuildID = {b1}
    PathID = {p1}
    Call = {c1, c2}
    Reader = {r1}
    NULL = NULL
    ROOT = ROOT
PROPERTIES
    CallsReturn
    RequestsReturn
