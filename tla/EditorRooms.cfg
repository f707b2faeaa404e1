\* Three connections to two files.
SPECIFICATION RoomsSpec
CONSTANTS
    Sessions = {s1, s2, s3}
    Files = {f1, f2}
    None = None
SYMMETRY Symmetry
INVARIANTS
    ReachableUnlessRaced
    GoneUnlessCutShort
    RoomsCollected
\* The end of all connections is the end.
CHECK_DEADLOCK FALSE
