SPECIFICATION Spec
CONSTANTS
    Requests = {r1, r2}
    Users = {u1}
    Names = {a, b}
    Codes = {c1, c2}
    MaxProjects = 2
    MaxFiles = 3
    MaxMembers = 2
    MaxContents = 1
    MaxRaces = 1
INVARIANTS
    TreeIsWhole
    NamesDiffer
    MemberOnce
    ContentIsOfLive
PROPERTY
    DeletedStays
CONSTRAINT
    SideBySide
SYMMETRY Symmetry
CHECK_DEADLOCK FALSE
