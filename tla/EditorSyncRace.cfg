\* Two editors, each with a text of its own, and REST saves.
SPECIFICATION Spec
CONSTANTS
    Sessions = {s1, s2}
    Editors = {s1, s2}
    Movers = {}
    Contents <- OwnTextEach
    UsesREST = TRUE
    MaxRows = 2
    None = None
INVARIANTS
    NoVersionGap
    SyncLinksVersions
\* The bound on rows stops a thread that would store another.
CHECK_DEADLOCK FALSE
