\* One file, and one that may be created, with two loads under way.
SPECIFICATION Spec
CONSTANTS
    Existing = 1
    MaxFiles = 2
    MaxEdits = 1
    MaxLoads = 2
    MaxSaves = 1
    MaxSlips = 1
INVARIANTS
    OpenText
    CleanIsSaved
    LastEditKept
CHECK_DEADLOCK FALSE
