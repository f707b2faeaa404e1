\* Either page, with three sockets and three runs.
SPECIFICATION FairSpec
CONSTANTS
    MaxSockets = 3
    MaxRuns = 3
    MaxOthers = 1
INVARIANTS
    RunningHasCause
    IdleIsHonest
    StopReaches
PROPERTY
    PendingEnds
\* A page may be left alone.
CHECK_DEADLOCK FALSE
