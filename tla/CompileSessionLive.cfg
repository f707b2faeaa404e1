\* Liveness of one run under the fairness of the server's threads.
SPECIFICATION FairSpec
CONSTANTS
    MaxRuns = 1
    MaxInbox = 1
    PipeCapacity = 1
    MaxOutput = 1
PROPERTIES
    StopEndsProcess
    CloseEndsRuns
    CloseTerminates
    EndedRunIsAnswered
\* A closed session, and one whose client says nothing, may stop.
CHECK_DEADLOCK FALSE
