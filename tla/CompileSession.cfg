\* Safety over two consecutive runs of one session.
SPECIFICATION Spec
CONSTANTS
    MaxRuns = 2
    MaxInbox = 1
    PipeCapacity = 1
    MaxOutput = 1
INVARIANTS
    SingleFlight
    IdleIsClean
    InterruptHitsItsRun
    AnswerAfterProcess
    LateOutputOnlyAfterStop
    StuckOnlyAfterStop
PROPERTY
    ImplementsService
\* A closed session, and one whose client says nothing, may stop.
CHECK_DEADLOCK FALSE
