\* Refuted: a stop behind an input on a full pipe is never handled.
SPECIFICATION FairSpec
CONSTANTS
    MaxRuns = 1
    MaxInbox = 1
    PipeCapacity = 1
    MaxOutput = 1
PROPERTY
    StopIsHandled
CHECK_DEADLOCK FALSE
