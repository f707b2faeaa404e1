\* Two slots, so that a second connection could be made beside the first.
SPECIFICATION FairSpec
CONSTANTS
    MaxSockets = 2
    MaxUp = 2
    MaxMessages = 2
INVARIANTS
    OneLink
PROPERTIES
    LeftForGood
    ListensAgain
    LeaveCompletes
\* A page that was left is at rest.
CHECK_DEADLOCK FALSE
