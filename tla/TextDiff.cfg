\* All pairs of texts of up to four units over two characters, and null.
SPECIFICATION Spec
CONSTANTS
    Units = {a, b}
    MaxLen = 4
    NullText = NullText
INVARIANTS
    ChangeGivesNewText
    ChangeIsLeast
    LoopsComputeDiff
\* A call that has returned has nothing left to do.
CHECK_DEADLOCK FALSE
