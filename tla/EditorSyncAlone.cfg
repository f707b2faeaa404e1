\* One editor and two readers, one of which moves its cursor.
SPECIFICATION Spec
CONSTANTS
    Sessions = {s1, s2, s3}
    Editors = {s1}
    Movers = {s2}
    Contents <- TwoTextsEach
    UsesREST = FALSE
    MaxRows = 2
    None = None
INVARIANTS
    TextConverges
\* The bound on rows stops a thread that would store another.
CHECK_DEADLOCK FALSE
