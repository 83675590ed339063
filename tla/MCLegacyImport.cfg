SPECIFICATION Spec
CONSTANTS
    p1 = p1
    p2 = p2
    s1 = s1
    s2 = s2
    checkpoint = checkpoint
    None = None
    Procs = {p1, p2}
    Sessions = {s1, s2}
    Offset = 0
    MaxStamps = 4
    RunFiles <- Checkpoint
    ImportedStatus <- Statement
    MaxRunVersions = 2
SYMMETRY Symmetry
INVARIANTS
    RowIsCurrent
    RowStatusIsEarned
    RecordedIsImported
PROPERTIES
    RowNeverGoesBack
CHECK_DEADLOCK FALSE
