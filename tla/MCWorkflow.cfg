SPECIFICATION Spec
CONSTANTS
    p1 = p1
    p2 = p2
    b1 = b1
    Procs = {p1, p2}
    Branches = {b1}
    None = None
    MaxTasks = 2
    SameSecond = FALSE
SYMMETRY Symmetry
INVARIANTS
    WaitingWorkIsThere
    OnlyApprovedIsPushed
    SuccessIsWhole
    ReadOnlyIsHonest
PROPERTIES
    UncommittedWorkIsKept
CHECK_DEADLOCK FALSE
