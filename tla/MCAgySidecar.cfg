SPECIFICATION FairSpec
CONSTANTS
    c1 = c1
    c2 = c2
    None = None
    Requests = {c1, c2}
    Asked = {1, 2}
    MinTimeout = 2
    MaxTimeout = 4
    DefaultTimeout = 4
    Margin = 1
CHECK_DEADLOCK FALSE
INVARIANTS
    VerdictIsEarned
    VerdictEndsTheJob
PROPERTIES
    ImplementsService
    CallsReturn
