SPECIFICATION FairSpec
CONSTANTS
    d1 = d1
    d2 = d2
    c1 = c1
    c2 = c2
    None = None
    Daemons = {d1, d2}
    Requests = {c1, c2}
CHECK_DEADLOCK FALSE
INVARIANTS
    SocketStays
    JobsAreSerial
PROPERTIES
    ImplementsService
    CallsReturn
