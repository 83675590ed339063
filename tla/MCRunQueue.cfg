SPECIFICATION FairSpec
CONSTANTS
    r1 = r1
    r2 = r2
    s1 = s1
    None = None
    Runs = {r1, r2}
    Servers = {s1}
    Overlap = FALSE
    DbFaults = FALSE
INVARIANTS
    NoStrandedRun
    SettledIsReleased
PROPERTIES
    ImplementsLifecycle
    EventuallySettled
