SPECIFICATION Spec
CONSTANTS
    r1 = r1
    r2 = r2
    s1 = s1
    s2 = s2
    None = None
    Runs = {r1, r2}
    Servers = {s1, s2}
    Overlap = TRUE
    DbFaults = TRUE
SYMMETRY Symmetry
INVARIANTS
    NeverReexecuted
    OneChild
    OutcomeIsEarned
