SPECIFICATION Spec
CONSTANTS
    o1 = o1
    o2 = o2
    o3 = o3
    Ops = {o1, o2, o3}
    None = None
    CompactAfter = 3
    KeepRecent = 1
    Fits = 2
    SaveFaults = FALSE
    Crashes = TRUE
SYMMETRY Symmetry
INVARIANTS
    KeptOnce
    ExecutesWhatWasApproved
    RevisionIdentifiesContent
    SummaryCovers
PROPERTIES
    ImplementsHistory
CHECK_DEADLOCK FALSE
