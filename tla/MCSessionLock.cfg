SPECIFICATION FairSpec
CONSTANTS
    t1 = t1
    t2 = t2
    t3 = t3
    api = api
    cli = cli
    None = None
    Threads = {t1, t2, t3}
    ProcessOf <- MCProcessOf
    MaxNest = 3
INVARIANTS
    MutualExclusion
    DescriptorsAreOwned
PROPERTIES
    SomeoneGetsIn
