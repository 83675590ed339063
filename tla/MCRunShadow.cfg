SPECIFICATION ShadowSpec
CONSTANTS
    None = None
    r1 = r1
    Runs = {r1}
    s1 = s1
    Servers = {s1}
    c1 = c1
    CliRuns = {c1}
    Overlap = FALSE
    DbFaults = TRUE
INVARIANTS
    ShadowClaimsAreTrue
    QueueFollowsVerdict
