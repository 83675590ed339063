SPECIFICATION PollSpec
CONSTANTS
    r1 = r1
    r2 = r2
    Runs = {r1, r2}
    PollLimit = 3
INVARIANTS
    NotificationIsTrue
PROPERTIES
    EndIsNoticed
