SPECIFICATION FairSpec
CONSTANTS
    None = None
    Accounts <- MCAccounts
    Limit <- MCLimit
    Modes <- MCModes
    MaxTotal = 6
    MaxTokens = 7
    Costs = {1, 2}
    Director = "director"
    AllowEscalation = TRUE
    Reviewers = TRUE
    Executors = {"agy", "luna", "other"}
    MaxFix = 2
    MaxTasks = 1
CHECK_DEADLOCK FALSE
INVARIANTS
    BudgetIsKept
    ReservedIsAccountedFor
    FixesAreLookedAt
PROPERTIES
    WorkflowEnds
