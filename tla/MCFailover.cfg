SPECIFICATION Spec
CONSTANTS
    None = None
    Accounts <- MCAccounts
    Limit <- MCLimit
    Modes <- MCModes
    MaxTotal = 4
    MaxTokens = 6
    Costs = {1}
    Director = "sol"
    AllowEscalation = FALSE
    Reviewers = FALSE
    Executors = {"luna"}
    MaxFix = 1
    MaxTasks = 1
CHECK_DEADLOCK FALSE
INVARIANTS
    GivesUpAfterBonus
