SPECIFICATION FairSpec
CONSTANTS
    Runners = {p1}
    NumChunks = 2
    PerSpec = 2
    MaxVisits = 2
    MaxRepairs = 1
    ProviderCap = 3
    BudgetWired = TRUE
    MaxSpend = 3
    MaxCost = 2
    LedgerWired = TRUE
    Judging = TRUE
    MaxStarts = 2
    MaxFaults = 1
INVARIANTS SpendBounded
PROPERTY AttemptsEnd
CHECK_DEADLOCK FALSE
