SPECIFICATION Spec
CONSTANTS
    Runners = {p1}
    NumChunks = 2
    PerSpec = 2
    MaxVisits = 2
    MaxRepairs = 1
    ProviderCap = 0
    BudgetWired = FALSE
    MaxSpend = 3
    MaxCost = 1
    LedgerWired = TRUE
    Judging = FALSE
    MaxStarts = 2
    MaxFaults = 0
INVARIANT RepairAsksAgain
CHECK_DEADLOCK FALSE
