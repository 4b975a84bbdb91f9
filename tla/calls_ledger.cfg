SPECIFICATION Spec
CONSTANTS
    Runners = {p1, p2}
    NumChunks = 2
    PerSpec = 2
    MaxVisits = 2
    MaxRepairs = 1
    ProviderCap = 3
    BudgetWired = FALSE
    MaxSpend = 3
    MaxCost = 1
    LedgerWired = TRUE
    Judging = FALSE
    MaxStarts = 3
    MaxFaults = 1
SYMMETRY RunnerSymmetry
INVARIANTS PaidOncePerFailure ServedWasPaid
CHECK_DEADLOCK FALSE
