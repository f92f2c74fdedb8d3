SPECIFICATION Spec
CONSTANTS
    Data = {d1, d2}
    NoData = NoData
    MaxPage = 0
    Budgets <- MCOneBudget
    MaxCalls = 1
    FlashFaults = TRUE
INVARIANTS
    SuccessMeansStored
CHECK_DEADLOCK FALSE
