SPECIFICATION Spec
CONSTANTS
    Data = {d1, d2, bus}
    NoData = NoData
    BusValue = bus
    Budgets <- MCBudgets
    MaxCalls = 2
    BusFaults = TRUE
INVARIANTS
    VerifiedWriteStored
CHECK_DEADLOCK FALSE
