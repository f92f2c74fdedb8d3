SPECIFICATION FairSpec
CONSTANTS
    Data = {d1, d2}
    NoData = NoData
    MaxPage = 0
    Budgets <- MCBudgets
    MaxCalls = 2
    FlashFaults = TRUE
INVARIANTS
    TypeOK
    VerifiedWriteStored
    CommandBudget
PROPERTIES
    ReadsAreCurrent
    ImplementsPageStore
    CallsReturn
CHECK_DEADLOCK FALSE
