SPECIFICATION FairSpec
CONSTANTS
    MaxRuns = 3
    MaxJobs = 4
INVARIANTS
    TypeOK
    OneImageThread
    RunHasItsThread
    WriteIsQuiet
PROPERTIES
    EndsOwnRunOnly
    StopsNoLaterStream
    StopReturns
    ThreadsEnd
CHECK_DEADLOCK FALSE
