SPECIFICATION Spec
CONSTANTS
    MaxRuns = 2
    MaxJobs = 3
INVARIANTS
    NoThreadIsLost
CHECK_DEADLOCK FALSE
