SPECIFICATION Spec
CONSTANTS
    Files <- MCFiles
    SegmentSize = 4
    PageSize = 2
    PageCount = 8
    SyncAt = 1
    MaxFinds = 2
    MaxRetries = 3
INVARIANTS
    UploadedMeansStored
    OnlyWholeFiles
CHECK_DEADLOCK FALSE
