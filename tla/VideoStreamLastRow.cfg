SPECIFICATION Spec
CONSTANTS
    Rows = 3
    FrameMod = 8
    FrameBits = FALSE
    SendXor = TRUE
    MaxFrame = 2
    MaxAborts = 0
    NetCapacity = 3
    MaxLost = 1
    Failures <- MCNoFailures
INVARIANTS
    RepairStaysInBuffer
CHECK_DEADLOCK FALSE
