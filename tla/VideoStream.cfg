SPECIFICATION Spec
CONSTANTS
    Rows = 3
    FrameMod = 5
    FrameBits = FALSE
    SendXor = TRUE
    MaxFrame = 5
    MaxAborts = 1
    NetCapacity = 3
    MaxLost = 3
    Failures <- MCMisfit
INVARIANTS
    TypeOK
    NoFrameMixing
    CompleteIsIntact
    ShortFramesCounted
    RecoverableDelivered
PROPERTIES
    NumbersAdvance
    ImplementsChannel
CHECK_DEADLOCK FALSE
