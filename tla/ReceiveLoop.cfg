SPECIFICATION Spec
CONSTANTS
    Rows = 3
    FrameMod = 4
    FrameBits = TRUE
    SendXor = FALSE
    MaxSkip = 3
    Failures <- MCFailures
PROPERTIES
    StopsWhenAsked
CHECK_DEADLOCK FALSE
