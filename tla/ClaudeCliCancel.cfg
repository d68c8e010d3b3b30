\* The operator cancels a child that does not obey SIGTERM.
SPECIFICATION MCFairSpec
CONSTANTS
    c1 = c1
    c2 = c2
    Sides <- CallSide
    Calls <- NoCalls
    MaxFailed = 2
    Stubborn = TRUE
    Splits = FALSE
    MaxBlocks = 1
    MaxText = 1
    MaxNoise = 0
    MaxPipe = 1
PROPERTIES
    CancelEnds
CHECK_DEADLOCK FALSE
