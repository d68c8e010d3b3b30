\* One call, every race and every way to read its text; the child obeys SIGTERM.
SPECIFICATION MCFairSpec
CONSTANTS
    c1 = c1
    c2 = c2
    Sides <- BothSides
    Calls <- TwoCalls
    MaxFailed = 2
    Stubborn = FALSE
    Splits = TRUE
    MaxBlocks = 2
    MaxText = 2
    MaxNoise = 1
    MaxPipe = 2
INVARIANTS
    OutcomeTruthful
    AnswerWhole
PROPERTIES
    PortSpec
    RunSettles
CHECK_DEADLOCK FALSE
