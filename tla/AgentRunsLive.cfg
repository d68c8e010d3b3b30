SPECIFICATION FairSpec
CONSTANTS
    r1 = r1
    r2 = r2
    r3 = r3
    NoRun = NoRun
    Runs <- TwoRuns
    MaxConcurrent = 1
    MaxBoots = 2
    DiskFaults = TRUE
PROPERTIES
    LifecycleSpec
    QueueDrains
    TurnAnswered
CHECK_DEADLOCK FALSE
