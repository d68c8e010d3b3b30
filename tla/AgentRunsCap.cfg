SPECIFICATION Spec
CONSTANTS
    r1 = r1
    r2 = r2
    r3 = r3
    NoRun = NoRun
    Runs <- ThreeRuns
    MaxConcurrent = 2
    MaxBoots = 1
    DiskFaults = FALSE
INVARIANTS
    CapRespected
CHECK_DEADLOCK FALSE
