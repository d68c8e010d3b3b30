SPECIFICATION Spec
CONSTANTS
    r1 = r1
    r2 = r2
    r3 = r3
    NoRun = NoRun
    Runs <- ThreeRuns
    MaxConcurrent = 2
    MaxBoots = 2
    DiskFaults = TRUE
SYMMETRY ThreeSymmetry
INVARIANTS
    Ownership
    BilledOnce
    InboxTruthful
    ReplyTruthful
    RetryOnce
CHECK_DEADLOCK FALSE
