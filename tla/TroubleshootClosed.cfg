SPECIFICATION Spec
CONSTANTS
    p1 = p1
    p2 = p2
    j1 = j1
    j2 = j2
    NoReport = NoReport
    Reports <- OneReport
    Jobs <- TwoJobs
    MaxRuns = 2
    MaxAttempts = 2
    MaxActions = 1
    MaxCrashes = 0
PROPERTIES
    ClosedStays
CHECK_DEADLOCK FALSE
