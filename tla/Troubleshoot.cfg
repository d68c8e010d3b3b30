SPECIFICATION FairSpec
CONSTANTS
    p1 = p1
    p2 = p2
    j1 = j1
    j2 = j2
    NoReport = NoReport
    Reports <- OneReport
    Jobs <- TwoJobs
    MaxRuns = 4
    MaxAttempts = 4
    MaxActions = 2
    MaxCrashes = 1
INVARIANTS
    AwaitingHasActions
    BoundedRetries
    VerifiedByTest
PROPERTIES
    NeverStuckApplying
    DiagnosisNeverRegresses
CHECK_DEADLOCK FALSE
