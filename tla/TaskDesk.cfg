\* Every side of a task: the gate runner, the ledger, and the wizard three times.
SPECIFICATION MCFairSpec
CONSTANTS
    build = build
    fidelity = fidelity
    stage = stage
    r1 = r1
    r2 = r2
    r3 = r3
    r4 = r4
    Sides <- AllSides
    Attentive = FALSE
    GateTypes <- TwoGates
    Fidelity = fidelity
    Mandatory <- OneGate
    WizardList <- OneList
    Flutter = TRUE
    Stages <- OneStage
    Runs <- ThreeRuns
    Minutes <- OneOrTwo
    MaxIterations = 2
    MaxRows = 3
    MaxList = 2
    MaxActual = 4
    MaxEvidence = 3
INVARIANTS
    OneRowPerGate
    RunJudgesItsIteration
    IterationChain
    TimeAgrees
    RunsBilledAtHome
    OffersAccepted
    VerdictOnLatestCode
PROPERTIES
    HistoryKept
    GateRunEnds
    SeenRunEnds
CHECK_DEADLOCK FALSE
