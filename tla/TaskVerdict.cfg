\* The wizard after a green verification, with a second QA run after an edit.
SPECIFICATION MCSpec
CONSTANTS
    build = build
    fidelity = fidelity
    stage = stage
    r1 = r1
    r2 = r2
    r3 = r3
    r4 = r4
    Sides <- AuditSide
    Attentive = TRUE
    GateTypes <- TwoGates
    Fidelity = fidelity
    Mandatory <- OneGate
    WizardList <- OneList
    Flutter = TRUE
    Stages <- OneStage
    Runs <- FourRuns
    Minutes <- One
    MaxIterations = 1
    MaxRows = 1
    MaxList = 2
    MaxActual = 4
    MaxEvidence = 4
INVARIANTS
    VerdictNotStale
CHECK_DEADLOCK FALSE
