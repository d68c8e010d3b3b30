\* The wizard after a green verification.
SPECIFICATION MCSpec
CONSTANTS
    build = build
    fidelity = fidelity
    stage = stage
    r1 = r1
    r2 = r2
    r3 = r3
    r4 = r4
    Sides <- AuditSide
    Attentive = FALSE
    GateTypes <- TwoGates
    Fidelity = fidelity
    Mandatory <- OneGate
    WizardList <- OneList
    Flutter = TRUE
    Stages <- OneStage
    Runs <- ThreeRuns
    Minutes <- OneOrTwo
    MaxIterations = 1
    MaxRows = 3
    MaxList = 2
    MaxActual = 4
    MaxEvidence = 3
INVARIANTS
    GatesProveCode
CHECK_DEADLOCK FALSE
