---- MODULE MCTaskWorkflow ----
(***************************************************************************)
(* A task with two gate types, one of them the fidelity gate, for TLC.     *)
(* Every behaviour is about one side of it, chosen at the start: the gate  *)
(* runner among the requests of several clients, the iterations with their *)
(* time and agent runs, or the wizard of the operator, from the start of   *)
(* the task or from the point where an agent has edited files and the      *)
(* gates have passed, or beside further agent runs.                        *)
(***************************************************************************)
EXTENDS TaskDesk, TLC

CONSTANTS
    build, fidelity, stage, r1, r2, r3, r4,
    Sides,     \* the sides a run looks at
    Attentive  \* an operator who launches from a page that shows the runs as they are

VARIABLE side

AuditSide == {"audit"}
AllSides == {"gates", "audit", "ledger", "verify", "review"}

(* The runs are alike: the next one launched is the next one named.        *)
Named == <<r1, r2, r3, r4>>

TwoGates == {build, fidelity}
OneGate == {build}
OneList == <<build>>
OneStage == {stage}
ThreeRuns == {r1, r2, r3}
FourRuns == {r1, r2, r3, r4}
None == {}
One == {1}
OneOrTwo == {1, 2}

MCInit ==
    side \in Sides /\
    (\/ side \in {"gates", "ledger", "verify"} /\ Init /\ DeskInit
    \/ /\ side \in {"review", "audit"}
       /\ task = "in_progress" /\ cur = 1
       /\ iters = [n \in Iterations |-> IF n = 1 THEN "open" ELSE "none"]
       /\ gates = {[id |-> 1, n |-> 1, type |-> build, status |-> "passed"]} /\ made = 1
       /\ acks = [n \in Iterations |-> {}]
       /\ evid = [n \in Iterations |-> IF n = 1 THEN 1 ELSE 0]
       /\ minutes = evid /\ actual = 1
       /\ run = [r \in Runs |-> [stage |-> IF r = r1 THEN "billed" ELSE "absent", n |-> 1]]
       /\ gateRun = Idle
       /\ kind = [r \in Runs |-> IF r = r1 THEN "dev" ELSE "none"]
       /\ said = [r \in Runs |-> IF r = r1 THEN "edits" ELSE "none"]
       /\ order = <<r1>>
       /\ tested = TRUE
       /\ view = [task |-> task, n |-> 1, runs |-> [r \in Runs |-> run[r].stage],
                  gates |-> gates, qa |-> "none"]
       /\ filed = {} /\ due = {} /\ asked = "none"
       /\ outdated = {} /\ overtaken = {} /\ blurred = {} /\ strayed = FALSE)

Restarts == Restart /\ UNCHANGED deskVars
Asking == Poll \/ (\E p \in Parts : Fetch(p)) \/ (\E q \in Runs : HearVerdict(q))
Background == Lost \/ Asking \/ RunEnds \/ GateStep

Gating ==
    (Operator /\ UNCHANGED <<acks, work, deskVars>>) \/ GateStep \/ Restarts
Booking ==
    /\ Operator \/ AgentRun
    /\ run'[r3] = run[r3]
    /\ UNCHANGED <<gates, made, gateRun, deskVars>>
Verifying == Background \/ AgentClicks \/ VerifyClicks \/ Restarts
Reviewing == Background \/ AgentClicks \/ ReviewClicks \/ ClickVerify \/ GatesAnswered
Auditing ==
    /\ Background \/ ReviewClicks \/ \E r \in Runs : ClickLaunch(r)
    /\ UNCHANGED <<task, asked>>

(* Tighter bounds, at the sides that need no more.                         *)
Booked == actual' <= 3 /\ \A n \in Iterations : evid'[n] <= 2

MCNext ==
    /\ \/ side = "gates" /\ Gating
       \/ side = "ledger" /\ Booking /\ Booked
       \/ /\ \/ side = "verify" /\ Verifying /\ Len(order') <= 2
             \/ side = "review" /\ Reviewing /\ Len(order') <= 2
             \/ side = "audit" /\ Auditing
          /\ side = "audit" \/ Booked
          /\ (made + Reserved)' <= 2 /\ actual' <= actual + 1
          /\ order' = SubSeq(Named, 1, Len(order'))
          /\ Attentive /\ order' # order => view.runs = [r \in Runs |-> run[r].stage]
    /\ UNCHANGED side

MCSpec == MCInit /\ [][MCNext]_<<vars, deskVars, side>>
MCFairSpec == MCSpec /\ DeskFairness
====
