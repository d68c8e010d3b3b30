---- MODULE TaskWorkflow ----
(***************************************************************************)
(* One build task with everything its iterations collect: gate rows, step  *)
(* acknowledgements, evidence, logged time and the agent runs billed to    *)
(* it (packages/core/src/use-cases/tasks.ts, gates.ts, evidence.ts,        *)
(* work-entries.ts, step-acks.ts), and the gate runner of the sidecar      *)
(* (apps/sidecar/src/modules/gates/service.ts), which waits for a child    *)
(* process between choosing a gate row and writing the verdict into it.    *)
(*                                                                         *)
(* Every use case awaits only the synchronous database, so it is one       *)
(* action.  The gate runner is a chain: between "top" and the spawn of the *)
(* child it does not give up the event loop (Quiet), from the spawn to the *)
(* exit of the child, and while a device is asked for a screenshot, any    *)
(* other request may be served.                                            *)
(***************************************************************************)
EXTENDS Integers, Sequences, FiniteSets, Functions

CONSTANTS
    GateTypes,      \* the gate types requests name
    Fidelity,       \* G5_FIDELITY, judged again on a device
    Stages,         \* step ids of the guided view
    Runs,           \* agent runs queued for the task
    Minutes,        \* bound: the amounts a time entry has
    MaxIterations,  \* bound: how many iterations
    MaxRows,        \* bound: how many gate rows are ever created
    MaxList,        \* bound: how many gates one request names
    MaxActual,      \* bound: minutes booked on the task
    MaxEvidence     \* bound: evidence rows of an iteration

ASSUME RunsAssumption == IsFiniteSet(Runs)
ASSUME BoundsAssumption ==
    /\ Minutes \subseteq Nat \ {0}
    /\ MaxIterations \in Nat \ {0}
    /\ MaxRows \in Nat
    /\ MaxList \in Nat
    /\ MaxActual \in Nat
    /\ MaxEvidence \in Nat

VARIABLES
    task,      \* tasks.status
    cur,       \* tasks.current_iteration
    iters,     \* the iteration rows by number: "none", "open" or the outcome
    gates,     \* the gate rows
    made,      \* gate row ids handed out so far
    acks,      \* step_acks by iteration
    evid,      \* evidence rows by iteration
    minutes,   \* work_entries by iteration, summed
    actual,    \* tasks.actual_hours_min
    run,       \* the agent runs of the task
    gateRun    \* the entry of inFlightRuns for the task

work == <<evid, minutes, actual, run>>
vars == <<task, cur, iters, gates, made, acks, work, gateRun>>

Iterations == 1 .. MaxIterations
Lists == UNION {[1 .. k -> GateTypes] : k \in 1 .. MaxList}
Verdicts == {"passed", "failed", "skipped"}
GateRow == [id : 1 .. MaxRows, n : Iterations, type : GateTypes,
            status : Verdicts \cup {"pending"}]
Idle == [host |-> "idle"]
Busy == [host : {"top", "taken", "child", "passed", "failed"},
         n : Iterations, todo : Seq(GateTypes), row : 0 .. MaxRows]

TypeOK ==
    /\ task \in {"pending", "in_progress", "qa", "approved", "rework"}
    /\ cur \in Iterations
    /\ iters \in [Iterations -> {"none", "open", "approved",
                                 "rework_requested", "reopened"}]
    /\ gates \in SUBSET GateRow
    /\ made \in 0 .. MaxRows
    /\ acks \in [Iterations -> SUBSET Stages]
    /\ evid \in [Iterations -> Nat]
    /\ minutes \in [Iterations -> Nat]
    /\ actual \in Nat
    /\ run \in [Runs -> [stage : {"absent", "queued", "billed", "closed"}, n : Iterations]]
    /\ gateRun \in {Idle} \cup {b \in Busy : b.todo # <<>>}

(* createTask: the task and its first iteration in one transaction.        *)
Init ==
    /\ task = "pending"
    /\ cur = 1
    /\ iters = [n \in Iterations |-> IF n = 1 THEN "open" ELSE "none"]
    /\ gates = {}
    /\ made = 0
    /\ acks = [n \in Iterations |-> {}]
    /\ evid = [n \in Iterations |-> 0]
    /\ minutes = [n \in Iterations |-> 0]
    /\ actual = 0
    /\ run = [r \in Runs |-> [stage |-> "absent", n |-> 1]]
    /\ gateRun = Idle

Quiet == gateRun.host \notin {"top", "taken"}

-----------------------------------------------------------------------------
(* The status of the task and its iterations.                              *)

StartTask ==
    /\ Quiet
    /\ task = "pending"
    /\ task' = "in_progress"
    /\ UNCHANGED <<cur, iters, gates, made, acks, work, gateRun>>

SubmitTaskForQa ==
    /\ Quiet
    /\ task \in {"in_progress", "rework"}
    /\ task' = "qa"
    /\ UNCHANGED <<cur, iters, gates, made, acks, work, gateRun>>

(* closeIterationAndAdvanceTask without, and with, a next iteration.       *)
CloseLast(outcome) ==
    /\ iters' = [iters EXCEPT ![cur] = outcome]
    /\ UNCHANGED <<cur, gates, made, acks, work, gateRun>>

CloseAndOpenNext(outcome) ==
    /\ cur < MaxIterations
    /\ iters' = [iters EXCEPT ![cur] = outcome, ![cur + 1] = "open"]
    /\ cur' = cur + 1
    /\ UNCHANGED <<gates, made, acks, work, gateRun>>

ApproveTask ==
    /\ Quiet
    /\ task \in {"qa", "in_progress", "rework"}
    /\ task' = "approved"
    /\ CloseLast("approved")

RejectTask ==
    /\ Quiet
    /\ task \in {"qa", "in_progress", "rework"}
    /\ task' = "rework"
    /\ CloseAndOpenNext("rework_requested")

(* Mutant: reopening resumes the approved iteration.                       *)
ReopenResumes ==
    /\ Quiet
    /\ task = "approved"
    /\ task' = "in_progress"
    /\ CloseLast("reopened")

(* The approved iteration is closed a second time, with a new outcome.     *)
ReopenTask ==
    /\ Quiet
    /\ task = "approved"
    /\ task' = "in_progress"
    /\ CloseAndOpenNext("reopened")

-----------------------------------------------------------------------------
(* What is attached to an iteration.                                       *)

(* upsertStepAck and deleteStepAck: always the current iteration.          *)
Ack(s, on) ==
    /\ Quiet
    /\ acks' = [acks EXCEPT ![cur] = IF on THEN @ \cup {s} ELSE @ \ {s}]
    /\ UNCHANGED <<task, cur, iters, gates, made, work, gateRun>>

CreateEvidence(n) ==
    /\ Quiet
    /\ iters[n] # "none"
    /\ evid[n] < MaxEvidence
    /\ evid' = [evid EXCEPT ![n] = @ + 1]
    /\ UNCHANGED <<task, cur, iters, gates, made, acks, minutes, actual, run,
                   gateRun>>

(* The entry and the new total of the task, in one transaction.            *)
Book(n, m) ==
    /\ actual + m <= MaxActual
    /\ minutes' = [minutes EXCEPT ![n] = @ + m]
    /\ actual' = actual + m

LogWorkEntry(n, m) ==
    /\ Quiet
    /\ iters[n] # "none"
    /\ Book(n, m)
    /\ UNCHANGED <<task, cur, iters, gates, made, acks, evid, run, gateRun>>

QueueAgentRun(r) ==
    /\ Quiet
    /\ run[r].stage = "absent"
    /\ iters[cur] = "open"
    /\ run' = [run EXCEPT ![r] = [stage |-> "queued", n |-> cur]]
    /\ UNCHANGED <<task, cur, iters, gates, made, acks, evid, minutes, actual,
                   gateRun>>

(* Mutant: the evidence and the time go to the iteration that is open when *)
(* the run ends, and the total is written without the entry's row.         *)
BillCurrent(r, m) ==
    /\ Quiet
    /\ run[r].stage = "queued"
    /\ run' = [run EXCEPT ![r].stage = "billed"]
    /\ evid[cur] < MaxEvidence
    /\ evid' = [evid EXCEPT ![cur] = @ + 1]
    /\ actual + m <= MaxActual
    /\ actual' = actual + m
    /\ UNCHANGED <<task, cur, iters, gates, made, acks, minutes, gateRun>>

(* closeAgentRunSucceeded: billed to the iteration the run was queued in,  *)
(* whatever has become of it.                                              *)
CloseAgentRunSucceeded(r, m) ==
    /\ Quiet
    /\ run[r].stage = "queued"
    /\ run' = [run EXCEPT ![r].stage = "billed"]
    /\ evid[run[r].n] < MaxEvidence
    /\ evid' = [evid EXCEPT ![run[r].n] = @ + 1]
    /\ Book(run[r].n, m)
    /\ UNCHANGED <<task, cur, iters, gates, made, acks, gateRun>>

CloseAgentRunUnsuccessful(r) ==
    /\ Quiet
    /\ run[r].stage = "queued"
    /\ run' = [run EXCEPT ![r].stage = "closed"]
    /\ UNCHANGED <<task, cur, iters, gates, made, acks, evid, minutes, actual,
                   gateRun>>

-----------------------------------------------------------------------------
(* Gate rows.                                                              *)

RowsFor(n, t) == {g \in gates : g.n = n /\ g.type = t}
NewRow(n, t) == [id |-> made + 1, n |-> n, type |-> t, status |-> "pending"]
Judged(id, s) ==
    {IF g.id = id THEN [g EXCEPT !.status = s] ELSE g : g \in gates}

AddRow(n, t) ==
    /\ made < MaxRows
    /\ gates' = gates \cup {NewRow(n, t)}
    /\ made' = made + 1

(* The row ids that the run under way may still ask for (MaxRows never     *)
(* stops a run).                                                           *)
Reserved == IF gateRun = Idle THEN 0 ELSE Len(gateRun.todo)

(* POST /gates: for any iteration of the task, open or closed.             *)
CreateGate(n, t) ==
    /\ Quiet
    /\ iters[n] # "none"
    /\ RowsFor(n, t) = {}
    /\ made + Reserved < MaxRows
    /\ AddRow(n, t)
    /\ UNCHANGED <<task, cur, iters, acks, work, gateRun>>

(* POST /gates/:id/outcome: the operator's verdict; over one that is       *)
(* already there only with force.                                          *)
RecordGateOutcome(g, s, force) ==
    /\ Quiet
    /\ g.status = "pending" \/ force
    /\ gates' = Judged(g.id, s)
    /\ UNCHANGED <<task, cur, iters, made, acks, work, gateRun>>

(* Mutant: the rows of every iteration are deleted.                        *)
ResetAll(types) ==
    /\ Quiet
    /\ gates' = {g \in gates : g.type \notin types}
    /\ UNCHANGED <<task, cur, iters, made, acks, work, gateRun>>

(* Only the rows of the current iteration, also while a run judges one.    *)
ResetGatesForTask(types) ==
    /\ Quiet
    /\ gates' = {g \in gates : g.n # cur \/ g.type \notin types}
    /\ UNCHANGED <<task, cur, iters, made, acks, work, gateRun>>

-----------------------------------------------------------------------------
(* The gate runner.  A request that finds an entry waits for the answer of *)
(* the run under way, whatever gates it named, and changes nothing.        *)

RunGatesForTask(list) ==
    /\ gateRun = Idle
    /\ iters[cur] = "open"
    /\ made + Len(list) <= MaxRows
    /\ gateRun' = [host |-> "top", n |-> cur, todo |-> list, row |-> 0]
    /\ UNCHANGED <<task, cur, iters, gates, made, acks, work>>

Gate == Head(gateRun.todo)

(* Mutant: a gate that ran in any iteration is judged in the row it has.   *)
TakeOldRow ==
    /\ gateRun.host = "top"
    /\ \/ /\ \E g \in gates : /\ g.type = Gate
                              /\ gateRun' = [gateRun EXCEPT !.host = "taken",
                                                           !.row = g.id]
          /\ UNCHANGED <<gates, made>>
       \/ /\ \A g \in gates : g.type # Gate
          /\ AddRow(gateRun.n, Gate)
          /\ gateRun' = [gateRun EXCEPT !.host = "taken", !.row = made + 1]
    /\ UNCHANGED <<task, cur, iters, acks, work>>

(* Mutant: the row is created without looking for one.                     *)
TakeNewRow ==
    /\ gateRun.host = "top"
    /\ AddRow(gateRun.n, Gate)
    /\ gateRun' = [gateRun EXCEPT !.host = "taken", !.row = made + 1]
    /\ UNCHANGED <<task, cur, iters, acks, work>>

(* The row of the iteration captured by the request, created if missing.   *)
TakeRow ==
    /\ gateRun.host = "top"
    /\ \/ /\ \E g \in RowsFor(gateRun.n, Gate) :
                gateRun' = [gateRun EXCEPT !.host = "taken", !.row = g.id]
          /\ UNCHANGED <<gates, made>>
       \/ /\ RowsFor(gateRun.n, Gate) = {}
          /\ AddRow(gateRun.n, Gate)
          /\ gateRun' = [gateRun EXCEPT !.host = "taken", !.row = made + 1]
    /\ UNCHANGED <<task, cur, iters, acks, work>>

(* executeGate finds a command and spawns it.                              *)
SpawnGate ==
    /\ gateRun.host = "taken"
    /\ gateRun' = [gateRun EXCEPT !.host = "child"]
    /\ UNCHANGED <<task, cur, iters, gates, made, acks, work>>

(* A directory cannot be made or a screenshot not written: the request is  *)
(* answered with an error, the entry is removed, the row stays as it is.   *)
GateRunThrows ==
    /\ gateRun.host \in {"taken", "passed", "failed"}
    /\ gateRun' = Idle
    /\ UNCHANGED <<task, cur, iters, gates, made, acks, work>>

Advance ==
    gateRun' = IF Len(gateRun.todo) = 1 THEN Idle
               ELSE [gateRun EXCEPT !.host = "top", !.todo = Tail(@), !.row = 0]

(* Mutant: the entry is removed only when the run succeeds.                *)
RecordKeepsEntry(s) ==
    /\ gates' = Judged(gateRun.row, s)
    /\ IF \E g \in gates : g.id = gateRun.row THEN Advance ELSE UNCHANGED gateRun
    /\ UNCHANGED <<task, cur, iters, made, acks, work>>

(* Forced, so over any verdict of the operator; a row that a reset has     *)
(* deleted meanwhile ends the run with an error.                           *)
Record(s) ==
    /\ gates' = Judged(gateRun.row, s)
    /\ IF \E g \in gates : g.id = gateRun.row THEN Advance ELSE gateRun' = Idle
    /\ UNCHANGED <<task, cur, iters, made, acks, work>>

(* No command for the gate on this stack.                                  *)
SkipGate ==
    /\ gateRun.host = "taken"
    /\ Record("skipped")

(* The child closes by itself or is killed after its timeout.  Without a   *)
(* baseline frame G5 ends here too.                                        *)
GateChildEnds(s) ==
    /\ gateRun.host = "child"
    /\ Record(s)

(* G5 with a baseline: the devices are listed and a screenshot is taken.   *)
AskDevice(s) ==
    /\ gateRun.host = "child"
    /\ Gate = Fidelity
    /\ gateRun' = [gateRun EXCEPT !.host = s]
    /\ UNCHANGED <<task, cur, iters, gates, made, acks, work>>

(* The difference can only turn a pass into a failure.                     *)
DeviceAnswers(s) ==
    /\ gateRun.host \in {"passed", "failed"}
    /\ s \in {gateRun.host, "failed"}
    /\ Record(s)

(* The process dies and comes back: the entry was only in memory.          *)
Restart ==
    /\ gateRun # Idle
    /\ gateRun' = Idle
    /\ UNCHANGED <<task, cur, iters, gates, made, acks, work>>

-----------------------------------------------------------------------------
Operator ==
    \/ StartTask \/ SubmitTaskForQa
    \/ ApproveTask \/ RejectTask \/ ReopenTask
    \/ \E s \in Stages, on \in BOOLEAN : Ack(s, on)
    \/ \E n \in Iterations : CreateEvidence(n)
    \/ \E n \in Iterations, m \in Minutes : LogWorkEntry(n, m)
    \/ \E n \in Iterations, t \in GateTypes : CreateGate(n, t)
    \/ \E g \in gates, s \in Verdicts, force \in BOOLEAN :
           RecordGateOutcome(g, s, force)
    \/ \E types \in (SUBSET GateTypes) \ {{}} : ResetGatesForTask(types)
    \/ \E list \in Lists : RunGatesForTask(list)

AgentRun ==
    \E r \in Runs :
        \/ QueueAgentRun(r)
        \/ \E m \in Minutes : CloseAgentRunSucceeded(r, m)
        \/ CloseAgentRunUnsuccessful(r)

Runner ==
    \/ TakeRow \/ SpawnGate \/ SkipGate \/ GateRunThrows
    \/ \E s \in {"passed", "failed"} :
           GateChildEnds(s) \/ AskDevice(s) \/ DeviceAnswers(s)

Next == Operator \/ AgentRun \/ Runner \/ Restart

Spec == Init /\ [][Next]_vars

(* Every child ends, by itself or by SIGKILL when its timer fires, and adb *)
(* answers: the runner always has a next step it will take.                *)
FairSpec == Spec /\ WF_vars(Runner)

-----------------------------------------------------------------------------
(* Iterations are numbered without a gap; the ones behind the current one  *)
(* ended in a rejection or were reopened, and the current one is open      *)
(* exactly while the task is not approved.  Three handlers write these     *)
(* rows and every other one trusts currentIteration to find the open one.  *)
IterationChain ==
    \A n \in Iterations :
        /\ n < cur => iters[n] \in {"rework_requested", "reopened"}
        /\ n = cur => iters[n] = (IF task = "approved" THEN "approved" ELSE "open")
        /\ n > cur => iters[n] = "none"

(* An iteration has at most one row per gate type although the operator,   *)
(* a reset and a run that waits for a child all create and delete rows.    *)
OneRowPerGate ==
    \A g, h \in gates : g.n = h.n /\ g.type = h.type => g = h

(* Whatever is approved, rejected, reset or created while a gate child is  *)
(* running, the verdict is written only into a row of the iteration the    *)
(* run was asked for and of the gate that was executed.                    *)
RunJudgesItsIteration ==
    gateRun.host \in {"taken", "child", "passed", "failed"} =>
        \A g \in gates : g.id = gateRun.row => g.n = gateRun.n /\ g.type = Gate

(* tasks.actual_hours_min is a running total kept beside the entries by    *)
(* two writers; it never drifts from their sum (getTaskTotalMinutes).      *)
TimeAgrees == actual = SumFunction(minutes)

(* What an agent run leaves behind, its evidence and its time, is found in *)
(* the iteration whose prompt the agent was given, however many iterations *)
(* have been closed and opened before it came back.                        *)
Billed(n) == {r \in Runs : run[r].stage = "billed" /\ run[r].n = n}

RunsBilledAtHome ==
    \A n \in Iterations :
        Cardinality(Billed(n)) <= evid[n] /\ Cardinality(Billed(n)) <= minutes[n]

(* What lies behind the current iteration is history: its outcome and its  *)
(* acknowledgements are final and none of its gate rows disappears, also   *)
(* while the operator works on the next one and a run still judges gates   *)
(* of the old one.                                                         *)
HistoryStep ==
    /\ cur <= cur'
    /\ \A n \in Iterations :
           n < cur =>
               /\ iters'[n] = iters[n]
               /\ acks'[n] = acks[n]
               /\ \A g \in gates : g.n = n => \E h \in gates' : h.id = g.id
HistoryKept == [][HistoryStep]_vars

(* The entry of inFlightRuns goes away: no task is locked out of its gates *)
(* by a run whose row was reset, whose child hung or whose device is gone. *)
GateRunEnds == gateRun # Idle ~> gateRun = Idle

====
