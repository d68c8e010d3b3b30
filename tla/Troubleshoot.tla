---- MODULE Troubleshoot ----
(***************************************************************************)
(* The troubleshooter loop of the sidecar (apps/sidecar/src/modules/       *)
(* troubleshoot, packages/core/src/use-cases/troubleshoot.ts and the       *)
(* troubleshooter parts of agent-runs/worker.ts): an agent diagnoses a     *)
(* report, the operator applies the proposal, a test decides, failed tests *)
(* queue another diagnosis, and a reaper closes what got stuck.            *)
(*                                                                         *)
(* Each commit to the database is one action.  A handler that awaits only  *)
(* the database is not interleaved with others (next, hook: its commits to *)
(* come), but the process may die between them.  Applying is the exception:*)
(* it really waits for the Supabase MCP and for flutter test, and anything *)
(* may happen to its report meanwhile (jobs).                              *)
(***************************************************************************)
EXTENDS Integers

CONSTANTS
    Reports,      \* troubleshoot reports
    NoReport,
    Jobs,         \* apply requests in progress (bound: how many at once)
    MaxRuns,      \* bound: diagnosis runs, numbered in the order of creation
    MaxAttempts,  \* bound: the operator asks no further diagnosis beyond it
    MaxActions,   \* bound: operator actions one proposal may require
    MaxCrashes    \* bound

ASSUME NoReportAssumption == NoReport \notin Reports
ASSUME BoundsAssumption ==
    /\ MaxRuns \in Nat /\ MaxAttempts \in Nat /\ MaxCrashes \in Nat
    /\ MaxActions \in Nat \ {0}

VARIABLES
    (* troubleshoot_reports *)
    status,
    attempt,    \* attemptCount
    lastRun,    \* lastDiagnosisRunId, 0 for none
    diag,       \* what the diagnosis on the report proposes
    diagRun,    \* the run the diagnosis came from
    actions,    \* required operator actions not completed yet
    lastTest,   \* what lastTestOutput is about
    stale,      \* reports not updated for STALE_TROUBLESHOOT_MS
    (* agent_runs of kind troubleshooter *)
    made,       \* runs created so far
    run,        \* their status
    (* memory of the process *)
    next,       \* the next commit of the handler working on a report
    hook,       \* the succeeded run whose post-run hook comes next, 0 for none
    jobReport, jobStage, jobTry,
    (* observers *)
    crashes,
    autoRuns,   \* diagnosis runs queued by a failing test
    tested      \* the attempt whose test outcome was recorded last

row == <<attempt, lastRun, diag, diagRun, actions, lastTest>>
agent == <<made, run>>
job == <<jobReport, jobStage, jobTry>>
seen == <<crashes, autoRuns, tested>>
vars == <<status, row, stale, agent, next, hook, job, seen>>

Statuses == {"absent", "open", "diagnosing", "proposed", "applying", "testing",
             "awaiting-operator", "verified", "resolved", "dismissed", "escalated"}
Closed == {"resolved", "dismissed"}
Diagnoses == {"none", "nothing", "files", "sql"}
MaxTries == 3

TypeOK ==
    /\ status \in [Reports -> Statuses]
    /\ attempt \in [Reports -> Nat]
    /\ lastRun \in [Reports -> 0 .. MaxRuns]
    /\ diag \in [Reports -> Diagnoses]
    /\ diagRun \in [Reports -> 0 .. MaxRuns]
    /\ actions \in [Reports -> 0 .. MaxActions]
    /\ lastTest \in [Reports -> {"none", "passed", "failed", "error"}]
    /\ stale \in SUBSET Reports
    /\ made \in 0 .. MaxRuns
    /\ run \in [1 .. MaxRuns -> {"absent", "live", "succeeded", "dead"}]
    /\ next \in [Reports -> {"none", "mark", "create", "link",
                             "recreate", "relink", "remark"}]
    /\ hook \in 0 .. MaxRuns
    /\ jobReport \in [Jobs -> Reports \cup {NoReport}]
    /\ jobStage \in [Jobs -> {"idle", "sql", "test"}]
    /\ jobTry \in [Jobs -> Nat]
    /\ crashes \in 0 .. MaxCrashes
    /\ autoRuns \in [Reports -> Nat]
    /\ tested \in [Reports -> Nat]

Init ==
    /\ status = [p \in Reports |-> "absent"]
    /\ attempt = [p \in Reports |-> 0]
    /\ lastRun = [p \in Reports |-> 0]
    /\ diag = [p \in Reports |-> "none"]
    /\ diagRun = [p \in Reports |-> 0]
    /\ actions = [p \in Reports |-> 0]
    /\ lastTest = [p \in Reports |-> "none"]
    /\ stale = {}
    /\ made = 0
    /\ run = [i \in 1 .. MaxRuns |-> "absent"]
    /\ next = [p \in Reports |-> "none"]
    /\ hook = 0
    /\ jobReport = [j \in Jobs |-> NoReport]
    /\ jobStage = [j \in Jobs |-> "idle"]
    /\ jobTry = [j \in Jobs |-> 0]
    /\ crashes = 0
    /\ autoRuns = [p \in Reports |-> 0]
    /\ tested = [p \in Reports |-> 0]

Quiet == hook = 0 /\ \A p \in Reports : next[p] = "none"

(* patchTroubleshootReport: whatever is patched, updated_at is refreshed.  *)
Patch(p, to) ==
    /\ status' = [status EXCEPT ![p] = to]
    /\ stale' = stale \ {p}

Then(p, step) == next' = [next EXCEPT ![p] = step]

---------------------------------------------------------------------------
(* POST / and POST /bugfix: the row, then the mark, the run and the link.  *)
Report(p) ==
    /\ Quiet
    /\ status[p] = "absent"
    /\ Patch(p, "open")
    /\ Then(p, "mark")
    /\ UNCHANGED <<row, agent, hook, job, seen>>

MarkDiagnosing(p) ==
    /\ Patch(p, "diagnosing")
    /\ attempt' = [attempt EXCEPT ![p] = @ + 1]
    /\ UNCHANGED <<lastRun, diag, diagRun, actions, lastTest, agent, hook, job, seen>>

(* POST /:id/rediagnose accepts a report in any status.                    *)
Rediagnose(p) ==
    /\ Quiet
    /\ status[p] # "absent"
    /\ attempt[p] < MaxAttempts
    /\ MarkDiagnosing(p)
    /\ Then(p, "create")

Mark(p) ==
    \/ next[p] = "mark" /\ MarkDiagnosing(p) /\ Then(p, "create")
    \/ next[p] = "remark" /\ MarkDiagnosing(p) /\ Then(p, "none")

(* queueDiagnosisRun: the run is created, then the report points to it.    *)
CreateRun(p) ==
    /\ next[p] \in {"create", "recreate"}
    /\ made < MaxRuns
    /\ made' = made + 1
    /\ run' = [run EXCEPT ![made + 1] = "live"]
    /\ Then(p, IF next[p] = "create" THEN "link" ELSE "relink")
    /\ autoRuns' = IF next[p] = "create" THEN autoRuns ELSE [autoRuns EXCEPT ![p] = @ + 1]
    /\ UNCHANGED <<status, row, stale, hook, job, crashes, tested>>

(* The iteration of the task has closed: no run.  The retry marks the      *)
(* report as diagnosing all the same.                                      *)
CreateRunFails(p) ==
    /\ next[p] \in {"create", "recreate"}
    /\ Then(p, IF next[p] = "create" THEN "none" ELSE "remark")
    /\ UNCHANGED <<status, row, stale, agent, hook, job, seen>>

LinkRun(p) ==
    /\ next[p] \in {"link", "relink"}
    /\ lastRun' = [lastRun EXCEPT ![p] = made]
    /\ stale' = stale \ {p}
    /\ Then(p, IF next[p] = "link" THEN "none" ELSE "remark")
    /\ UNCHANGED <<status, attempt, diag, diagRun, actions, lastTest, agent, hook, job, seen>>

---------------------------------------------------------------------------
(* The worker closes a diagnosis run; a successful one has a hook to run.  *)
RunSucceeds(i) ==
    /\ Quiet
    /\ run[i] = "live"
    /\ run' = [run EXCEPT ![i] = "succeeded"]
    /\ hook' = i
    /\ UNCHANGED <<status, row, stale, made, next, job, seen>>

(* Failed, cancelled or reaped: nothing else is done about it.             *)
RunDies(i) ==
    /\ Quiet
    /\ run[i] = "live"
    /\ run' = [run EXCEPT ![i] = "dead"]
    /\ UNCHANGED <<status, row, stale, made, next, hook, job, seen>>

AnyWaiting(p) ==    \* mutant: the run is not compared
    status[p] \in {"diagnosing", "testing", "awaiting-operator"}

(* findReportForDiagnosisRun                                               *)
Waiting(p) ==
    /\ status[p] \in {"diagnosing", "testing", "awaiting-operator"}
    /\ lastRun[p] = hook

Unhooked == hook' = 0 /\ UNCHANGED <<agent, next, job, seen>>

HookFindsNoReport ==
    /\ hook # 0
    /\ \A p \in Reports : ~Waiting(p)
    /\ UNCHANGED <<status, row, stale>>
    /\ Unhooked

HookCannotParse(p) ==
    /\ hook # 0
    /\ Waiting(p)
    /\ Patch(p, "escalated")
    /\ UNCHANGED row
    /\ Unhooked

(* attachDiagnosis                                                         *)
Attach(p, proposal, required) ==
    /\ hook # 0
    /\ Waiting(p)
    /\ Patch(p, IF required > 0 THEN "awaiting-operator" ELSE "proposed")
    /\ diag' = [diag EXCEPT ![p] = proposal]
    /\ diagRun' = [diagRun EXCEPT ![p] = hook]
    /\ actions' = [actions EXCEPT ![p] = required]
    /\ UNCHANGED <<attempt, lastRun, lastTest>>
    /\ Unhooked

---------------------------------------------------------------------------
(* POST /:id/apply up to its first real wait: the files are written at     *)
(* once.  Nothing written and no SQL is "no-changes", which leaves the     *)
(* report applying; so does a test file that cannot be written.            *)
Apply(p) ==
    /\ Quiet
    /\ status[p] = "proposed"
    /\ diag[p] # "none"
    /\ UNCHANGED <<row, agent, next, hook, seen>>

ApplyToNoEffect(p) ==
    /\ Apply(p)
    /\ diag[p] # "sql"
    /\ Patch(p, "applying")
    /\ UNCHANGED job

Take(j, p, stage) ==
    /\ jobStage[j] = "idle"
    /\ jobStage' = [jobStage EXCEPT ![j] = stage]
    /\ jobReport' = [jobReport EXCEPT ![j] = p]
    /\ jobTry' = [jobTry EXCEPT ![j] = attempt[p]]

ApplyFiles(j, p) ==
    /\ Apply(p)
    /\ diag[p] = "files"
    /\ Patch(p, "testing")
    /\ Take(j, p, "test")

ApplySql(j, p) ==
    /\ Apply(p)
    /\ diag[p] = "sql"
    /\ Patch(p, "applying")
    /\ Take(j, p, "sql")

Release(j) ==
    /\ jobStage' = [jobStage EXCEPT ![j] = "idle"]
    /\ jobReport' = [jobReport EXCEPT ![j] = NoReport]
    /\ jobTry' = [jobTry EXCEPT ![j] = 0]

(* The MCP has answered.  None of these looks at the status again.         *)
SqlApplied(j) ==
    /\ Quiet
    /\ jobStage[j] = "sql"
    /\ Patch(jobReport[j], "testing")
    /\ jobStage' = [jobStage EXCEPT ![j] = "test"]
    /\ UNCHANGED <<row, agent, next, hook, jobReport, jobTry, seen>>

(* The migrations are in, the test file cannot be written.                 *)
SqlAppliedNoTest(j) ==
    /\ Quiet
    /\ jobStage[j] = "sql"
    /\ Release(j)
    /\ UNCHANGED <<status, row, stale, agent, next, hook, seen>>

(* A migration failed, or the MCP client threw and the route caught it.    *)
SqlFails(j) ==
    /\ Quiet
    /\ jobStage[j] = "sql"
    /\ Patch(jobReport[j], "escalated")
    /\ lastTest' = [lastTest EXCEPT ![jobReport[j]] = "error"]
    /\ Release(j)
    /\ UNCHANGED <<attempt, lastRun, diag, diagRun, actions, agent, next, hook, seen>>

McpUnavailableNoSteps(j, required) ==    \* mutant: the operator's steps are not stored
    /\ Quiet
    /\ jobStage[j] = "sql"
    /\ Patch(jobReport[j], "awaiting-operator")
    /\ Release(j)
    /\ UNCHANGED <<row, agent, next, hook, seen>>

McpUnavailable(j, required) ==
    /\ Quiet
    /\ jobStage[j] = "sql"
    /\ Patch(jobReport[j], "awaiting-operator")
    /\ actions' = [actions EXCEPT ![jobReport[j]] = required]
    /\ Release(j)
    /\ UNCHANGED <<attempt, lastRun, diag, diagRun, lastTest, agent, next, hook, seen>>

---------------------------------------------------------------------------
VerdictOneMore(p, passed) ==    \* mutant: off by one
    IF passed THEN "verified"
    ELSE IF attempt[p] > MaxTries THEN "escalated" ELSE "open"

(* recordTestOutcome and, for a failure with tries left, the retry.        *)
Verdict(p, passed) ==
    IF passed THEN "verified"
    ELSE IF attempt[p] >= MaxTries THEN "escalated" ELSE "open"

TestOutcome(j, passed) ==
    LET p == jobReport[j]
    IN  /\ Quiet
        /\ jobStage[j] = "test"
        /\ Patch(p, Verdict(p, passed))
        /\ lastTest' = [lastTest EXCEPT ![p] = IF passed THEN "passed" ELSE "failed"]
        /\ tested' = [tested EXCEPT ![p] = jobTry[j]]
        /\ Then(p, IF Verdict(p, passed) = "open" THEN "recreate" ELSE "none")
        /\ Release(j)
        /\ UNCHANGED <<attempt, lastRun, diag, diagRun, actions, agent, hook, crashes, autoRuns>>

---------------------------------------------------------------------------
(* The operator's buttons.                                                 *)
ActionDone(p) ==
    /\ Quiet
    /\ status[p] = "awaiting-operator"
    /\ actions[p] > 0
    /\ actions' = [actions EXCEPT ![p] = @ - 1]
    /\ Patch(p, IF actions[p] = 1 THEN "proposed" ELSE "awaiting-operator")
    /\ UNCHANGED <<attempt, lastRun, diag, diagRun, lastTest, agent, next, hook, job, seen>>

ConfirmOpen(p) ==    \* mutant: any report that is not closed can be confirmed
    /\ Quiet
    /\ status[p] \notin Closed \cup {"absent"}
    /\ Patch(p, "resolved")
    /\ UNCHANGED <<row, agent, next, hook, job, seen>>

Confirm(p) ==
    /\ Quiet
    /\ status[p] = "verified"
    /\ Patch(p, "resolved")
    /\ UNCHANGED <<row, agent, next, hook, job, seen>>

Dismiss(p) ==
    /\ Quiet
    /\ status[p] \notin Closed \cup {"absent"}
    /\ Patch(p, "dismissed")
    /\ UNCHANGED <<row, agent, next, hook, job, seen>>

---------------------------------------------------------------------------
Age(p) ==
    /\ Quiet
    /\ status[p] \in {"applying", "testing"}
    /\ stale' = stale \cup {p}
    /\ UNCHANGED <<status, row, agent, next, hook, job, seen>>

ReapApplying(p) ==    \* mutant: only reports stuck in applying are listed
    /\ Quiet
    /\ status[p] = "applying"
    /\ p \in stale
    /\ Patch(p, "escalated")
    /\ lastTest' = [lastTest EXCEPT ![p] = "error"]
    /\ UNCHANGED <<attempt, lastRun, diag, diagRun, actions, agent, next, hook, job, seen>>

(* reapStuckTroubleshootReports, at boot and with every tick.              *)
Reap(p) ==
    /\ Quiet
    /\ status[p] \in {"applying", "testing"}
    /\ p \in stale
    /\ Patch(p, "escalated")
    /\ lastTest' = [lastTest EXCEPT ![p] = "error"]
    /\ UNCHANGED <<attempt, lastRun, diag, diagRun, actions, agent, next, hook, job, seen>>

(* The process dies and is started again.                                  *)
Restart ==
    /\ crashes < MaxCrashes
    /\ crashes' = crashes + 1
    /\ next' = [p \in Reports |-> "none"]
    /\ hook' = 0
    /\ jobStage' = [j \in Jobs |-> "idle"]
    /\ jobReport' = [j \in Jobs |-> NoReport]
    /\ jobTry' = [j \in Jobs |-> 0]
    /\ UNCHANGED <<status, row, stale, agent, autoRuns, tested>>

---------------------------------------------------------------------------
Hook ==
    \/ HookFindsNoReport
    \/ \E p \in Reports : HookCannotParse(p)
    \/ \E p \in Reports, d \in Diagnoses \ {"none"}, n \in 0 .. MaxActions : Attach(p, d, n)

Proceed(p) == Mark(p) \/ CreateRun(p) \/ CreateRunFails(p) \/ LinkRun(p)

Operator(p) ==
    \/ Report(p)
    \/ Rediagnose(p)
    \/ ApplyToNoEffect(p)
    \/ \E j \in Jobs : ApplyFiles(j, p) \/ ApplySql(j, p)
    \/ ActionDone(p)
    \/ Confirm(p)
    \/ Dismiss(p)

JobStep(j) ==
    \/ SqlApplied(j)
    \/ SqlAppliedNoTest(j)
    \/ SqlFails(j)
    \/ \E n \in 1 .. MaxActions : McpUnavailable(j, n)
    \/ \E passed \in BOOLEAN : TestOutcome(j, passed)

Next ==
    \/ \E p \in Reports : Operator(p) \/ Proceed(p) \/ Age(p) \/ Reap(p)
    \/ \E i \in 1 .. MaxRuns : RunSucceeds(i) \/ RunDies(i)
    \/ Hook
    \/ \E j \in Jobs : JobStep(j)
    \/ Restart

Spec == Init /\ [][Next]_vars

(* A handler goes on, time passes, and the reaper's timer fires.  Neither  *)
(* the operator nor the agent nor the test need ever do anything.          *)
Fairness ==
    /\ WF_vars(Hook)
    /\ \A p \in Reports : WF_vars(Proceed(p)) /\ WF_vars(Age(p)) /\ WF_vars(Reap(p))

FairSpec == Spec /\ Fairness

---------------------------------------------------------------------------
(* A report that waits for the operator tells him what for: otherwise no   *)
(* button could ever move it on (attachDiagnosis, the mcp-unavailable      *)
(* branch of applyDiagnosisFiles, markOperatorActionDone).                 *)
AwaitingHasActions ==
    \A p \in Reports : status[p] = "awaiting-operator" => actions[p] > 0

(* A failing test queues paid diagnosis runs at most twice per report,     *)
(* plus one for each crash that lost the attempt count between the queue   *)
(* and the mark (recordTestOutcome, runIntegrationTestStage).              *)
BoundedRetries ==
    \A p \in Reports : autoRuns[p] <= MaxTries - 1 + crashes

(* A report is verified or resolved only on the strength of a passed test  *)
(* that nothing has overruled since.                                       *)
VerifiedByTest ==
    \A p \in Reports : status[p] \in {"verified", "resolved"} => lastTest[p] = "passed"

(* The output of a superseded run never replaces the diagnosis of a newer  *)
(* one, however late it arrives (findReportForDiagnosisRun).               *)
DiagnosisNeverRegresses == [][\A p \in Reports : diagRun'[p] >= diagRun[p]]_diagRun

(* Nothing stays applying or testing: whatever happens to the handler, the *)
(* reaper ends it.                                                         *)
NeverStuckApplying ==
    \A p \in Reports :
        status[p] \in {"applying", "testing"} ~> status[p] \notin {"applying", "testing"}

---------------------------------------------------------------------------
(* What the code and its documents say and the program does not do.        *)

(* "report is already closed" (core troubleshoot.ts 226): a resolved or    *)
(* dismissed report keeps its status unless it is diagnosed again.         *)
ClosedStays ==
    [][\A p \in Reports : status[p] \in Closed => status'[p] \in {status[p], "diagnosing"}]_status
====
