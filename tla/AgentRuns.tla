---- MODULE AgentRuns ----
(***************************************************************************)
(* The agent-run worker of the sidecar (apps/sidecar/src/modules/          *)
(* agent-runs/worker.ts) with the callers that queue runs and the coworker *)
(* chat that waits for them.                                               *)
(*                                                                         *)
(* The sidecar is one Node process over a synchronous SQLite driver.  A    *)
(* handler that awaits only the database therefore runs to its end before  *)
(* any other timer, request or child event is served, but the process may  *)
(* still die between two of its commits.  Each commit is one action here;  *)
(* cont[r] names the commit that comes next for run r, and everything that *)
(* starts from a timer, a request or a child waits until the handlers in   *)
(* progress are done (Quiet).  Crash does not wait.                        *)
(***************************************************************************)
EXTENDS Integers, FiniteSets

CONSTANTS
    Runs,           \* the ids a run row can get (bound: how many rows)
    NoRun,          \* not a run
    MaxConcurrent,  \* MAX_CONCURRENT
    MaxBoots,       \* bound: how often the process is started
    DiskFaults      \* whether writing the evidence file may throw

ASSUME RunsAssumption == NoRun \notin Runs
ASSUME MaxConcurrentAssumption == MaxConcurrent \in Nat \ {0}
ASSUME MaxBootsAssumption == MaxBoots \in Nat
ASSUME DiskFaultsAssumption == DiskFaults \in BOOLEAN

VARIABLES
    (* rows of the database *)
    status,    \* agent_runs.status
    kind,      \* what queued the run: agent_kind, as far as the worker looks
    scope,     \* whether the run belongs to a task or to a project
    origin,    \* the run this one corrects (its prompt has the retry marker)
    entries,   \* work_entries written for the run
    told,      \* inbox items about the run
    reply,     \* the coworker message bound to the run
    stale,     \* rows not updated for STALE_RUN_MS
    (* memory of the process *)
    proc,      \* down, serving or stopping
    inFlight,  \* the inFlight map
    batch,     \* queued rows a tick has listed and not yet started
    reaping,   \* running rows the boot pass has listed and not yet closed
    cont,      \* the next commit of the handler working on a run
    tails,     \* coworker requests waiting for a run
    boots

rows == <<status, kind, scope, origin, entries, told, reply>>
memory == <<proc, inFlight, batch, reaping, cont, tails>>
vars == <<rows, stale, memory, boots>>

Statuses == {"absent", "queued", "running", "succeeded", "failed", "cancelled"}
Terminal == {"succeeded", "failed", "cancelled"}
Design == {"designer", "assigner"}
Kinds == {"build", "turn"} \cup Design
Steps == {"none", "place", "hook", "requeue", "failnote", "turn", "note"}

TypeOK ==
    /\ status \in [Runs -> Statuses]
    /\ kind \in [Runs -> Kinds]
    /\ scope \in [Runs -> {"task", "project"}]
    /\ origin \in [Runs -> Runs \cup {NoRun}]
    /\ entries \in [Runs -> Nat]
    /\ told \in [Runs -> SUBSET {"ok", "failed"}]
    /\ reply \in [Runs -> {"none", "empty", "ok", "bad"}]
    /\ stale \in SUBSET Runs
    /\ proc \in {"down", "serving", "stopping"}
    /\ inFlight \in SUBSET Runs
    /\ batch \in SUBSET Runs
    /\ reaping \in SUBSET Runs
    /\ cont \in [Runs -> Steps]
    /\ tails \in SUBSET Runs
    /\ boots \in 0 .. MaxBoots

Init ==
    /\ status = [r \in Runs |-> "absent"]
    /\ kind = [r \in Runs |-> "build"]
    /\ scope = [r \in Runs |-> "task"]
    /\ origin = [r \in Runs |-> NoRun]
    /\ entries = [r \in Runs |-> 0]
    /\ told = [r \in Runs |-> {}]
    /\ reply = [r \in Runs |-> "none"]
    /\ stale = {}
    /\ proc = "down"
    /\ inFlight = {}
    /\ batch = {}
    /\ reaping = {}
    /\ cont = [r \in Runs |-> "none"]
    /\ tails = {}
    /\ boots = 0

---------------------------------------------------------------------------
Up == proc # "down"
Quiet ==
    /\ Up
    /\ batch = {}
    /\ reaping = {}
    /\ \A r \in Runs : cont[r] = "none"

(* Every write to a row refreshes updated_at.                              *)
Touch(r) == stale' = stale \ {r}

Insert(r, k, s, parent) ==
    /\ status[r] = "absent"
    /\ status' = [status EXCEPT ![r] = "queued"]
    /\ kind' = [kind EXCEPT ![r] = k]
    /\ scope' = [scope EXCEPT ![r] = s]
    /\ origin' = [origin EXCEPT ![r] = parent]

(* POST /agent-runs and the use cases behind it: any kind for a task, the  *)
(* design kinds for a project too.                                         *)
QueueRun(r, k, s) ==
    /\ proc = "serving"
    /\ Quiet
    /\ k # "turn"
    /\ s = "project" => k \in Design
    /\ Insert(r, k, s, NoRun)
    /\ UNCHANGED <<entries, told, reply, stale, memory, boots>>

(* startTurn: queue a run for the task, then the empty agent message; the  *)
(* request that did it waits for the run.                                  *)
QueueTurn(r) ==
    /\ proc = "serving"
    /\ Quiet
    /\ Insert(r, "turn", "task", NoRun)
    /\ cont' = [cont EXCEPT ![r] = "place"]
    /\ UNCHANGED <<entries, told, reply, stale, proc, inFlight, batch, reaping, tails, boots>>

PlaceReply(r) ==
    /\ cont[r] = "place"
    /\ cont' = [cont EXCEPT ![r] = "none"]
    /\ reply' = [reply EXCEPT ![r] = "empty"]
    /\ tails' = tails \cup {r}
    /\ UNCHANGED <<status, kind, scope, origin, entries, told, stale,
                   proc, inFlight, batch, reaping, boots>>

---------------------------------------------------------------------------
(* The timer.  No listed run is in inFlight yet when the loop tests the    *)
(* cap, so a tick that finds a free slot starts every queued run.          *)
Tick ==
    /\ proc = "serving"
    /\ Quiet
    /\ Cardinality(inFlight) < MaxConcurrent
    /\ batch' = {r \in Runs : status[r] = "queued"} \ inFlight
    /\ batch' # {}
    /\ UNCHANGED <<rows, stale, proc, inFlight, reaping, cont, tails, boots>>

StartRun(r) ==
    /\ r \in batch
    /\ status[r] = "queued"
    /\ batch' = batch \ {r}
    /\ status' = [status EXCEPT ![r] = "running"]
    /\ inFlight' = inFlight \cup {r}
    /\ Touch(r)
    /\ UNCHANGED <<kind, scope, origin, entries, told, reply, proc, reaping, cont, tails, boots>>

RefuseRunLeavesRow(r) ==    \* mutant: returns without closing the row
    /\ r \in batch
    /\ status[r] = "queued"
    /\ batch' = batch \ {r}
    /\ UNCHANGED <<rows, stale, proc, inFlight, reaping, cont, tails, boots>>

(* No runner for the provider, or no workspace for the run: the row is     *)
(* closed and nobody is told.                                              *)
RefuseRun(r) ==
    /\ r \in batch
    /\ status[r] = "queued"
    /\ batch' = batch \ {r}
    /\ status' = [status EXCEPT ![r] = "failed"]
    /\ Touch(r)
    /\ UNCHANGED <<kind, scope, origin, entries, told, reply,
                   proc, inFlight, reaping, cont, tails, boots>>

---------------------------------------------------------------------------
(* The child is done with the run.  A runner that fails at once does so    *)
(* while the tick is still starting the others.                            *)
ChildDone(r) ==
    /\ Up
    /\ r \in inFlight
    /\ inFlight' = inFlight \ {r}

(* closeAgentRunSucceeded: one transaction for the row and, for a run of a *)
(* task, its evidence and its work entry.                                  *)
BillEverything(r) == [entries EXCEPT ![r] = @ + 1]    \* mutant: no scope test
Bill(r) ==
    IF scope[r] = "task" THEN [entries EXCEPT ![r] = @ + 1] ELSE entries

ChildSucceeds(r) ==
    /\ Quiet
    /\ ChildDone(r)
    /\ status' = [status EXCEPT ![r] = "succeeded"]
    /\ entries' = Bill(r)
    /\ cont' = [cont EXCEPT ![r] = IF kind[r] \in Design THEN "hook" ELSE "turn"]
    /\ Touch(r)
    /\ UNCHANGED <<kind, scope, origin, told, reply, proc, batch, reaping, tails, boots>>

(* The evidence file cannot be written: the exception leaves processOneRun *)
(* with the row still running and nobody in charge of it.                  *)
EvidenceWriteThrows(r) ==
    /\ DiskFaults
    /\ Quiet
    /\ ChildDone(r)
    /\ UNCHANGED <<rows, stale, proc, batch, reaping, cont, tails, boots>>

ChildFailsUnanswered(r) ==    \* mutant: the chat is not completed on failure
    /\ ChildDone(r)
    /\ status' = [status EXCEPT ![r] = "failed"]
    /\ cont' = [cont EXCEPT ![r] = "note"]
    /\ Touch(r)
    /\ UNCHANGED <<kind, scope, origin, entries, told, reply, proc, batch, reaping, tails, boots>>

ChildFails(r) ==
    /\ ChildDone(r)
    /\ status' = [status EXCEPT ![r] = "failed"]
    /\ cont' = [cont EXCEPT ![r] = "turn"]
    /\ Touch(r)
    /\ UNCHANGED <<kind, scope, origin, entries, told, reply, proc, batch, reaping, tails, boots>>

(* Killed by the operator (cancelInFlightRun), by the timeout or by the    *)
(* stall watch of the runner.                                              *)
ChildCancelled(r) ==
    /\ Quiet
    /\ ChildDone(r)
    /\ status' = [status EXCEPT ![r] = "cancelled"]
    /\ cont' = [cont EXCEPT ![r] = "turn"]
    /\ Touch(r)
    /\ UNCHANGED <<kind, scope, origin, entries, told, reply, proc, batch, reaping, tails, boots>>

(* onChunk: output arrives, the row is refreshed.                          *)
Chunk(r) ==
    /\ Quiet
    /\ r \in inFlight \cap stale
    /\ Touch(r)
    /\ UNCHANGED <<rows, memory, boots>>

---------------------------------------------------------------------------
(* The design hooks, in the handler of a run that succeeded.               *)
HookOk(r) ==
    /\ cont[r] = "hook"
    /\ cont' = [cont EXCEPT ![r] = "turn"]
    /\ \/ UNCHANGED <<status, kind, scope, origin>>
       \/ /\ kind[r] = "designer"    \* queueFrameAssignerRun
          /\ \E a \in Runs : Insert(a, "assigner", "project", NoRun)
    /\ UNCHANGED <<entries, told, reply, stale, proc, inFlight, batch, reaping, tails, boots>>

HookFailsAgain(r, retryableParse) ==    \* mutant: the retry marker is not looked at
    /\ cont[r] = "hook"
    /\ status' = [status EXCEPT ![r] = "failed"]
    /\ cont' = [cont EXCEPT ![r] = IF retryableParse THEN "requeue" ELSE "failnote"]
    /\ Touch(r)
    /\ UNCHANGED <<kind, scope, origin, entries, told, reply,
                   proc, inFlight, batch, reaping, tails, boots>>

HookFailsQuietly(r, retryableParse) ==    \* mutant: the run is degraded only to be retried
    /\ cont[r] = "hook"
    /\ LET retry == retryableParse /\ origin[r] = NoRun
       IN  /\ status' = IF retry THEN [status EXCEPT ![r] = "failed"] ELSE status
           /\ cont' = [cont EXCEPT ![r] = IF retry THEN "requeue" ELSE "failnote"]
    /\ Touch(r)
    /\ UNCHANGED <<kind, scope, origin, entries, told, reply,
                   proc, inFlight, batch, reaping, tails, boots>>

(* handleDesignHookFailure: the run is degraded; unparseable output is     *)
(* tried again, once.                                                      *)
HookFails(r, retryableParse) ==
    /\ cont[r] = "hook"
    /\ status' = [status EXCEPT ![r] = "failed"]
    /\ cont' = [cont EXCEPT ![r] =
                    IF retryableParse /\ origin[r] = NoRun THEN "requeue" ELSE "failnote"]
    /\ Touch(r)
    /\ UNCHANGED <<kind, scope, origin, entries, told, reply,
                   proc, inFlight, batch, reaping, tails, boots>>

(* The corrective run; queueing it fails when the iteration has closed or  *)
(* the project is gone.                                                    *)
Requeue(r) ==
    /\ cont[r] = "requeue"
    /\ cont' = [cont EXCEPT ![r] = "none"]
    /\ \/ UNCHANGED <<status, kind, scope, origin>>
       \/ \E c \in Runs : Insert(c, kind[r], scope[r], r)
    /\ UNCHANGED <<entries, told, reply, stale, proc, inFlight, batch, reaping, tails, boots>>

FailNote(r) ==
    /\ cont[r] = "failnote"
    /\ cont' = [cont EXCEPT ![r] = "none"]
    /\ told' = [told EXCEPT ![r] = @ \cup {"failed"}]
    /\ UNCHANGED <<status, kind, scope, origin, entries, reply, stale,
                   proc, inFlight, batch, reaping, tails, boots>>

(* finalizeAgentTurn: what the placeholder of a run says, from its row.    *)
Answer(r) == [reply EXCEPT ![r] = IF status[r] = "succeeded" THEN "ok" ELSE "bad"]

(* completeCoworkerTurn: a no-op when no message is bound to the run.      *)
CompleteTurn(r) ==
    /\ cont[r] = "turn"
    /\ cont' = [cont EXCEPT ![r] = IF status[r] = "cancelled" THEN "none" ELSE "note"]
    /\ IF reply[r] = "none" THEN UNCHANGED reply ELSE reply' = Answer(r)
    /\ UNCHANGED <<status, kind, scope, origin, entries, told, stale,
                   proc, inFlight, batch, reaping, tails, boots>>

Note(r) ==
    /\ cont[r] = "note"
    /\ cont' = [cont EXCEPT ![r] = "none"]
    /\ told' = [told EXCEPT ![r] = @ \cup {IF status[r] = "succeeded" THEN "ok" ELSE "failed"}]
    /\ UNCHANGED <<status, kind, scope, origin, entries, reply, stale,
                   proc, inFlight, batch, reaping, tails, boots>>

---------------------------------------------------------------------------
TailFinalizesEarly(r) ==    \* mutant: any started run counts as finished
    /\ Quiet
    /\ r \in tails
    /\ status[r] # "queued"
    /\ tails' = tails \ {r}
    /\ reply' = Answer(r)
    /\ UNCHANGED <<status, kind, scope, origin, entries, told, stale,
                   proc, inFlight, batch, reaping, cont, boots>>

(* waitForRun polls the row; on a finished run the request fills the       *)
(* placeholder too.  It gives up after RUN_TIMEOUT_MS.                     *)
TailFinalizes(r) ==
    /\ Quiet
    /\ r \in tails
    /\ status[r] \in Terminal
    /\ tails' = tails \ {r}
    /\ reply' = Answer(r)
    /\ UNCHANGED <<status, kind, scope, origin, entries, told, stale,
                   proc, inFlight, batch, reaping, cont, boots>>

TailTimesOut(r) ==
    /\ Quiet
    /\ r \in tails
    /\ tails' = tails \ {r}
    /\ UNCHANGED <<rows, stale, proc, inFlight, batch, reaping, cont, boots>>

---------------------------------------------------------------------------
(* STALE_RUN_MS pass without a write to the row of a running run.          *)
Age(r) ==
    /\ Quiet \/ ~Up
    /\ status[r] = "running"
    /\ r \notin stale
    /\ stale' = stale \cup {r}
    /\ UNCHANGED <<rows, memory, boots>>

(* stopAgentRunWorker: no more ticks; the runs in flight go on until the   *)
(* server has closed and the process exits.                                *)
Stop ==
    /\ proc = "serving"
    /\ Quiet
    /\ boots < MaxBoots
    /\ proc' = "stopping"
    /\ UNCHANGED <<rows, stale, inFlight, batch, reaping, cont, tails, boots>>

LoseMemory ==
    /\ proc' = "down"
    /\ inFlight' = {}
    /\ batch' = {}
    /\ reaping' = {}
    /\ cont' = [r \in Runs |-> "none"]
    /\ tails' = {}
    /\ UNCHANGED <<rows, stale, boots>>

Exit == proc = "stopping" /\ Quiet /\ LoseMemory

Crash == Up /\ boots < MaxBoots /\ LoseMemory

BootReapsUnfinished ==    \* mutant: every unfinished row is an orphan
    /\ proc = "down"
    /\ boots < MaxBoots
    /\ boots' = boots + 1
    /\ proc' = "serving"
    /\ reaping' = {r \in Runs : status[r] \in {"queued", "running"}}
    /\ UNCHANGED <<rows, stale, inFlight, batch, cont, tails>>

BootReapsLive ==    \* mutant: the pass also runs while the worker serves
    /\ proc = "down" \/ (proc = "serving" /\ Quiet)
    /\ boots < MaxBoots
    /\ boots' = boots + 1
    /\ proc' = "serving"
    /\ reaping' = {r \in stale : status[r] = "running"}
    /\ UNCHANGED <<rows, stale, inFlight, batch, cont, tails>>

(* startAgentRunWorker: reapOrphanedRuns lists the running rows once and   *)
(* keeps the stale ones.                                                   *)
Boot ==
    /\ proc = "down"
    /\ boots < MaxBoots
    /\ boots' = boots + 1
    /\ proc' = "serving"
    /\ reaping' = {r \in stale : status[r] = "running"}
    /\ UNCHANGED <<rows, stale, inFlight, batch, cont, tails>>

ReapOne(r) ==
    /\ r \in reaping
    /\ reaping' = reaping \ {r}
    /\ status' = [status EXCEPT ![r] = "cancelled"]
    /\ Touch(r)
    /\ UNCHANGED <<kind, scope, origin, entries, told, reply,
                   proc, inFlight, batch, cont, tails, boots>>

---------------------------------------------------------------------------
Request(r) == QueueTurn(r) \/ \E k \in Kinds, s \in {"task", "project"} : QueueRun(r, k, s)
Take(r) == StartRun(r) \/ RefuseRun(r)
End(r) == ChildSucceeds(r) \/ EvidenceWriteThrows(r) \/ ChildFails(r) \/ ChildCancelled(r)
Continue(r) ==
    \/ PlaceReply(r)
    \/ HookOk(r)
    \/ \E retryableParse \in BOOLEAN : HookFails(r, retryableParse)
    \/ Requeue(r)
    \/ FailNote(r)
    \/ CompleteTurn(r)
    \/ Note(r)

RunStep(r) ==
    \/ Request(r)
    \/ Take(r)
    \/ Chunk(r)
    \/ End(r)
    \/ Continue(r)
    \/ TailFinalizes(r)
    \/ TailTimesOut(r)
    \/ Age(r)
    \/ ReapOne(r)

Next == Tick \/ Stop \/ Exit \/ Crash \/ Boot \/ \E r \in Runs : RunStep(r)

Spec == Init /\ [][Next]_vars

(* The timer fires; a started run is ended by its child or by the runner's *)
(* timeout; the event loop finishes what it began; a waiting request polls *)
(* or gives up; a process told to stop exits; and the operator starts the  *)
(* application again.                                                      *)
Fairness ==
    /\ WF_vars(Tick)
    /\ WF_vars(Exit)
    /\ WF_vars(Boot)
    /\ \A r \in Runs :
        /\ WF_vars(Take(r))
        /\ WF_vars(End(r))
        /\ WF_vars(Continue(r))
        /\ WF_vars(ReapOne(r))
        /\ WF_vars(TailFinalizes(r) \/ TailTimesOut(r))

FairSpec == Spec /\ Fairness

---------------------------------------------------------------------------
(* A run being listed for start is queued and owned by nobody; a run in    *)
(* flight has a running row and is not a victim of the boot pass: no run   *)
(* is ever executed twice, and no live run is closed as an orphan          *)
(* (worker.ts tick, processOneRun, reapOrphanedRuns).                      *)
Ownership ==
    /\ \A r \in batch : status[r] = "queued" /\ r \notin inFlight
    /\ \A r \in inFlight : status[r] = "running" /\ r \notin reaping /\ cont[r] = "none"

(* Work is charged at most once per run, only for a run of a task, and     *)
(* exactly when the run got as far as succeeding; a design run whose       *)
(* output was unusable stays charged (closeAgentRunSucceeded,              *)
(* markAgentRunFailed).                                                    *)
BilledOnce ==
    \A r \in Runs :
        /\ entries[r] > 0 => /\ entries[r] = 1
                             /\ scope[r] = "task"
                             /\ \/ status[r] = "succeeded"
                                \/ status[r] = "failed" /\ kind[r] \in Design
        /\ status[r] = "succeeded" /\ scope[r] = "task" => entries[r] = 1

(* The inbox never tells the operator that a run went well when its row    *)
(* says it did not, nor the reverse, nor both (processOneRun's order:      *)
(* hooks first, inbox last).                                               *)
InboxTruthful ==
    \A r \in Runs :
        /\ "ok" \in told[r] => status[r] = "succeeded"
        /\ "failed" \in told[r] => status[r] = "failed"

(* The answer in the coworker chat, written by the worker or by the        *)
(* waiting request, agrees with how the run ended.                         *)
ReplyTruthful ==
    \A r \in Runs :
        /\ reply[r] = "ok" => status[r] = "succeeded"
        /\ reply[r] = "bad" => status[r] \in {"failed", "cancelled"}

(* A design run is corrected at most once, only after it was degraded, and *)
(* its correction is never corrected again (DESIGN_RETRY_MARKER).          *)
RetryOnce ==
    /\ \A r \in Runs : origin[r] # NoRun =>
            /\ origin[origin[r]] = NoRun
            /\ status[origin[r]] = "failed"
    /\ \A r, s \in Runs : origin[r] = origin[s] /\ origin[r] # NoRun => r = s

(* The worker implements the life of a run as RunLifecycle promises it.    *)
Lifecycle ==
    INSTANCE RunLifecycle
    WITH stage <- status, ledger <- {r \in Runs : entries[r] > 0}

LifecycleSpec == Lifecycle!Spec

(* A queued run is eventually taken, through crashes and restarts.         *)
QueueDrains == \A r \in Runs : status[r] = "queued" ~> status[r] # "queued"

(* A coworker turn whose child was started is answered, whatever the       *)
(* outcome, as long as the process lives; only a run whose evidence could  *)
(* not be written is left behind (worker.ts 653-661, 719-753).             *)
LeftBehind(r) == status[r] = "running" /\ r \notin inFlight

TurnAnswered ==
    \A r \in Runs : r \in inFlight ~> (reply[r] # "empty" \/ ~Up \/ LeftBehind(r))

---------------------------------------------------------------------------
(* What the code says of itself and does not do.                           *)

(* "maxConcurrent" (worker.ts 23, 769-772, 872): the runs in flight stay   *)
(* within the cap.                                                         *)
CapRespected == Cardinality(inFlight) <= MaxConcurrent
====
