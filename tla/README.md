# Verification of Tortuga OS

Tortuga OS is a desktop application in which one operator runs consultancy
projects with a team of AI agents.  A Tauri shell starts a *sidecar*, one Node
process that serves HTTP on a loopback port, keeps everything in a SQLite
database, and runs the children: agents (`claude`), gates (`flutter analyze`,
`flutter build`, ...), integration tests, scaffolds, MCP servers and devices.
The panels of the user interface fetch what they show, poll, and send requests.
This directory holds TLA+ models of the parts in which order, time, children,
stale views and crashes matter, the TLC runs that check them, and proofs for
every value of the constants.

`PROJECT.json` is the index: components, runs, the line range behind every
definition (`map`), the mutants that show each property can fail, the hazards
the properties are for, and the theorems.

## 1. Inventory

| Component | State | Operations | What is hard | Correct when |
|---|---|---|---|---|
| Agent-run worker (`apps/sidecar/.../agent-runs/worker.ts`, `core/use-cases/agent-runs.ts`) | `agent_runs` rows; `inFlight` map, timer, `stopped` flag | queue, tick, start, refuse, child succeeds / fails / is cancelled, post-run hooks, corrective retry, inbox item, boot pass over orphans, stop | several commits per run with a possible crash between any two; slots; restarts under live children | one owner per run, billed once, inbox and chat agree with the row, no run forgotten |
| Troubleshooter (`troubleshoot/*`, `core/use-cases/troubleshoot.ts`) | report with status, attempts, diagnosis, operator actions, last test | report, rediagnose, attach, apply files / SQL, test, retry, confirm, dismiss, reap | requests that wait minutes for MCP and tests while the operator goes on; late diagnoses; a reaper with the same deadline as the test | bounded retries, verdicts that rest on tests, nothing stuck |
| Tasks and iterations (`core/use-cases/tasks.ts`, `domain/state-machines/task.ts`) | task status, current iteration, iteration rows | start, submit, approve, reject, reopen | every other component finds "the open iteration" through these | a gapless chain with one open iteration |
| Gates and gate runner (`core/use-cases/gates.ts`, `gates/service.ts`, `gates/runner.ts`, `gates/fidelity-step.ts`) | gate rows per iteration; `inFlightRuns` per task | create, judge, reset, run a list of gates | the child runs for minutes while rows are created, deleted, judged and the iteration closes | verdicts reach the row they are about; no task is locked out |
| Evidence, work entries, step acknowledgements | rows per iteration; running total on the task | create, log, bill, acknowledge | two writers of one total; runs that end in a closed iteration | total equals the entries, history untouched |
| Task page (`ui-flows/TaskDetail.tsx`) | what it fetched of the task, its runs and gates; requests under way | the wizard's buttons, polls, refetches | derives its steps from parts fetched at different times; approvals of two requests | no button leads into an error; no verdict outlives the code (one does: section 4); every run is followed to its end |
| Agent runners (`packages/agent-runner`) | child, its pipe, timers, the text streamed so far, flags for the outcome | spawn, read a line, stall watch, time out, cancel | timers, signals and the exit overtake what was printed earlier; text arrives twice, in chunks decoded one by one | one true outcome per call, the answer delivered whole (once only where no character is split: section 4) |
| Quotes and phases (`core/use-cases/quotes.ts`, `QuotePanel.tsx`) | versions of the quote, items, milestones, modules, totals; phases | create, change, move and delete rows; discount, totals by hand; send, approve, ask for changes | guards spread over a dozen requests; totals derived in a commit of their own; a move of two requests | one live version, approval is final, totals follow the items |
| Kits, stories, discovery (`kit-templates.ts`, `stories.ts`, `discovery/*`, `DiscoveryChat.tsx`) | stories, first tasks, conversations with their draft | instantiate, converse, propose, approve, materialize | turns that overlap or lose their window; materialization of many commits under codes that are unique everywhere | what is materialized is what was read, whole |
| Registries, trash, connections, secrets, inbox | rows with a trash mark; sealed secrets | create, patch, delete, restore; wizard; sweep | rows that come back; a wizard of two requests; lists out of date | codes and names unique, agents get what was told |
| Desktop shell (`apps/desktop/src-tauri`) | the sidecar process, its token and port | start, handshake, close | a child that dies; a key that is as old as the token | secrets stay readable (they do not: section 4) |
| Preview and emulator (`preview/*`, `EmulatorPanel.tsx`) | maps of machines and apps in memory, sockets, device sessions | boot, adopt, kill, launch, stop, mirror | adb is asked in children while other requests go on; a restart forgets everything | one machine, one app, sessions end with their socket |
| Scaffold (`scaffold/*`, `ScaffoldPanel.tsx`) | run records, history file, the panel's copy | run, child by child; repair | two writers of one file, deaths, a panel that is left and opened | history and panel say what became of the run |
| Design frames (`design/*`, `DesignPanel.tsx`) | frames per project and story, designer and assigner runs | import, generate, assign, move, approve, delete, score | hooks of many commits; runs that answer for an older pool; re-imports under an approval | the operator's word stands, a success brought frames |
| Coworker chat (`coworker/service.ts`, `CoworkerChat.tsx`) | conversation, messages with the run they wait for; the panel's copy | start a turn, tail the run, complete, change phase | four kinds of answers overwrite one list | every turn is answered truthfully; nothing shown is taken back |
| SQLite storage, domain machines | tables, transactions, unique keys | what the use cases call | - | part of the modules above |
| Workspace, skills, MCP server, HTTP layer, other panels | files, single rows, views | CRUD, reads | little | not modelled, see section 8 |

How they interact: HTTP requests call the use cases; use cases call the storage;
the worker's timer picks up rows that requests have queued; the worker calls the
troubleshooter's, the designer's and the coworker's completion as post-run hooks;
a failing test of the troubleshooter queues a run for the worker; runs of a task
are billed to its iteration; panels see all of it late.

### Atomicity

The sidecar is a single Node process and the SQLite driver (better-sqlite3) is
synchronous.  A chain of `await`s on the storage therefore runs in microtasks
and finishes before the next timer, request, or child event is served.  What
*is* concurrent, and what the models interleave: whatever happens between the
spawn of a child and its exit, a call to an MCP server, to adb or to a device, a
sleep between polls, the timers, and the requests of a panel that sends more
than one.  A crash, on the other hand, may come between any two commits.  Where a
handler makes several commits and its component survives a crash, either each
commit is an action of its own and a guard (`Quiet`, `next`) keeps everything but
the crash out of the middle, or an action of its own cuts the handler short after
any number of its commits (`Die`, `CutKit`, `CutMaterialize`, `DiesInHook`,
`ScaffoldDies`).

## 2. Modules

| Module | Models | State |
|---|---|---|
| `RunLifecycle` | abstract: what the worker promises about one run | stage of each run, the runs charged |
| `AgentRuns` | worker, queueing use cases, coworker turns, boot, stop, crash | rows (`status`, `kind`, `scope`, `origin`, `entries`, `told`, `reply`), memory (`inFlight`, `batch`, `reaping`, `cont`, `tails`), process (`proc`, `boots`), `stale` |
| `Troubleshoot` | reports, diagnosis runs, apply requests, tests, reaper | report rows, runs, `next` (the next commit of a handler), jobs (apply requests waiting for MCP or a test) |
| `TaskWorkflow` | one task, its iterations, gates, gate runner, acknowledgements, evidence, time, agent runs | `task`, `cur`, `iters`, `gates`, `gateRun`, ... |
| `TaskDesk` (extends `TaskWorkflow`) | the wizard of the task page over it | `view` (what was fetched, and whose verdict was heard last), `due` (parts being fetched, QA runs asked for a verdict), `asked` (the request waited for), what each run is and said, `filed` (which verdict file may answer for which QA run) |
| `RunnerPort` | abstract: what the port of the runners promises about one call | stage of the call, the text delivered |
| `ClaudeCliRunner` | one call of the claude runner: child, pipe, timers, stall watch, cancellation | `proc`, `pipe`, `timer`, `cancelled`, `failure`, `streamed`, `output`, `outcome`, ...; `told` is what the agent said, each piece once |
| `Quotes` | quote, items, milestones, palette, phases; the quote panel's moves | `quotes` by version, `items`, `milestones`, `palette`, `phases`, `project`; `shown`, `moves` |
| `Scope` (extends `Quotes`) | stories, kits, discovery conversations and their window | `stories`, `tasked`, `convs`, `turns`, `chat` |
| `Registry` | clients, people, projects, trash, connections, secrets, variables, expenses, inbox; the shell | rows; `session`, `sidecar`, `web`, `wizard`, `told` |
| `Devices` | emulators, launched apps, mirror sockets and device sessions | `vm`, `managed`, `entry`, `boot`, `launches`, `app`, `ws`, `scrcpy`, `mirror` |
| `Scaffold` | scaffold runs, history file, panel, repair agent | `row`, `history`, `sheet`, `fixer` |
| `Design` | frames, designer and assigner runs, panel, fidelity score | `frame`, `job`, `gauge`, `board` |
| `Chat` | the coworker panel | `messages`, `talkPhase`, `turnRun`; `cowork`, `refresh`, `advance` |
| `MC*` | constants for TLC; `MCTaskWorkflow` and `MCOffice` also compose, `MCClaudeCliRunner` divides one call | `side`, `desk` |
| `*_proofs` | theorems: each of the module it is named after, `TaskWorkflow_proofs` also of `TaskDesk`, `Quotes_proofs` of `Scope`, `Office_proofs` of `Registry`, `Devices`, `Design` and `Chat` | |
| `DataFacts` | lemmas about data that the proofs share: induction over finite sets, greatest and least elements, sums, folds | |

`AgentRuns` refines `RunLifecycle` with `stage <- status` and
`ledger <- {r : entries[r] > 0}`; the abstract specification is a PROPERTY of the
run `agent_runs_live` and the theorem `LifecycleRefined`.  `ClaudeCliRunner` refines
`RunnerPort` with `stage <- Stage` (the outcome once there is one, `active` while the
runner's map holds the child) and `text <- output`: property of `claude_runner`,
theorem `PortRefined`.

Many modules carry *observers*, marked as such in their VARIABLES: they record
that a race the code does not exclude has happened (`raced`, `tangled`, `orphans`,
`late`, `misled`, `overtaken`, `blurred`, ...), so that a property can say what holds in every other
behaviour.  No guard reads an observer, except to bound a count.  Where an observer
excuses a property, the race it stands for is real behaviour of the code, the
property does not catch it, and the table at the end of section 4 says what it is.

### Correspondence

*AgentRuns.*  `Tick` is `tick()`: it lists the queued rows into `batch`;
`StartRun` and `RefuseRun` are the two ways `processOneRun` goes on from there.
The cap is tested in `Tick` only, because `inFlight` cannot grow between the
iterations of the loop: `processOneRun` suspends at its first `await`.
`ChildSucceeds`, `ChildFails`, `ChildCancelled` are the three outcomes of
`runner.run`, up to the first commit; `EvidenceWriteThrows` is the exception of
`mkdirSync`/`writeFileSync` between `inFlight.delete` and the commit.  `cont[r]`
holds what `processOneRun` still has to do for `r`: `hook` (`HookOk`, `HookFails`),
`requeue` (`Requeue`), `failnote`, `turn` (`CompleteTurn`), `note` (`Note`).  `tails`
are the requests inside `waitForRun`.  `Boot`/`ReapOne` are `startAgentRunWorker`
with `reapOrphanedRuns`; `stale` abstracts `now - updatedAt >= STALE_RUN_MS`.
The kinds of run are merged into those the worker distinguishes: `designer`,
`assigner` (frame-assigner), `turn` (a run that a coworker message waits for) and
`build` (the others; the diagnosis hook of the troubleshooter is in
`Troubleshoot`, the hooks of the designer in `Design`).

*Troubleshoot.*  `Report`, `Rediagnose` and the retry after a failed test are the
three ways a diagnosis is asked for; `Mark`, `CreateRun`/`CreateRunFails` and
`LinkRun` are the commits of `markDiagnosing` and `queueDiagnosisRun`, in the
order each caller makes them (the retry queues first and marks last).
`RunSucceeds`/`RunDies` stand for the worker; `hook` is the run whose
post-run hook is next.  An apply request is a job: `ApplyFiles` goes straight to
the test, `ApplySql` waits for the MCP, `ApplyToNoEffect` covers the answers that
leave the report in `applying` (nothing written, no test in the diagnosis, a
test file that cannot be written).  `jobTry` and `tested` are observers: the
attempt a test was started for.  `autoRuns` and `crashes` are observers too.

*TaskWorkflow.*  Each use case is one action named after it.  `gateRun` is the
entry of `inFlightRuns`; its `host` says where `runGatesForTaskInner` stands:
`top` of the loop, row `taken`, `child` running, or (for G5) waiting for a device
with the host's verdict `passed`/`failed`.  `Record` is the forced
`recordGateOutcome`; the row may have been deleted by a reset, and then the
`unwrap` throws and `finally` removes the entry.  Iterations other than the
current one are passed to `CreateEvidence`, `LogWorkEntry` and `CreateGate`
freely, as the routes allow it.  `run` are the agent runs seen from the task: in
which iteration they were queued and that they are closed once.

*TaskDesk.*  `view` is what the page fetched last; `Fetch(p)` is the arrival of
one of its three requests (`useAsyncData`), `Poll` the two intervals,
over the runs (`PollRuns`), which stops when none that it shows is active, and over
pending gates.  The verdict of a QA run is a
fourth request: it is sent for the newest QA run known to have succeeded
(`QaDone`), whenever that run changes and with every refetch of the runs (`Asks`).
Its answer (`HearVerdict`) may be the run's own verdict, or that of another run whose
file the route falls back on (`filed`), and a request that fails leaves what was
heard before, because `useAsyncData` keeps its data; `view.qa` is the run whose
verdict the page holds, and nothing compares it with the run it is shown for.
The derived values (`AgentDone`, `Verdict`, `GatesPassed`, `AutoApprove`) and the steps
(`StartStep` ... `ApproveStep`) are those of the page, computed from `view` and what
was heard; `Click...` are the handlers of the buttons, enabled by what the page
offers and acting on the state there is.  `ClickDecide`/`FinishDecide` are the two
requests of an approval or rejection (the submission's error is ignored),
`ClickRerun`/`FinishRerun` those of a repeated verification, `ClickVerify`/`GatesAnswered`
the long request of the gate runner.  `RunEnds` is the worker seen from here.  Four
observers are about QA runs: `outdated` (gates), `overtaken` (a run that succeeded has
edited files since this QA run was launched, whichever of the two was created first),
`blurred` (the QA run stood beside another run, or behind one that edited files and
failed) and `strayed` (the answer heard last was not the verdict of the newest QA run).
`VerdictOnLatestCode` compares the page's rule, which knows times of creation only,
with what became of the files: a verdict that counts on a page that is up to date
and has not strayed is of no overtaken run that is not blurred.  Without the
condition on `strayed` it is false (`task_verdict`, section 4).

*ClaudeCliRunner.*  Every callback of `run` is an action: a line of stdout
(`ReadDelta`, `ReadAssistant`, `ReadToolOk`, `ReadToolFailed`, `ReadResult`, `ReadNoise`
for stderr and lines that are no JSON), the timers (`Timeout`, `StallWatch`), the
child's `error` (`SpawnError`) and `close` (`Close`), and `cancel` with what follows it
two seconds later (`Escalate`).  `Kill` sets `killed` as Node's `child.killed` does: the
signal was sent, whatever the child made of it.  `fresh` abstracts
`Date.now() - lastOkAt <= STALL_NO_OK_WINDOW_MS`.  The `Cli...` actions and
`ChildExits` are the executable as the code relies on it: deltas first and then the
whole block in one assistant event, results only for open calls, nothing after
the final result, exit code 0 only after it.  `Stubborn` lets the child survive
SIGTERM.  A piece of text is a pair (block, place), so that a repeated, lost or
reordered piece shows.  `stdout` keeps its order; stderr shares the pipe.  What is read
is not what was printed: each chunk is decoded by itself, so where a chunk may end
inside a character (`Splits`), any pieces of a line may be garbled (`Decodings`: a
place is negative then).  A garbled line is still JSON, for the replacement character may
stand in a string.  `cut` divides an assistant event into two text parts, and each
of them is compared with all that was streamed (`Unstreamed`, `EmitParts`).

*Quotes.*  Each use case is one action, with the guard of the use case and that
of the storage (`IsDraft` is tested per request, as the code does, and not once).
`Recompute` is `recomputeTotals`, which every handler of an item calls; `Die` is the
death of the process between the row and the totals.  `adrift` marks versions
whose totals were written by hand, carried over by `requestChangesOnQuote`, or
left behind by a death.  `StartMove`/`FinishMove` are the two PATCH requests of
`QuotePanel.move` over the places it showed (`shown`).

*Scope.*  `InstantiateKit` and `Materialize` make their commits row by row;
`Commit` is the part that is done when a code is taken or the process dies.  A
turn is in `turns` from the message to the agent's answer, and is `heard` as long
as the window that asked is there; `Hear` is the window taking the answer.
`clicked` is the draft the window showed at `ClickApprove`, and `Materialize` puts it
into `taken` beside what was made: between the two the request is under way, and
carries no draft.  `blind` are the conversations with a turn under way at the click,
or sent (from another window) before the request arrived.

*Registry.*  `secrets[<<p, n>>]` holds the value and the session whose key sealed
it: `secret-cipher` hashes the token that the shell draws at each start
(`Launch`).  `RunEnv` is what a run of the project is given.  `InstallSecret` and
`InstallConn` are the two requests of `McpPresetWizard`, which takes "already exists"
for success.  `CreateConn` revives a deleted row of its name as the storage does.
`Served` says that the sidecar is up and the web side holds its token.

*Devices.*  A boot request goes through `Boot`, `Looked` (adb listed its devices),
`Adopt` or `Spawn`, `PollBoot`, `Answered`, `Ready` or `BootTimesOut`; between them adb
works and anything may happen.  `managed` maps an AVD to the request that made
its `ManagedEmulator`, `entry` is that object, which a poll goes on writing after
it was replaced.  `StopAll` is the loop of `launchProjectApp` over its map.  `Upgraded`
opens a session (`SessionOpens`, `SessionFails`), `Closed` is the socket's close
handler; `Connect`, `Leave`, `Overlay` are the panel's effect, its cleanup and the
handlers of its socket.

*Scaffold.*  `row[r]` is the recorder of a run and the child it waits for;
`ChildEnds` is the end of that child with everything the loop does before the
next one is started, or the end of the run with `appendScaffoldRun` (`Kept`).
The panel follows the stream through `Follows`, `GoOn`, `Over`; `LoadHistory` is the
answer of `GET /history`, whose guard reads the panel as it was when it was opened.

*Design.*  `DesignerEnds` is the hook with its loop over the frames (`Persist`),
which a row that throws or `DiesInHook` cuts short; `AssignerEnds` that of the
frame-assigner.  `HookFails` and `AskAgain` are the degraded run and its retry.
`Success` is what the panel takes for success: it counts frames that were not
there when the run was asked for.  `Measure`/`Measured` are the two ends of the
fidelity gate around the device.

*Chat.*  `ChatLoads`, `Say` with its stream (`Say_Started`, `Say_Saved`,
`Say_Ends`, `Say_Breaks`), `AskRefresh`/`RefreshArrives`
and `ClickAdvance`/`SetPhase`/`AdvanceArrives` are the four ways the panel's list is
replaced; `DropRefresh`: the refresh effect starts anew with every turn, and
the answer of an older one is dropped.
`Settle` is the effect that takes up an unfinished turn.

*MCOffice.*  The office modules share little, so one instance holds them all and
a behaviour is about one *desk*, chosen at the start: `price`, `stage`, `place` (items
with prices, milestones, places and moves), `kit`, `talk` (kits; conversations),
`files`, `wires`, `keys`, `inbox` (directory; connections; secrets; notices), `boot`, `run`,
`mirror` (machines; apps; sockets), `scaffold`, `import`, `assign`, `gauge` (designer runs;
assigner runs; the fidelity gate) and `chat`.  What two desks have in common (the
life of the quote, the sessions of the shell, deletes of a connection) goes on at
each of them.  `MCTaskWorkflow` does the same with `side`: `gates` (the runner among the
requests of several clients), `ledger` (two iterations with time, acknowledgements and runs),
`verify` and `review` (the wizard from the start, and from a green verification),
`audit` (the wizard beside further agent runs).  At the sides of the wizard the runs
are created in the order of their names, which are interchangeable.  With `Attentive`
the operator of `audit` clicks only on a page that is up to date.  `MCClaudeCliRunner`
has two sides: `calls` (tool calls, text of one piece, decoded as printed) and `text` (no
calls, any decoding).

## 3. Runs

Passing runs:

| Run | Shows | Bounds |
|---|---|---|
| `agent_runs` | `Ownership`, `BilledOnce`, `InboxTruthful`, `ReplyTruthful`, `RetryOnce` | 3 runs, cap 2, 2 boots, disk faults; 0.9 M states |
| `agent_runs_live` | `LifecycleSpec` (refinement), `QueueDrains`, `TurnAnswered` | 2 runs, cap 1, 2 boots, disk faults; 49 k states |
| `troubleshoot` | `AwaitingHasActions`, `BoundedRetries`, `VerifiedByTest`, `DiagnosisNeverRegresses`, `NeverStuckApplying` | 1 report, 2 apply requests, 4 diagnosis runs, 4 attempts, 2 actions, 1 crash; 1.0 M states |
| `task_desk` | `OneRowPerGate`, `RunJudgesItsIteration`, `HistoryKept`, `GateRunEnds` at the gate runner; `IterationChain`, `TimeAgrees`, `RunsBilledAtHome` over the ledger; `OffersAccepted`, `VerdictOnLatestCode`, `SeenRunEnds` over the wizard | 2 gate types, 2 iterations, 3 rows (2 for the wizard), lists of up to 2, 3 agent runs (2 at most sides), entries of 1 or 2 minutes up to 3; 0.3 M states |
| `claude_runner` | `OutcomeTruthful`, `AnswerWhole`, `PortSpec` (refinement), `RunSettles` | 2 tool calls, 2 failures in a row, 2 assistant events of 1 piece and 1 noise; or 2 events of up to 2 pieces in up to 2 parts, any piece garbled; 2 unread lines; 1.3 M states |
| `office` | `QuotesInOrder`, `ApprovalIsFinal`, `TotalsFollowItems`, `PlacesDistinct`; `MaterializedAsApproved`, `ConversationInOrder`; `DirectorySound`, `AgentsGetWhatWasTold`; `OnePreview`, `MirrorHonest`; `ScaffoldHonest`; `DesignHonest`; `ChatFaithful` | see below; 2.1 M states |

The properties of the office are conjunctions of named parts, and for each part
`PROJECT.json` lists a mutant of the code's model that breaks it.

Why the bounds are enough.  A design run, its one correction, and a coworker
turn need three rows; two slots and three queued runs overshoot the cap; two
boots allow a crash at every commit followed by the boot pass.  Three attempts
are the limit of the troubleshooter, so a fourth run and attempt shows what is
beyond it; two requests are needed for overlapping tests.  Two iterations are
needed for a verdict that lands in the wrong one, three rows for a reset, a
re-creation and a second gate.  The wizard needs an implementer, a QA run and a
third agent between or after them; a verdict that is a run too old needs two of
each (`task_verdict` has four runs).  Two assistant events show text of one turn
leaking into the next, two pieces a turn of which only a part was streamed or
garbled and an event of two parts, two calls a row of failures, two unread lines an
error result behind something else.  In the office: two items, for a move and a
deletion beside it, and two moves under way at once; two rates and rounding;
two versions, for a request for changes; two conversations and two messages, for
overlapping turns and a second window; two projects over one code and one client; two names and values for a secret the wizard finds there; two
sessions, for a key that is outlived; two machines and two boots, for the race of
the look-up; three apps on two devices; three sockets, for a late close behind a
reconnect; three scaffolds over a history of two; two frames, two stories and
three design runs (one of them a retry); two turns and three phases of the chat.
One crash is enough everywhere, since no step of recovery depends on the number
of crashes before.  The proofs of section 6 do not depend on any of these bounds.

Deadlock checking is off in every run, because the bounded systems may stop: with
the rows used up and the last boot over, the call settled, or a task approved in its
last iteration with no room for another row or entry, nothing is left to do.  What
must go on is stated as liveness instead.

## 4. What the code does otherwise

Violation runs state what a document or comment of the repository says and the
code does not do.  Each is a finding in `PROJECT.json`.

| Run | Property | What happens |
|---|---|---|
| `agent_runs_cap` | `CapRespected` | one tick starts every queued run: the cap is tested before the started runs enter `inFlight` |
| `troubleshoot_closed` | `ClosedStays` | a test that ends after a dismiss reopens the report |
| `gates_stale` | `GatesProveCode` | gates that passed stay green after another agent has edited files, and the wizard offers the approval on their word |
| `task_verdict` | `VerdictNotStale` | the verdict of a QA run is a request of its own, and `useAsyncData` keeps the old answer: QA1 approves, an implementer edits, QA2 approves and the request for its verdict fails, so the page shows QA1's verdict as QA2's; the route's fallback to the youngest other file does the same |
| `claude_cancel` | `CancelEnds` | a child that ignores SIGTERM survives `cancel`: the SIGKILL two seconds later is sent only if `child.killed` is false, and the SIGTERM has set it |
| `secrets_survive_restart` | `SecretsSurviveRestart` | a secret sealed in one session cannot be opened in the next: the key is the hash of a token the shell draws anew at each start |

Seen while modelling, each as it stands in the named action, without a run:

* `Boot`: a run interrupted less than five minutes before the restart is too fresh
  for the only pass that closes orphans (`worker.ts:801`), and one that the pass does
  close keeps its empty chat placeholder (`worker.ts:808`).  `TurnAnswered` excepts a run
  that `LeftBehind` describes: an evidence file that cannot be written throws after
  the slot was released and before the row is closed.
* `RunDies`: a report whose diagnosis run failed stays in `diagnosing`.  `Release`: two
  apply requests of one report write and run the same test file, and the outcome
  of a test is judged by the attempt of the moment.
* `ReadAssistant`: each chunk of stdout is decoded by itself (`claude-cli.ts:239`), so a
  character split between two chunks garbles what was streamed; it is then no prefix
  of the block, and the whole answer is emitted a second time, against the comment
  at lines 261-267 ("we must not emit it twice").  An event of two text parts has the
  same effect, since each is compared with the text streamed for both.  `AnswerWhole`
  says what is left of the promise.
* `CutKit`: the numbers of a kit's stories avoid the codes of one quote
  (`kit-templates.ts:179`), and `stories.code` is unique over all: a kit instantiated again
  for the next version stops half-way on its own older codes, against
  `kit-templates.ts:88-89` ("re-running a kit (or stacking two kits) never collides").  A
  death stops it as well (`halved`).  The draft is then half-seeded; the comment above
  those lines rules that out only for a quote that is no draft.
* `FinishDecide`: the error of the submission is ignored, so an approval can go ahead
  on a task that was never submitted, or be refused on one that was moved meanwhile.
* `Die`: a quote keeps the totals from before its last item if the process dies
  between the two commits (`adrift`).  `StartMove`: two moves at once, or one over a
  table that has changed, can leave two items in one place (`tangled`).
* `CutMaterialize`: a death in a materialization leaves stories without tasks or a
  conversation that is not archived, and the repeated approval then meets the codes
  that are there (`halved`).  `Propose`: the first of two overlapping turns converges
  a conversation on a message that is not its last (`crossed`).
* `SubmitTaskForQa`, `ApproveTask`: a task goes to `qa` whatever its gates say, and is
  approved without evidence (`checkApprovedTaskHasEvidence` has no caller), against
  `docs/DOMAIN.md`.  `ReopenTask` replaces the outcome of an iteration already closed.
* `Close`: a run that the operator cancels ends as `failed`, because `cancel` does not
  set the flag; the SDK runner reports `cancelled`.
* `RequestChanges`: the new version has the totals of the old one and none of its
  items until the first edit.
* `RestoreProject`: a project restored under a client that is in the trash shows in
  no list (`exiled`).
* `InstallSecret`: the wizard leaves an older value in place and says it stored the
  new one (`misled`).
* `SidecarDies`: nothing starts the sidecar again; the panels go on asking its port.
* `BootTimesOut`: the entry stays `booting` and every later boot returns it.  `Looked`:
  two boots race (`raced`).  `Answered`: a poll declares ready what was stopped
  (`revived`).  `Closed`: a session that was being opened is never closed (`orphans`).
  `Restart`: launched apps go on, unknown to the new process.
* `LoadHistory`: the history replaces the steps of a run just started (`mixed`), and is
  looked for in the default directory whatever the project's own is.  `ScaffoldDies`:
  a history file cut short counts as empty and is overwritten (`torn`).
* `Persist`: a node in a deleted row, or twice in an output, throws in the middle of
  the loop; the frames before it stay.  `Success`: a re-import shows as a failure.
* `Settle`: the effect of `CoworkerChat` that takes up an unfinished turn depends on the
  flag it sets, re-runs, and its cleanup ends the poll it has just started; the
  panel shows a live run until it is left.  `AdvanceArrives`: the answer to a phase
  change may be older than what is on the panel.

Where a property excuses such a race, it does so by an observer.  This is all of
them; a fault that shows only after the race is not caught by the property.

| Observer | Excuses in | The race it stands for |
|---|---|---|
| `strayed` | `VerdictOnLatestCode` | the last answer to the request for the verdict was of another run, or failed (`task_verdict`) |
| `blurred` | `VerdictOnLatestCode`, `VerdictNotStale` | the QA run was launched beside another run, or judged files that a failed run had edited: times of creation say nothing then |
| `crashes` | `BoundedRetries` | a death between the queueing of a diagnosis and the count of the attempt gives one diagnosis more |
| `LeftBehind` (a predicate of the row and `inFlight`) | `TurnAnswered` | the evidence file could not be written |
| garbled pieces, parts (no variable) | `AnswerWhole` allows the block to begin again | the comparisons of `ReadAssistant` that are bound to fail |
| `adrift` | `TotalsFollowItems`, for that version | totals set by hand, carried over, or left by a death, until the next item |
| `tangled` | `PlacesDistinct`, from then on | a move over an old view, beside another move or a deletion, or cut in two |
| `crossed` | `ConvergedOnLastMessage`, for that conversation | overlapping turns |
| `blind`, `unheard` | `ApprovedAsShown`, for that conversation | a turn under way at the click or sent before the request arrived; a turn whose window was closed |
| `taken` holds completed approvals only | `MaterializedWhole` | a materialization cut short by a death or a taken code (`halved`) |
| `exiled` | `ListedUnlessExiled`, for that project | a project restored under a client in the trash |
| `misled` | `AgentsGetWhatWasTold`, for that name | the wizard met a secret, or one that changed between its requests |
| `swept` | `ReadAfterListed`, for that notice | "mark all" takes notices the panel has not listed, as its button says |
| `raced`, `revived` | `OneMachine`, from then on | two boots searching at once; a stopped boot declared ready |
| `orphans` | `MirrorHonest`, for that socket | a socket closed while its session was opening |
| `late` | `MirrorHonest`, until the overlay is set again | the close of a socket that was replaced sets the overlay of its successor |
| `torn`, `pushedOut` | `NothingLost`, for those runs | a history file cut short; the limit of the history |
| `mixed`, `cleared` | `ShownOutcome`, until the next run | the history arrived over a run just started; the repair button took away a message that no failed step stands behind |
| `cut` (a field of the run) | `SucceededHasFrames`, for that run | the death of the sidecar in the hook |

## 5. Fairness

* `AgentRuns!Fairness`: the timer of the worker fires (`Tick`), the event loop
  finishes the handlers it began (`Take`, `Continue`, `ReapOne`), a child ends by
  itself or by the runner's timeout (`End`), a waiting request polls every 500 ms
  or gives up after 30 minutes, a process told to stop exits, and the operator
  starts the application again (`Boot`).  Nobody has to queue, cancel or stop
  anything, and no crash has to happen.
* `Troubleshoot!Fairness`: handlers go on (`Hook`, `Proceed`), time passes (`Age`)
  and the reaper's timer fires (`Reap`).  The agent, the test, the MCP and the
  operator owe nothing: `NeverStuckApplying` holds although an apply request may
  hang for ever.
* `TaskWorkflow!FairSpec`: weak fairness of the gate runner as a whole.  Every
  child is killed with SIGKILL when its timer fires and device calls end; the
  operator and the agent runs owe nothing.
* `TaskDesk!DeskFairness`: that of the gate runner; the interval of the page fires
  while it shows an active run (`PollRuns`), every request it sent is answered
  (`Fetch`); and runs end (`RunEnds`).  This last one is strong fairness: what
  an ending agent reports waits in the event queue while the gate runner has the
  turn, again and again, and is served in the end.  No button
  has to be clicked, and the request for a verdict may stay unanswered (`HearVerdict`
  has no fairness).
* `ClaudeCliRunner!Fairness`: lines are read, an armed timeout and the timer of
  `cancel` fire, the operating system reports the end, and a signalled child dies
  unless it is `Stubborn`.  The agent owes nothing: it may hang without a word.
  `RunSettles` needs a child that obeys SIGTERM; with one that does not, the call
  never ends (`claude_cancel`).  So `End` in `AgentRuns!Fairness` rests on the same
  assumption: the runner's timeout sends SIGTERM and nothing stronger.

A signal reaches the child in these models.  With `shell: true` (Windows) it reaches
the shell, and what the shell started may go on: there `GateRunEnds` and `SeenRunEnds`
also need a command that ends by itself, `RunSettles` an agent that ends when its
pipes close, and "stopped" in `OnePreview` means told to stop.

The office modules have safety properties only: a request or an operator owes
nothing, and what must eventually happen there (a boot that ends, a stream that is
taken up again) is what section 4 shows the code not to promise.

## 6. Proofs

Seven modules, with the lemmas of an eighth, prove for every value of the constants
type correctness and every safety property of the passing runs, invariants and action properties alike, and
both refinements.

| Module | Theorems |
|---|---|
| `AgentRuns_proofs` | `TypeCorrect`, `OwnershipHolds`, `BilledOnceHolds`, `InboxTruthfulHolds`, `ReplyTruthfulHolds`, `RetryOnceHolds`, and `LifecycleRefined`: the worker implements `RunLifecycle` |
| `Troubleshoot_proofs` | `TypeCorrect`, `AwaitingHasActionsHolds`, `BoundedRetriesHolds`, `VerifiedByTestHolds`, `DiagnosisNeverRegressesHolds` |
| `TaskWorkflow_proofs` | the task: `TypeCorrect`, `IterationChainHolds`, `OneRowPerGateHolds`, `RunJudgesItsIterationHolds`, `RunsBilledAtHomeHolds`, `TimeAgreesHolds`, `HistoryKeptHolds`; the wizard: `WizardRefinesTask`, `OffersAcceptedHolds`, `VerdictOnLatestCodeHolds` |
| `ClaudeCliRunner_proofs` | `TypeCorrect`, `OutcomeTruthfulHolds`, `AnswerWholeHolds`, and `PortRefined`: the runner implements `RunnerPort`, for stubborn and obedient children |
| `Quotes_proofs` | quotes: `QuoteTypeCorrect`, `QuotesStayInOrder`, `TotalsAgree`, `PlacesStayDistinct`, `ApprovalStands`; with stories and conversations: `QuoteUnderStories`, `MaterializedAsApprovedHolds`, `ConversationStaysInOrder` |
| `Office_proofs` | `RegistryTypeCorrect`, `DirectoryIsSound`, `ToldIsStored`; `DeviceTypeCorrect`, `OnePreviewShared`, `MirrorIsHonest`; `DesignIsHonest`; `ChatIsFaithful` |
| `Scaffold_proofs` | `ScaffoldTypeCorrect`, `ScaffoldIsHonest` |
| `DataFacts` | lemmas only |

Assumptions: those the modules declare, and TLC evaluates them in the runs: names
that stand for nothing are no rows (no story is called `pool`, `unknown` or `none`),
caps and bounds are naturals, the agent runs of a task are finitely many, a time
entry has at least one minute, as the contracts and `closeAgentRunSucceeded` see to;
the list of gates the wizard asks for is one the route accepts; hours, rates,
shares and discounts are naturals, and the margins include 0, which a module has to
which neither the kit nor the hand gives one.  Each theorem follows from an
inductive invariant (`IInv`, `DeskIInv`, `ScopeInv`, `DesignInv`, `ChatInv`, ...), one lemma per
action, and a temporal step.

* `AgentRuns`: the stated properties are not inductive, because a pending handler
  step writes on the strength of what it saw before.  `Handlers` says what each
  value of `cont[r]` may assume of the row (a run at its hook has succeeded and
  nobody has been told; a run to be corrected is failed and has no correction
  yet), `Lists` what the two lists in memory may assume, `DownIsEmpty` that a dead
  process has no memory, `Attached` that only turns have messages.  The
  refinement then needs one fact per action about `ledger`: only `ChildSucceeds`
  changes it, and only from a running row, which `BilledOnce` shows has no entry.
* `Troubleshoot`: `BoundedRetries` needs `RunsCounted`, that automatic runs stay
  behind the attempts plus the crashes, except while the retry's own commit is
  pending; `Counted` supplies that a report under test has been diagnosed;
  `RunOrder` orders the run a diagnosis came from, the run linked last and the
  runs made, which gives `DiagnosisNeverRegresses`.
* *Data.*  Sums, maxima and folds over sequences are computed by recursive functions
  of finite sets, and `DataFacts` proves what the actions need of them.
  `SubsetInduction` is induction over the subsets of a finite set, proved from the
  well-foundedness of strict inclusion: of the subsets for which a claim fails,
  one would be least.  It is applied to sets of subsets, so that no operator is a
  parameter.  `FoldExists` and `FoldUnique` then give the function behind a
  `CHOOSE` and say it is the only one; `SumChange` says by how much a sum changes
  with one term.  A fold over a sequence takes an operator, so each use of one
  (`Spoken`, `Persisted`, `Assigned`, `Saved`) unfolds it once and is solved along the
  beginnings of the sequence (`FoldSolved`, `Along`) or shown equal to another (`FoldSame`).
* `TaskWorkflow`: `OneRowPerGate` and `RunJudgesItsIteration` need `RowIds`
  (identifiers are handed out in order and never twice) and `RowKnown` (the row a
  run judges has been handed out): without them a row created after a reset could
  have the identifier that the run under way is about to write.
  `RunsBilledAtHome` is inductive beside `IInv`: only `CloseAgentRunSucceeded` makes a
  run billed, and it adds evidence and minutes to the same iteration.
  `TimeAgrees` rests on `SumChange`: the two writers both go through `Book`.
* `TaskDesk`: `WizardRefinesTask` shows that a step of the wizard is a step of the task or
  leaves it alone, so `IInv` carries over.  `OffersAccepted` is then a consequence of
  `IterationChain`, once the page is fresh.  `VerdictOnLatestCode` needs what the page's
  comparison stands on: `OrderOnce` and `Launched` (a run has one place in the order
  of creation), `WorkersAfter` (a run at work beside a QA run that is not blurred
  was created after it) and `OvertakersAfter` (so was one that has edited since); and
  for the request that carries the verdict `VerdictHeard`: what is held and has not
  strayed is of the newest QA run shown (`QaDone`), whichever answers, failures and
  refetches came before (`SeenKeeps`, `HearKeeps`).
  A first form of the property, about the order of creation alone, held by the
  page's own definition; the invariant was found while strengthening it.
* `ClaudeCliRunner`: `Life` ties everything that may still act on a call (the child,
  an unread line, the timeout) to a call that is under way, so nothing is
  delivered or decided after the outcome; `Results` says that an error the agent
  has reported is the last line of the pipe until it is read and remembered from
  then on, so `Close`, which finds the pipe empty, cannot miss it.  The refinement
  rests on `Grows`: what is appended leaves the delivered text a prefix.
  `AnswerWhole` is about a reader that may garble any piece and emit a block again: what
  it does deliver contains all that was told, in order, and is that text itself where
  no character is split and no event has two parts.  It
  needs a witness that is no variable: `Marks` puts one mark (block, pieces
  of it sent, length of the text told) before each unread line and one at the end.
  Every line leads from its mark to the next (`Passes`), the first mark is where the
  reader stands, the last where the agent does.  The agent appends a mark
  (`TalkMarks`), the reader takes one away, and what it then appends to the output
  is what the deltas have left of the block, or more of it (`HeardMore`).
* `Quotes`: the invariant is `QuotesInOrder` with `TotalsFollowItems` and types.  The sums
  stay opaque: equal tables give equal sums, a handler writes the sums of the
  table it leaves, and the one fact about a particular sum, `SumOfNothing`, is that
  a version without items costs nothing.  `ApprovalIsFinal` then follows from
  `OneLiveQuote`: once the last version is approved no version is a draft or sent, and
  every request asks for one of the two (`NothingIsOpen`, `Frozen`).  `PlacesDistinct` needs
  `MovesApart`: unless `tangled`, one move is under way, and the places are apart in the
  table it will leave.
* `Scope`: `QuoteUnderStories` shows that the steps of kits and conversations are steps of
  the quote, or leave it alone; a materialization writes many rows at once, so its
  steps are proved on the table it leaves.  `TalkInv` says what an answer that is
  under way may rely on: `LastAsked` (a turn of a conversation never crossed answers
  its last message), `WindowHears` (where no window was closed on a turn, the
  window shows the stored draft), `ClickStands` (while the request is under way, the
  draft clicked is the one stored) and `TakenOnce`.  `StoryInv` and `TakenStories` tie codes
  to one story and to the version an approval wrote them for; `RoomIsNew` is the
  lemma about a handler that stops at the first code that is taken.  The proof of
  `ApprovedAsShown` did not go through with `blind` set at the click only: a message from a
  second window reaches the server before the request.  The observer and the
  property now say so.
* `Registry`: `AgentsGetWhatWasTold` needs `Keys`, which says what a wizard between its
  two requests may rely on: the sidecar is served, and the secret it named is the
  value it was given unless it is known not to be.  `OneConnPerName` is stated in the
  proof as "two rows of one name: one of them is unused", which needs no
  cardinality.
* `Devices`: `OneMachine` needs `Quiet`: undisturbed, one boot searches at a time, and
  while it does nothing is active; otherwise a second search could still register
  a machine beside the first.  `MirrorHonest` needs `Sessions`: a session exists only behind
  a socket that was upgraded.
* `Scaffold`: `ScaffoldHonest` needs `Sound`, what a row may look like at each of its steps,
  and `Settled`: what stands in the history is the row of a run that is over and
  will not be written again; `Shown` ties the panel's copy to the row it follows.
  `KeptKeeps` is the lemma about the history that is cut.

* `Design`: beside the stated parts, `EmptyRows` (a node without a row has no story and is
  not on the board) and `Gauged` (the frame being measured has a row, and its baseline
  while it is not deleted) carry the frames.  `Shown` is stronger than `FailureShown`:
  a run shown as a success is over, for one that is still open could yet fail.
  The hooks are folds over the output.  `Brought` and `Given` say what a hook may do to
  the frames, whatever its output (`PersistedShape`, `AssignedShape`): a row that is not in the output is
  untouched, an approval survives only with its content, and if anything was
  written something was brought.  `RetriedOnce` counts: every correction
  is charged to a failed run that was none.
* `Chat`: `NeverForgets` is a step property and needs to know where a list comes from.
  `Followed` says that whatever the panel shows, and whatever an answer on its way
  brings, the conversation has (a placeholder possibly filled by now), and that a
  refresh has what the panel shows; `Attended` that a refresh is on its way to a panel at
  rest only, which is why an old one is dropped; `TurnsServed` that each turn has its
  message.  `PhaseOnward` needs `Onward`: a request for a phase is for the one there is
  or the next, although the panel counts from a copy.

Only model-checked: liveness (`QueueDrains`, `TurnAnswered`, `NeverStuckApplying`,
`GateRunEnds`, `SeenRunEnds`, `RunSettles`), because fairness and ENABLED are outside the
reach of the prover; and that the composition in `MCOffice`, a device of the runs, adds
nothing: the theorems are about each specification by itself.  The six violation
runs are counterexamples, found by TLC.

## 7. What the storage adds

Properties are also guarded by unique indices of the schema.  `gates_iteration_gate_uq`
and `iterations_task_n_uq` are left out of the models: `OneRowPerGate` and
`IterationChain` show that the handlers never run into them, so no request fails
with a constraint error on their account.  Where the code does run into an index,
the model has it: `stories.code` (`CreateStory`), `projects.code` (`CreateProject`),
`phases_project_type_uq` (`ApproveQuote`), the index on a project's connections
(`CreateConn`) and that on (project, node), deleted rows included (`Persist`).

## 8. Not modelled, and why

* Prompts, skills, tokens of a design system, texts of drafts and MCP
  configuration are inputs or outputs of a run that change no state of the
  components above.
* Workspace and skills are file helpers without state of their own; the MCP
  server only reads; HTTP routers validate and forward.  `patchTask` writes assignee
  and estimate, which no property tells apart.  Single commands sent to a device
  change nothing the program keeps.
* The SDK runner is one awaited call to an external service.
* Rework imputation and story validation (`domain`) are pure computations whose
  callers are outside the modelled use cases; the pixel comparison of the fidelity
  gate is arithmetic on images.
* The panels not named above show records that other modules have and send one
  request per button.
* Polls of the task page that overlap and are answered out of order: each of the
  parts has one request under way at a time.  The files that `GET /:id/qa-verdict` falls
  back on for other tasks, and its two seconds of tolerance on the time of a file,
  are merged into `filed`.
* Two instances of the application on one database (`lib.rs:51`) are outside every
  module: each takes one sidecar at a time.

## 9. What could follow

Proofs: the preconditions of the liveness properties that are safety (that a handler
pending in `AgentRuns`, a gate run or an apply request can always go on, the measure that
each of its steps lowers); an abstract specification of the conversation, of which
`Scope` and `Chat` are two views; the gate runner as an implementation of "judge each row
once".  Models: the worker composed with `ClaudeCliRunner`, whose outcomes justify `End` of
`AgentRuns`; two sidecars on one database.
