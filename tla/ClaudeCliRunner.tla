---- MODULE ClaudeCliRunner ----
(***************************************************************************)
(* One call of ClaudeCliRunner.run (packages/agent-runner/src/claude-cli.  *)
(* ts): the claude child, the stream of events it prints, and the timers,  *)
(* the operator and the child's end that race to settle the call.          *)
(*                                                                         *)
(* Every callback runs to its end before the next: a line of stdout, a     *)
(* timer, 'close', 'error' and cancel() are one action each.  Between the  *)
(* child's printing and the runner's reading lies the pipe, so a signal, a *)
(* timer or the exit can overtake what was printed earlier.  The pipe is   *)
(* read in chunks, and each chunk is decoded by itself: a character split  *)
(* between two of them is garbled.                                         *)
(***************************************************************************)
EXTENDS Integers, Sequences, SequencesExt

CONSTANTS
    Calls,       \* tool calls the agent may make
    MaxFailed,   \* STALL_MAX_CONSECUTIVE_FAILED
    Stubborn,    \* may the child, or a process that holds its stdout, outlive SIGTERM?
    Splits,      \* may a chunk of stdout end within a character?
    MaxBlocks,   \* bound: assistant events the agent prints
    MaxText,     \* bound: pieces of text in one of them
    MaxNoise,    \* bound: lines that are no event, and stderr
    MaxPipe      \* bound: lines printed and not yet read

ASSUME RunnerAssumption ==
    /\ Stubborn \in BOOLEAN /\ Splits \in BOOLEAN
    /\ MaxFailed \in Nat \ {0}
    /\ MaxBlocks \in Nat
    /\ MaxText \in Nat
    /\ MaxNoise \in Nat
    /\ MaxPipe \in Nat

VARIABLES
    proc,       \* the child process
    code,       \* its exit code
    killed,     \* child.killed: a signal was sent to the living child
    pipe,       \* lines printed and not yet read
    cli,        \* how far the agent is with its answer
    told,       \* the text the agent has produced, each piece once
    running,    \* the entry of the runner's map, and the stall watcher
    timer,      \* the timeout is armed
    grace,      \* the two seconds after cancel() are running
    fresh,      \* a sign of life within STALL_NO_OK_WINDOW_MS
    cancelled,  \* the flag that makes the outcome 'cancelled'
    failure,    \* errorMessage is set
    failures,   \* consecutiveFailed
    pending,    \* pendingToolCalls
    streamed,   \* streamedText
    output,     \* outputBuf, which onChunk has been given too
    outcome     \* what the promise was settled with

child == <<proc, code, killed>>
agent == <<pipe, cli, told>>
watch == <<fresh, cancelled, failure, failures>>
text == <<pending, streamed, output>>
vars == <<child, agent, running, timer, grace, watch, text, outcome>>

(* A piece of text is a block and a place in it, negative when the piece   *)
(* is garbled; Noise is anything else that goes to the output: tool        *)
(* markers, stderr, lines that are no JSON.                                *)
Piece == (1 .. MaxBlocks) \X ((-MaxText .. MaxText) \ {0})
Noise == <<0, 0>>
Block(b, from, to) == [i \in 1 .. to - from |-> <<b, from + i>>]

Garbled(piece) == piece[2] < 0
Meant(piece) == IF Garbled(piece) THEN <<piece[1], -piece[2]>> ELSE piece

Event ==
    [type : {"delta"}, text : Seq(Piece)]
    \cup {e \in [type : {"assistant"}, text : Seq(Piece), cut : Nat, calls : SUBSET Calls] :
             e.cut <= Len(e.text)}
    \cup [type : {"tool"}, id : Calls, ok : BOOLEAN]
    \cup [type : {"result"}, ok : BOOLEAN]
    \cup [type : {"noise"}]

Progress ==
    [block : Nat \ {0}, sent : Nat, parted : SUBSET Nat, noise : Nat,
     open : SUBSET Calls, used : SUBSET Calls, result : {"none", "ok", "error"}]

TypeOK ==
    /\ proc \in {"none", "failing", "alive", "exited", "closed"}
    /\ code \in {"none", "zero", "other"}
    /\ killed \in BOOLEAN
    /\ pipe \in Seq(Event)
    /\ cli \in Progress
    /\ told \in Seq(Piece)
    /\ running \in BOOLEAN /\ timer \in BOOLEAN /\ grace \in BOOLEAN
    /\ fresh \in BOOLEAN /\ cancelled \in BOOLEAN /\ failure \in BOOLEAN
    /\ failures \in Nat
    /\ pending \in SUBSET Calls
    /\ streamed \in Seq(Piece)
    /\ output \in Seq(Piece \cup {Noise})
    /\ outcome \in {"none", "succeeded", "failed", "cancelled"}

Init ==
    /\ proc = "none" /\ code = "none" /\ killed = FALSE
    /\ pipe = <<>> /\ told = <<>>
    /\ cli = [block |-> 1, sent |-> 0, parted |-> {}, noise |-> 0, open |-> {},
              used |-> {}, result |-> "none"]
    /\ running = FALSE /\ timer = FALSE /\ grace = FALSE
    /\ fresh = TRUE /\ cancelled = FALSE /\ failure = FALSE /\ failures = 0
    /\ pending = {} /\ streamed = <<>> /\ output = <<>>
    /\ outcome = "none"

-----------------------------------------------------------------------------
(* Starting and settling.                                                  *)

(* The prompt file cannot be written: run() throws before it spawns.       *)
StartThrows ==
    /\ proc = "none" /\ outcome = "none"
    /\ outcome' = "failed"
    /\ UNCHANGED <<child, agent, running, timer, grace, watch, text>>

Spawn ==
    /\ proc = "none" /\ outcome = "none"
    /\ proc' \in {"alive", "failing"}
    /\ running' = TRUE
    /\ timer' = TRUE
    /\ UNCHANGED <<code, killed, agent, grace, watch, text, outcome>>

(* Mutant: the last to settle wins.                                        *)
ResolveAgain(kind) == outcome' = kind

(* A promise is settled once.                                              *)
Resolve(kind) == outcome' = IF outcome = "none" THEN kind ELSE outcome

(* 'error': the executable is not there; 'close' may still follow.         *)
SpawnError ==
    /\ proc = "failing"
    /\ proc' = "exited" /\ code' = "other"
    /\ running' = FALSE
    /\ timer' = FALSE
    /\ Resolve("failed")
    /\ UNCHANGED <<killed, agent, grace, watch, text>>

(* Mutant: settled on 'exit', without waiting for the end of stdout.       *)
CloseEarly ==
    /\ proc = "exited"
    /\ proc' = "closed"
    /\ running' = FALSE
    /\ timer' = FALSE
    /\ Resolve(IF cancelled THEN "cancelled"
               ELSE IF code = "zero" /\ ~failure THEN "succeeded" ELSE "failed")
    /\ UNCHANGED <<code, killed, agent, grace, watch, text>>

(* 'close': the child is gone and stdout is read to its end.               *)
Close ==
    /\ proc = "exited" /\ pipe = <<>>
    /\ proc' = "closed"
    /\ running' = FALSE
    /\ timer' = FALSE
    /\ Resolve(IF cancelled THEN "cancelled"
               ELSE IF code = "zero" /\ ~failure THEN "succeeded" ELSE "failed")
    /\ UNCHANGED <<code, killed, agent, grace, watch, text>>

-----------------------------------------------------------------------------
(* Signals and timers.                                                     *)

(* child.kill('SIGTERM'): child.killed says that it was sent, not that the *)
(* child obeyed.                                                           *)
Kill == killed' = (killed \/ proc = "alive")

(* Mutant: the outcome is prepared but the child is left alone.            *)
TimeoutSparesChild ==
    /\ timer
    /\ timer' = FALSE
    /\ cancelled' = TRUE
    /\ failure' = TRUE
    /\ UNCHANGED <<child, agent, running, grace, fresh, failures, text, outcome>>

Timeout ==
    /\ timer
    /\ timer' = FALSE
    /\ cancelled' = TRUE
    /\ failure' = TRUE
    /\ Kill
    /\ UNCHANGED <<proc, code, agent, running, grace, fresh, failures, text, outcome>>

(* Time passes without text and without a successful tool call.            *)
Age ==
    /\ running /\ fresh
    /\ fresh' = FALSE
    /\ UNCHANGED <<child, agent, running, timer, grace, cancelled, failure, failures,
                   text, outcome>>

(* The stall watcher, every ten seconds.                                   *)
StallWatch ==
    /\ running /\ ~cancelled /\ ~fresh
    /\ cancelled' = TRUE
    /\ failure' = TRUE
    /\ Kill
    /\ UNCHANGED <<proc, code, agent, running, timer, grace, fresh, failures, text,
                   outcome>>

(* cancel(), asked for by the operator through the worker.                 *)
Cancel ==
    /\ running
    /\ Kill
    /\ grace' = TRUE
    /\ UNCHANGED <<proc, code, agent, running, timer, watch, text, outcome>>

(* Two seconds later: SIGKILL, but only if no signal was ever sent.        *)
Escalate ==
    /\ grace
    /\ grace' = FALSE
    /\ IF ~killed /\ proc = "alive" THEN proc' = "exited" /\ code' = "other"
                                    ELSE UNCHANGED <<proc, code>>
    /\ UNCHANGED <<killed, agent, running, timer, watch, text, outcome>>

-----------------------------------------------------------------------------
(* The claude executable, as far as the runner relies on it: a block of    *)
(* text comes as deltas and then whole in an assistant event, as one text  *)
(* part or as two; results come only for open calls; it exits with 0 only  *)
(* after its result.                                                       *)

Says(event) ==
    /\ proc = "alive" /\ cli.result = "none" /\ Len(pipe) < MaxPipe
    /\ pipe' = Append(pipe, event)
    /\ UNCHANGED <<child, running, timer, grace, watch, text, outcome>>

CliDelta ==
    /\ cli.block <= MaxBlocks /\ cli.sent < MaxText
    /\ LET piece == Block(cli.block, cli.sent, cli.sent + 1) IN
           /\ Says([type |-> "delta", text |-> piece])
           /\ told' = told \o piece
    /\ cli' = [cli EXCEPT !.sent = @ + 1]

CliAssistant(n, cut, calls) ==
    /\ cli.block <= MaxBlocks /\ cli.sent <= n
    /\ cut = 0 \/ cut < n
    /\ calls \cap cli.used = {}
    /\ Says([type |-> "assistant", text |-> Block(cli.block, 0, n), cut |-> cut,
             calls |-> calls])
    /\ told' = told \o Block(cli.block, cli.sent, n)
    /\ cli' = [cli EXCEPT !.block = @ + 1, !.sent = 0,
                          !.parted = IF cut = 0 THEN @ ELSE @ \cup {cli.block},
                          !.open = @ \cup calls, !.used = @ \cup calls]

CliToolResult(id, ok) ==
    /\ id \in cli.open
    /\ Says([type |-> "tool", id |-> id, ok |-> ok])
    /\ cli' = [cli EXCEPT !.open = @ \ {id}]
    /\ UNCHANGED told

CliNoise ==
    /\ cli.noise < MaxNoise
    /\ Says([type |-> "noise"])
    /\ cli' = [cli EXCEPT !.noise = @ + 1]
    /\ UNCHANGED told

CliResult(ok) ==
    /\ cli.sent = 0 /\ cli.open = {}
    /\ Says([type |-> "result", ok |-> ok])
    /\ cli' = [cli EXCEPT !.result = IF ok THEN "ok" ELSE "error"]
    /\ UNCHANGED told

(* It exits by itself, crashes, or obeys a signal.                         *)
ChildExits(c) ==
    /\ proc = "alive"
    /\ c = "zero" => cli.result # "none"
    /\ proc' = "exited" /\ code' = c
    /\ UNCHANGED <<killed, agent, running, timer, grace, watch, text, outcome>>

-----------------------------------------------------------------------------
(* handleEvent: one line of stdout.                                        *)

Line == Head(pipe)

Read(type) ==
    /\ pipe # <<>> /\ Line.type = type
    /\ pipe' = Tail(pipe)
    /\ UNCHANGED <<child, cli, told, running, timer, grace, outcome>>

Emit(pieces) == output' = output \o pieces

(* What a text may be once its chunks are decoded.                         *)
Decodings(pieces) ==
    {[i \in DOMAIN pieces |->
        IF i \in torn THEN <<pieces[i][1], -pieces[i][2]>> ELSE pieces[i]] :
     torn \in IF Splits THEN SUBSET DOMAIN pieces ELSE {{}}}

(* A sign of life for the stall watcher.                                   *)
Alive ==
    /\ fresh' = TRUE
    /\ failures' = 0

ReadDelta ==
    /\ Read("delta")
    /\ \E said \in Decodings(Line.text) :
           /\ Emit(said)
           /\ streamed' = streamed \o said
    /\ Alive
    /\ UNCHANGED <<cancelled, failure, pending>>

(* What is emitted of a text part: what the deltas have not delivered, or  *)
(* all of it when it does not begin with what they delivered.              *)
Unstreamed(part) ==
    IF part = streamed THEN <<>>
    ELSE IF streamed # <<>> /\ IsPrefix(streamed, part)
         THEN SubSeq(part, Len(streamed) + 1, Len(part))
         ELSE part

(* Each part is compared with all that was streamed.                       *)
EmitParts(said, cut) ==
    Emit(Unstreamed(SubSeq(said, 1, cut)) \o Unstreamed(SubSeq(said, cut + 1, Len(said))))

(* Mutant: the text streamed for one turn is still there in the next.      *)
ReadAssistantKeeps ==
    /\ Read("assistant")
    /\ \E said \in Decodings(Line.text) : EmitParts(said, Line.cut)
    /\ pending' = pending \cup Line.calls
    /\ IF Line.text = <<>> THEN UNCHANGED <<fresh, failures>> ELSE Alive
    /\ UNCHANGED <<streamed, cancelled, failure>>

ReadAssistant ==
    /\ Read("assistant")
    /\ \E said \in Decodings(Line.text) : EmitParts(said, Line.cut)
    /\ streamed' = <<>>
    /\ pending' = pending \cup Line.calls
    /\ IF Line.text = <<>> THEN UNCHANGED <<fresh, failures>> ELSE Alive
    /\ UNCHANGED <<cancelled, failure>>

ReadToolOk ==
    /\ Read("tool") /\ Line.ok
    /\ Emit(<<Noise>>)
    /\ pending' = pending \ {Line.id}
    /\ Alive
    /\ UNCHANGED <<streamed, cancelled, failure>>

(* A failed call; too many in a row kill the child, unless it is being     *)
(* killed already.                                                         *)
ReadToolFailed ==
    /\ pipe # <<>> /\ Line.type = "tool" /\ ~Line.ok
    /\ pipe' = Tail(pipe)
    /\ Emit(<<Noise>>)
    /\ pending' = pending \ {Line.id}
    /\ failures' = failures + 1
    /\ IF failures + 1 >= MaxFailed /\ ~cancelled
       THEN cancelled' = TRUE /\ failure' = TRUE /\ Kill
       ELSE UNCHANGED <<cancelled, failure, killed>>
    /\ UNCHANGED <<proc, code, cli, told, running, timer, grace, fresh, streamed, outcome>>

ReadResult ==
    /\ Read("result")
    /\ failure' = (failure \/ ~Line.ok)
    /\ UNCHANGED <<fresh, cancelled, failures, text>>

ReadNoise ==
    /\ Read("noise")
    /\ Emit(<<Noise>>)
    /\ UNCHANGED <<watch, pending, streamed>>

-----------------------------------------------------------------------------
Claude ==
    \/ CliDelta \/ CliNoise
    \/ \E n, cut \in 0 .. MaxText, calls \in SUBSET Calls : CliAssistant(n, cut, calls)
    \/ \E id \in Calls, ok \in BOOLEAN : CliToolResult(id, ok)
    \/ \E ok \in BOOLEAN : CliResult(ok)
    \/ \E c \in {"zero", "other"} : ChildExits(c)

ReadLine ==
    \/ ReadDelta \/ ReadAssistant \/ ReadToolOk \/ ReadToolFailed
    \/ ReadResult \/ ReadNoise

Next ==
    \/ StartThrows \/ Spawn \/ SpawnError \/ Close
    \/ Timeout \/ Age \/ StallWatch \/ Cancel \/ Escalate
    \/ Claude \/ ReadLine

Spec == Init /\ [][Next]_vars

(* A child that has been signalled dies, unless it is stubborn.            *)
Dies == killed /\ ~Stubborn /\ ChildExits("other")

(* Lines are read, timers fire, and the operating system reports the end.  *)
Fairness ==
    /\ WF_vars(ReadLine)
    /\ WF_vars(SpawnError)
    /\ WF_vars(Close)
    /\ WF_vars(Timeout)
    /\ WF_vars(Escalate)
    /\ WF_vars(Dies)

FairSpec == Spec /\ Fairness

-----------------------------------------------------------------------------
Spoken(pieces) ==
    FoldLeft(LAMBDA said, piece : IF piece = Noise THEN said ELSE Append(said, piece),
             <<>>, pieces)
Text == Spoken(output)

(* The i-th piece of a text is followed by the beginning of its own block. *)
Restarts(said, i) == Meant(said[i + 1]) = <<said[i][1], 1>>

(* claude-cli.ts 261-267: the answer is printed twice, in deltas and in    *)
(* the assistant event, and what the deltas delivered is skipped then.     *)
(* The comparison can fail, but however the text is streamed, divided in   *)
(* parts and garbled, nothing of the answer is left out or comes out of    *)
(* order.  It is what the agent told, except that a block it printed in    *)
(* two parts, or of which something was garbled, may begin again, once;    *)
(* and a call that succeeds has delivered it to its end.                   *)
AnswerWhole ==
    LET said == Text
        inner == 1 .. Len(said) - 1
    IN  /\ said # <<>> => told # <<>> /\ Meant(said[1]) = told[1]
        /\ \A i \in inner :
              \/ \E j \in 1 .. Len(told) - 1 :
                    Meant(said[i]) = told[j] /\ Meant(said[i + 1]) = told[j + 1]
              \/ /\ Restarts(said, i)
                 /\ \/ said[i][1] \in cli.parted
                    \/ \E j \in DOMAIN said : said[j][1] = said[i][1] /\ Garbled(said[j])
        /\ \A i, j \in inner :
              Restarts(said, i) /\ Restarts(said, j) /\ said[i][1] = said[j][1] => i = j
        /\ outcome = "succeeded" =>
              IF told = <<>> THEN said = <<>>
              ELSE said # <<>> /\ Meant(said[Len(said)]) = told[Len(told)]

(* Whatever of timeout, stall, cancellation and exit comes first, the      *)
(* outcome agrees with what the child did: no call succeeds whose child    *)
(* reported an error or was given up, no call is settled with unread lines *)
(* or with a timer that could still fire.                                  *)
OutcomeTruthful ==
    /\ outcome = "succeeded" => code = "zero" /\ cli.result = "ok" /\ ~cancelled
    /\ outcome = "cancelled" => cancelled
    /\ outcome # "none" => pipe = <<>> /\ ~timer /\ ~running

(* The runner keeps the promise of the port.                               *)
Stage == IF outcome # "none" THEN outcome ELSE IF running THEN "active" ELSE "idle"
Port == INSTANCE RunnerPort WITH stage <- Stage, text <- output
PortSpec == Port!Spec

(* Every call comes to its outcome, also when the agent hangs, as long as  *)
(* the child obeys SIGTERM; this is what the worker's slots rely on.       *)
RunSettles == running ~> outcome # "none"

-----------------------------------------------------------------------------
(* docs/THREAT_MODEL.md 117: a run that never finishes is accepted because *)
(* the user can cancel it and the runner kills the child.                  *)
CancelEnds == grace ~> outcome # "none"
====
