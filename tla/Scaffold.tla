---- MODULE Scaffold ----
(***************************************************************************)
(* The scaffold of a project: runScaffold executes the children of a       *)
(* manifest one after the other (set-up steps, then the template files,    *)
(* then the verification), reports to the panel over a stream and writes   *)
(* the run to a history file when it ends.  Between two children the code  *)
(* is synchronous, so the end of a child is one action.                    *)
(*                                                                         *)
(* A row is a run as the recorder keeps it; the panel keeps a copy of its  *)
(* own, fed by the stream or by the history file.                          *)
(***************************************************************************)
EXTENDS Integers, Sequences

CONSTANTS
    Attempts,      \* runs of the scaffold
    SetUps,        \* set-up steps of the manifest
    Verifies,      \* verification steps of the manifest
    MaxKept,       \* MAX_HISTORY_RUNS
    MaxRepairs,    \* bound on runs of the fixer agent
    MaxDeaths      \* bound on deaths of the sidecar

ASSUME ScaffoldBounds ==
    /\ SetUps \in Nat \ {0} /\ Verifies \in Nat \ {0} /\ MaxKept \in Nat \ {0}
    /\ MaxRepairs \in Nat /\ MaxDeaths \in Nat /\ "none" \notin Attempts

VARIABLES
    row,           \* the recorder of each run, and the child it waits for
    history,       \* the rows in scaffold-history.json, newest last
    elsewhere,     \* the project's workspacePath is not the default one
    sheet,         \* ScaffoldPanel
    fixer,         \* the scaffold-fixer run the panel follows
    repairs, deaths,
    (* observers *)
    pushedOut,     \* runs a full history dropped
    torn           \* runs lost with a history file that was cut short

scaffoldVars == <<row, history, elsewhere, sheet, fixer, repairs, deaths, pushedOut, torn>>

Plan == 1 .. SetUps + Verifies
Blank(status) == [i \in Plan |-> status]

NoRow == [id |-> "none", at |-> 0, steps |-> Blank("absent"), written |-> FALSE,
          error |-> FALSE, outcome |-> "none"]

(* A panel that was just opened has asked for the history.                 *)
Opened(last) == [of |-> "none", running |-> FALSE, done |-> FALSE, error |-> FALSE,
                 steps |-> Blank("absent"), asked |-> TRUE, last |-> last,
                 cow |-> FALSE, mixed |-> FALSE, cleared |-> FALSE]

(* The history route looks in the default directory only.                  *)
LastSeen == IF elsewhere \/ history = <<>> THEN NoRow ELSE history[Len(history)]

ScaffoldInit ==
    /\ row = [r \in Attempts |-> NoRow]
    /\ history = <<>> /\ elsewhere \in BOOLEAN
    /\ sheet = Opened(NoRow)
    /\ fixer = "none" /\ repairs = 0 /\ deaths = 0
    /\ pushedOut = {} /\ torn = {}
----------------------------------------------------------------------------
(* The panel.                                                              *)

Listed(s) == \E i \in Plan : s.steps[i] # "absent"
HasFailure(s) == s.error \/ \E i \in Plan : s.steps[i] = "failed"
ShowsComplete == ~sheet.running /\ Listed(sheet) /\ ~HasFailure(sheet)
ShowsFailed == ~sheet.running /\ Listed(sheet) /\ HasFailure(sheet)

(* What the stream of run r does to the panel that follows it.             *)
Follows(r) == sheet.of = r /\ sheet.running

(* Mutant: an exit code counts in the steps before the files only.         *)
EndStepUnverified(old, i, ok) ==
    [old EXCEPT !.steps[i] = IF ok THEN "done" ELSE "failed",
                !.outcome = IF ok \/ i > SetUps THEN @ ELSE "failed"]

(* The recorder at a step-end event.                                       *)
EndStep(old, i, ok) ==
    [old EXCEPT !.steps[i] = IF ok THEN "done" ELSE "failed",
                !.outcome = IF ok THEN @ ELSE "failed"]

StartStep(old, i) == [old EXCEPT !.at = i, !.steps[i] = "running"]
Error(old) == [old EXCEPT !.error = TRUE, !.outcome = "failed"]

(* Mutant: a full history takes no more.                                   *)
KeptFirst(seq, x) ==
    IF Len(seq) < MaxKept THEN Append(seq, x) ELSE seq

(* appendScaffoldRun: read, push, cut to MAX_HISTORY_RUNS.                 *)
Kept(seq, x) ==
    LET all == Append(seq, x)
    IN  IF Len(all) > MaxKept THEN SubSeq(all, Len(all) - MaxKept + 1, Len(all)) ELSE all

Ids(seq) == {seq[i].id : i \in 1 .. Len(seq)}

(* What the panel holds once its run is over; it hears every event before. *)
Over(new) == [sheet EXCEPT !.running = FALSE, !.done = TRUE,
                           !.error = @ \/ new.error,
                           !.steps = [i \in Plan |-> IF new.steps[i] = "absent" THEN @[i] ELSE new.steps[i]]]

(* The finally of runScaffold: done is emitted, the run is written down.   *)
End(r, new) ==
    /\ row' = [row EXCEPT ![r] = [new EXCEPT !.at = 0]]
    /\ history' = Kept(history, [new EXCEPT !.at = 0])
    /\ pushedOut' = pushedOut \cup (Ids(history) \ Ids(history'))
    /\ sheet' = IF Follows(r) THEN Over(new) ELSE sheet

Busy(r) == row[r].at # 0

(* One child after another: the next is started where the last one ended.  *)
GoOn(r, new) ==
    /\ row' = [row EXCEPT ![r] = new]
    /\ sheet' = IF Follows(r)
                THEN [sheet EXCEPT !.steps = [i \in Plan |-> IF i = new.at \/ i = new.at - 1
                                                             THEN new.steps[i] ELSE @[i]]]
                ELSE sheet
    /\ UNCHANGED <<history, pushedOut>>

CanStart == ShowsFailed \/ (~sheet.running /\ ~sheet.done /\ ~Listed(sheet))
(* Mutant: the message of the last run stays.                              *)
BegunStained(r) == [sheet EXCEPT !.of = r, !.running = TRUE, !.done = FALSE,
                                 !.steps = Blank("pending"), !.mixed = FALSE, !.cleared = FALSE]

(* start(): the plan is listed before the first event.                     *)
Begun(r) == [sheet EXCEPT !.of = r, !.running = TRUE, !.done = FALSE, !.error = FALSE,
                          !.steps = Blank("pending"), !.mixed = FALSE, !.cleared = FALSE]

Start(r) ==
    LET new == [NoRow EXCEPT !.id = r, !.outcome = "succeeded"]
    IN  /\ row[r].outcome = "none" /\ CanStart
        /\ \/ /\ row' = [row EXCEPT ![r] = StartStep(new, 1)]
              /\ sheet' = [Begun(r) EXCEPT !.steps[1] = "running"]
              /\ UNCHANGED <<history, pushedOut>>
           \/ (* no manifest or no project: nothing is written down        *)
              /\ row' = [row EXCEPT ![r] = Error(new)]
              /\ sheet' = [Begun(r) EXCEPT !.running = FALSE, !.done = TRUE, !.error = TRUE]
              /\ UNCHANGED <<history, pushedOut>>
           \/ (* the project's row cannot be patched                       *)
              /\ row' = [row EXCEPT ![r] = Error(new)]
              /\ history' = Kept(history, Error(new))
              /\ pushedOut' = pushedOut \cup (Ids(history) \ Ids(history'))
              /\ sheet' = [Begun(r) EXCEPT !.running = FALSE, !.done = TRUE, !.error = TRUE]
        /\ UNCHANGED <<elsewhere, fixer, repairs, deaths, torn>>

(* A child exits, or is killed after five minutes.  A set-up step that     *)
(* fails ends the run; the files follow the last one and may not be        *)
(* writable; a verification that fails is noted, and the next one runs.    *)
ChildEnds(r) ==
    /\ Busy(r)
    /\ \E ok, writable \in BOOLEAN :
           LET i == row[r].at
               seen == EndStep(row[r], i, ok)
               new == IF i = SetUps /\ ok THEN [seen EXCEPT !.written = writable] ELSE seen
           IN  \/ i <= SetUps /\ ~ok /\ End(r, Error(new))
               \/ i = SetUps /\ ok /\ ~writable /\ End(r, Error(new))
               \/ i = SetUps + Verifies /\ End(r, new)
               \/ /\ i # SetUps + Verifies /\ (ok \/ i > SetUps) /\ (i # SetUps \/ writable)
                  /\ GoOn(r, StartStep(new, i + 1))
    /\ UNCHANGED <<elsewhere, fixer, repairs, deaths, torn>>

(* The sidecar dies, perhaps while it writes the history: a file that was  *)
(* cut short counts as empty.  The panel's stream breaks.                  *)
ScaffoldDies ==
    /\ deaths < MaxDeaths
    /\ deaths' = deaths + 1
    /\ \/ UNCHANGED <<history, torn>>
       \/ \E r \in Attempts : Busy(r) /\ history' = <<>> /\ torn' = torn \cup Ids(history)
    /\ row' = [r \in Attempts |-> IF Busy(r) THEN [row[r] EXCEPT !.at = 0, !.outcome = "lost"] ELSE row[r]]
    /\ sheet' = IF sheet.running THEN [sheet EXCEPT !.running = FALSE, !.error = TRUE] ELSE sheet
    /\ fixer' = IF fixer = "working" THEN "gave up" ELSE fixer
    /\ UNCHANGED <<elsewhere, repairs, pushedOut>>

(* The operator leaves the panel and comes back; the run goes on.          *)
OpenScaffold ==
    /\ sheet.of # "none" /\ ~sheet.asked
    /\ sheet' = Opened(LastSeen)
    /\ UNCHANGED <<row, history, elsewhere, fixer, repairs, deaths, pushedOut, torn>>

(* The history arrives: its guard reads the panel as it was when it was    *)
(* opened, empty and at rest, whatever has been started since.             *)
LoadHistory ==
    /\ sheet.asked
    /\ sheet' = IF sheet.last.outcome = "none" THEN [sheet EXCEPT !.asked = FALSE]
                ELSE [sheet EXCEPT !.asked = FALSE, !.last = NoRow,
                                   !.of = IF sheet.of = "none" THEN sheet.last.id ELSE @,
                                   !.mixed = sheet.of # "none",
                                   !.steps = sheet.last.steps, !.error = sheet.last.error,
                                   !.done = sheet.last.outcome = "succeeded"]
    /\ UNCHANGED <<row, history, elsewhere, fixer, repairs, deaths, pushedOut, torn>>

(* "Recrear con agente" clears the message before it asks for the run.     *)
Repair ==
    /\ ShowsFailed /\ repairs < MaxRepairs /\ fixer # "working"
    /\ repairs' = repairs + 1
    /\ \/ /\ sheet' = [sheet EXCEPT !.error = FALSE, !.cow = TRUE,
                                    !.cleared = @ \/ \A i \in Plan : sheet.steps[i] # "failed"]
          /\ fixer' = "working"
       \/ sheet' = [sheet EXCEPT !.error = TRUE] /\ UNCHANGED fixer
    /\ UNCHANGED <<row, history, elsewhere, deaths, pushedOut, torn>>

(* The agent is a run of its own; OK on its last line is a success.        *)
FixerEnds ==
    /\ fixer = "working"
    /\ fixer' \in {"ok", "gave up"}
    /\ UNCHANGED <<row, history, elsewhere, sheet, repairs, deaths, pushedOut, torn>>

(* CoworkerLiveView is mounted with the failure, and empties the panel.    *)
SeeFixer ==
    /\ ShowsFailed /\ sheet.cow /\ fixer = "ok"
    /\ sheet' = [sheet EXCEPT !.cow = FALSE, !.error = FALSE, !.done = TRUE, !.steps = Blank("absent")]
    /\ UNCHANGED <<row, history, elsewhere, fixer, repairs, deaths, pushedOut, torn>>

ScaffoldNext ==
    \/ \E r \in Attempts : Start(r) \/ ChildEnds(r)
    \/ ScaffoldDies \/ OpenScaffold \/ LoadHistory \/ Repair \/ FixerEnds \/ SeeFixer

ScaffoldSpec == ScaffoldInit /\ [][ScaffoldNext]_scaffoldVars
----------------------------------------------------------------------------
Statuses == {"absent", "pending", "running", "done", "failed"}

ScaffoldTypeOK ==
    /\ \A r \in Attempts : /\ row[r].id \in {r, "none"} /\ row[r].at \in {0} \cup Plan
                           /\ row[r].steps \in [Plan -> Statuses]
                           /\ row[r].outcome \in {"none", "succeeded", "failed", "lost"}
    /\ Len(history) <= MaxKept
    /\ sheet.of \in Attempts \cup {"none"} /\ sheet.steps \in [Plan -> Statuses]
    /\ sheet.running => sheet.of # "none" /\ Busy(sheet.of)
    /\ fixer \in {"none", "working", "ok", "gave up"}

(* A run the history calls succeeded went through: every child of the      *)
(* manifest was started and exited with 0 and every file was written,      *)
(* whichever step failed and however the run ended.                        *)
HistoryTruthful ==
    \A k \in 1 .. Len(history) :
        history[k].outcome = "succeeded" =>
            history[k].steps = Blank("done") /\ history[k].written /\ ~history[k].error

(* No run is lost from the history by another that ends at about the same  *)
(* time: a run that came to its end is in the file unless newer ones       *)
(* pushed it out or the file was cut short; one that is in it is complete. *)
NothingLost ==
    /\ \A r \in Attempts :
           row[r].outcome \in {"succeeded", "failed"} /\ row[r].at = 0 /\ row[r].steps # Blank("absent")
               => r \in Ids(history) \cup pushedOut \cup torn
    /\ \A k \in 1 .. Len(history) : history[k] = row[history[k].id]
    /\ \A r \in pushedOut : \A k \in 1 .. Len(history) : history[k].id # r

(* The panel says the scaffold is complete only of a run that succeeded,   *)
(* and shows a failure only of one that did not, except when the history   *)
(* arrived over a run that had been started, or the repair button cleared  *)
(* a message no failed step stands behind.                                 *)
ShownOutcome ==
    sheet.mixed \/ sheet.cleared
    \/ /\ ShowsComplete => row[sheet.of].outcome = "succeeded"
       /\ ShowsFailed => row[sheet.of].outcome # "succeeded"

(* What the history file and the panel say of a scaffold is what became of *)
(* it, with overlapping runs, deaths, reopened panels and repairs.         *)
ScaffoldHonest == HistoryTruthful /\ NothingLost /\ ShownOutcome
====
