---- MODULE TaskDesk ----
(***************************************************************************)
(* The wizard in which the operator takes a task through its iteration     *)
(* (packages/ui-flows/src/TaskDetail.tsx), over the use cases and the gate *)
(* runner of TaskWorkflow.                                                 *)
(*                                                                         *)
(* The page shows what it fetched last, each part by a request of its own, *)
(* and derives its steps and their buttons from that.  It asks for the     *)
(* runs again while one it shows is active, and for everything once none   *)
(* is.  The verdict of a QA run is a request of its own, asked with the    *)
(* runs; the page keeps the answer it heard last and does not look whose   *)
(* it is.  A button may send two requests, one after the other.  A request *)
(* that is refused changes nothing and is left out.                        *)
(***************************************************************************)
EXTENDS TaskWorkflow, FiniteSetsExt

CONSTANTS
    Mandatory,   \* the gates gatesPassed asks for
    WizardList,  \* the gates a verification runs
    Flutter      \* an implementation task of a Flutter project

Parts == {"task", "runs", "gates"}

ASSUME DeskAssumption ==
    /\ Mandatory \subseteq GateTypes /\ WizardList \in Lists
    /\ Flutter \in BOOLEAN
    /\ Runs \cap (Parts \cup {"none"}) = {}

VARIABLES
    kind,      \* agent_runs.agent_kind: dev, qa, fixer, troubleshooter
    said,      \* what a run says: its output, or its verdict file
    filed,     \* pairs of QA runs: the file of the second may answer for the first
    order,     \* the runs by created_at
    tested,    \* the flag in the browser's localStorage
    view,      \* what the page shows; view.qa is whose verdict
    due,       \* parts of the page being fetched, and QA runs asked for a verdict
    asked,     \* what the page waits for
    (* observers *)
    outdated,  \* ids of gate rows judged before a file was last edited
    overtaken, \* QA runs since whose launch a run that succeeded has edited files
    blurred,   \* QA runs beside another run, or before one that edited and failed
    strayed    \* the verdict heard last was not the one of the newest QA run shown

observers == <<outdated, overtaken, blurred, strayed>>
deskVars == <<kind, said, filed, order, tested, view, due, asked, observers>>
page == <<tested, view, due, asked>>

NoPage == [task |-> "pending", n |-> 1, runs |-> [r \in Runs |-> "absent"],
           gates |-> {}, qa |-> "none"]

DeskInit ==
    /\ kind = [r \in Runs |-> "none"] /\ said = [r \in Runs |-> "none"]
    /\ filed = {} /\ order = <<>>
    /\ tested = FALSE
    /\ view = NoPage /\ due = {} /\ asked = "none"
    /\ outdated = {} /\ overtaken = {} /\ blurred = {} /\ strayed = FALSE
----------------------------------------------------------------------------
(* What the page makes of its runs and gates.                              *)

Newest(S) == order[Max({i \in DOMAIN order : order[i] \in S})]
After(r, s) == Max({i \in DOMAIN order : order[i] = r}) > Max({i \in DOMAIN order : order[i] = s})

QaRuns == {r \in Runs : kind[r] = "qa" /\ view.runs[r] # "absent"}
DevRuns == {r \in Runs : kind[r] # "qa" /\ view.runs[r] # "absent"}
Active(S) == {r \in S : view.runs[r] = "queued"}
Succeeded(S) == {r \in S : view.runs[r] = "billed"}

(* The output of the last run that was not a QA run lists edited files, or *)
(* reads as if there was nothing to do.                                    *)
AgentDone ==
    /\ Succeeded(DevRuns) # {}
    /\ said[Newest(Succeeded(DevRuns))] \in {"edits", "verified"}

GatesPassed == \A t \in Mandatory : \E g \in view.gates : g.type = t /\ g.status = "passed"
FailedGates == {g \in view.gates : g.status = "failed"}

(* The QA run whose verdict the page asks for: the newest that succeeded.  *)
QaDone == IF Succeeded(QaRuns) = {} THEN {} ELSE {Newest(Succeeded(QaRuns))}

(* The verdict heard last, whichever run it was asked of: "approved",      *)
(* "rejected", or "silent" without one.                                    *)
Heard == IF view.qa = "none" THEN "none" ELSE said[view.qa]

(* Mutant: the verdict counts whatever ran since the newest QA run.        *)
VerdictKept ==
    IF QaRuns # {} /\ Newest(QaRuns) \in Succeeded(QaRuns) THEN Heard ELSE "none"

(* It counts when the newest QA run succeeded and no other run is newer or *)
(* at work.                                                                *)
Verdict ==
    IF /\ QaRuns # {} /\ Newest(QaRuns) \in Succeeded(QaRuns)
       /\ Active(DevRuns) = {}
       /\ \A r \in Succeeded(DevRuns) : After(Newest(QaRuns), r)
    THEN Heard ELSE "none"

Working == view.task \in {"in_progress", "rework"}
Tried == tested \/ ~Flutter
AutoApprove == GatesPassed /\ Tried
----------------------------------------------------------------------------
(* The buttons of each step.                                               *)

StartStep == IF view.task = "pending" THEN {"start"} ELSE {}

(* Mutant: the step is offered whatever the status of the task.            *)
AgentStepAlways == IF Active(DevRuns) # {} THEN {"cancel"} ELSE {"launch"}

AgentStep == IF ~Working THEN {}
             ELSE IF Active(DevRuns) # {} THEN {"cancel"} ELSE {"launch"}

(* The repair of a gate waits until no agent is seen working; the other    *)
(* ways out of a failed gate do not.                                       *)
VerifyStep ==
    CASE GatesPassed /\ view.task # "approved" -> {"rerun"}
      [] ~GatesPassed /\ Working /\ AgentDone ->
            {"verify"} \cup (IF FailedGates = {} THEN {}
                             ELSE {"fix", "pass"} \cup
                                  (IF Active(Runs) = {} THEN {"repair"} ELSE {}))
      [] OTHER -> {}

ManualStep == IF Flutter /\ GatesPassed /\ view.task = "in_progress" /\ ~tested
              THEN {"confirm"} ELSE {}

QaStep ==
    CASE ~Working -> {}
      [] Working /\ QaRuns # {} /\ Newest(QaRuns) \in Active(QaRuns) -> {}
      [] Working /\ Verdict = "rejected" -> {"qa", "rework"}
      [] Working /\ Verdict \in {"approved", "silent"} -> {"qa"}
      [] Working /\ QaRuns # {} /\ view.runs[Newest(QaRuns)] = "closed" -> {"qa"}
      [] OTHER -> IF AutoApprove THEN {"qa"} ELSE {}

ApproveStep ==
    CASE view.task = "qa" -> {"approve", "reject"}
      [] Working /\ (Verdict # "none" \/ AutoApprove) -> {"approve", "reject"}
      [] view.task = "approved" -> {"reopen"}
      [] OTHER -> {}

Offers == StartStep \cup AgentStep \cup VerifyStep \cup ManualStep
            \cup QaStep \cup ApproveStep
----------------------------------------------------------------------------
(* Fetching.                                                               *)

(* With the runs, the verdict of the newest QA run known is asked for.     *)
Asks(parts) == due' = due \cup parts \cup (IF "runs" \in parts THEN QaDone ELSE {})

Fetch(p) ==
    /\ UNCHANGED <<vars, kind, said, filed, order, tested, asked, observers>>
    /\ p \in due
    /\ \/ /\ p = "task"
          /\ view' = [view EXCEPT !.task = task, !.n = cur]
          /\ due' = (due \ {p}) \cup (IF view.n # cur THEN {"gates"} ELSE {})
       \/ /\ p = "gates"
          /\ view' = [view EXCEPT !.gates = {g \in gates : g.n = view.n}]
          /\ due' = due \ {p}
       \/ /\ p = "runs"
          /\ view' = [view EXCEPT !.runs = [r \in Runs |-> run[r].stage]]
          /\ due' = IF Active(Runs) # {} /\ Active(Runs)' = {}
                    THEN due \cup Parts \cup QaDone'
                    ELSE (due \ {p}) \cup (QaDone' \ QaDone)

(* The answer to the request for q's verdict: q's own, or the one in the   *)
(* file of another run; a request that fails leaves what was heard before. *)
HearVerdict(q) ==
    /\ q \in due /\ due' = due \ {q}
    /\ \E p \in {q, view.qa} \cup {p \in Runs : <<q, p>> \in filed} :
          view' = [view EXCEPT !.qa = p]
    /\ strayed' = (QaDone # {view'.qa})
    /\ UNCHANGED <<vars, kind, said, filed, order, tested, asked, outdated, overtaken, blurred>>

Quietly == UNCHANGED <<vars, kind, said, filed, order, tested, view, asked, observers>>

(* Mutant: only the runs of the agent step keep the page asking.           *)
PollDevRuns ==
    Active(DevRuns) # {} /\ "runs" \notin due /\ Asks({"runs"}) /\ Quietly

(* Every second while a run is active in the view ...                      *)
PollRuns ==
    Active(Runs) # {} /\ "runs" \notin due /\ Asks({"runs"}) /\ Quietly

(* ... and every second and a half while a gate is pending in it.          *)
PollGates ==
    /\ \E g \in view.gates : g.status = "pending"
    /\ "gates" \notin due /\ Asks({"gates"}) /\ Quietly

Poll == PollRuns \/ PollGates
----------------------------------------------------------------------------
(* The buttons.                                                            *)

Unwatched == UNCHANGED <<kind, said, filed, order, observers>>

ClickStart ==
    /\ "start" \in Offers /\ StartTask /\ Asks(Parts)
    /\ UNCHANGED <<tested, view, asked>> /\ Unwatched

(* A run of kind k is queued.                                              *)
Launch(r, k) ==
    /\ QueueAgentRun(r)
    /\ kind' = [kind EXCEPT ![r] = k]
    /\ order' = Append(order, r)
    /\ blurred' = IF k = "qa" /\ \E s \in Runs : kind[s] # "qa" /\ run[s].stage = "queued"
                  THEN blurred \cup {r} ELSE blurred
    /\ UNCHANGED <<said, filed, view, asked, outdated, overtaken, strayed>>

ClickLaunch(r) ==
    "launch" \in Offers /\ Launch(r, "dev") /\ Asks(Parts) /\ UNCHANGED tested
ClickFix(r) ==
    "fix" \in Offers /\ Launch(r, "dev") /\ Asks(Parts) /\ UNCHANGED tested
ClickQa(r) ==
    "qa" \in Offers /\ Launch(r, "qa") /\ Asks(Parts) /\ UNCHANGED tested

(* The row of a gate follows its own repair: the page fetches nothing.     *)
ClickRepair(r) ==
    "repair" \in Offers /\ Launch(r, "fixer") /\ UNCHANGED <<due, tested>>

ClickRework(r) ==
    "rework" \in Offers /\ Launch(r, "dev") /\ Asks(Parts) /\ tested' = FALSE

(* Mutant: the run carries the kind of the report.                         *)
ReportAsBugfix(r) == Launch(r, "bugfix") /\ UNCHANGED <<due, tested>>

(* A report of the troubleshooter queues its own run.                      *)
ReportError(r) == Launch(r, "troubleshooter") /\ UNCHANGED <<due, tested>>

(* The transcript shown is the newest run's, active or not.                *)
ClickCancel ==
    /\ "cancel" \in Offers
    /\ CloseAgentRunUnsuccessful(Newest(DevRuns))
    /\ Asks(Parts)
    /\ UNCHANGED <<tested, view, asked>> /\ Unwatched

ClickVerify ==
    /\ "verify" \in Offers /\ asked = "none"
    /\ RunGatesForTask(WizardList)
    /\ asked' = "gates"
    /\ UNCHANGED <<tested, view, due>> /\ Unwatched

(* The request for a gate run is answered when the run ends.               *)
GatesAnswered ==
    /\ asked = "gates" /\ gateRun = Idle
    /\ asked' = "none" /\ Asks(Parts)
    /\ UNCHANGED <<vars, tested, view>> /\ Unwatched

(* Two requests: the rows are deleted, then the gates run.                 *)
ClickRerun ==
    /\ "rerun" \in Offers /\ asked = "none"
    /\ ResetGatesForTask({WizardList[i] : i \in DOMAIN WizardList})
    /\ asked' = "rerun" /\ Asks(Parts)
    /\ UNCHANGED <<tested, view>> /\ Unwatched
FinishRerun ==
    /\ asked = "rerun"
    /\ RunGatesForTask(WizardList)
    /\ asked' = "gates"
    /\ UNCHANGED <<tested, view, due>> /\ Unwatched

(* "Marcar como passed": forced over the failure.                          *)
ClickPass(g) ==
    /\ "pass" \in Offers /\ g \in FailedGates
    /\ RecordGateOutcome(g, "passed", TRUE)
    /\ Asks(Parts)
    /\ UNCHANGED <<tested, view, asked>> /\ Unwatched

ClickConfirm ==
    /\ "confirm" \in Offers
    /\ tested' = TRUE /\ Asks(Parts)
    /\ UNCHANGED <<vars, view, asked>> /\ Unwatched

Decision(d) == IF d = "approve" THEN ApproveTask ELSE RejectTask

(* From qa the decision is one request; before it, the task is submitted,  *)
(* which drops the flag, and a refusal of that is ignored.                 *)
ClickDecide(d) ==
    /\ d \in Offers /\ asked = "none"
    /\ \/ /\ view.task = "qa"
          /\ Decision(d) /\ Asks(Parts) /\ UNCHANGED <<tested, asked>>
       \/ /\ view.task # "qa"
          /\ \/ SubmitTaskForQa /\ tested' = FALSE
             \/ Quiet /\ task \notin {"in_progress", "rework"} /\ UNCHANGED <<vars, tested>>
          /\ asked' = d /\ UNCHANGED due
    /\ UNCHANGED view /\ Unwatched

FinishDecide ==
    /\ asked \in {"approve", "reject"}
    /\ Decision(asked) /\ asked' = "none" /\ Asks(Parts)
    /\ UNCHANGED <<tested, view>> /\ Unwatched

ClickReopen ==
    /\ "reopen" \in Offers /\ ReopenTask /\ Asks(Parts)
    /\ UNCHANGED <<tested, view, asked>> /\ Unwatched

(* The second request of a chain, or the answer of a long one, is lost.    *)
Lost ==
    /\ asked # "none" /\ asked' = "none"
    /\ UNCHANGED <<vars, tested, view, due>> /\ Unwatched

AgentClicks ==
    \/ ClickStart \/ ClickCancel
    \/ \E r \in Runs : ClickLaunch(r) \/ ReportError(r)
VerifyClicks ==
    \/ ClickVerify \/ GatesAnswered \/ ClickRerun \/ FinishRerun
    \/ \E g \in view.gates : ClickPass(g)
    \/ \E r \in Runs : ClickFix(r) \/ ClickRepair(r)
ReviewClicks ==
    \/ ClickConfirm
    \/ \E r \in Runs : ClickQa(r) \/ ClickRework(r)
    \/ \E d \in {"approve", "reject"} : ClickDecide(d)
    \/ FinishDecide \/ ClickReopen
----------------------------------------------------------------------------
(* The agents and the gates.                                               *)

Says(k) == CASE k = "dev" -> {"edits", "verified", "nothing"}
             [] k = "fixer" -> {"edits", "nothing"}
             [] k = "qa" -> {"approved", "rejected", "silent"}
             [] OTHER -> {"nothing"}

(* A QA run writes its verdict to a file, which is younger than every QA   *)
(* run launched by then (the route tolerates two seconds: left out).       *)
Tests == {q \in Runs : kind[q] = "qa"}
Files(r) == filed' = filed \cup (Tests \X {r})

(* Files are edited: every verdict given so far is about older code.       *)
Edited == outdated' = {g.id : g \in {h \in gates : h.status # "pending"}}

RunSucceeds(r, m, s) ==
    /\ s \in Says(kind[r])
    /\ CloseAgentRunSucceeded(r, m)
    /\ said' = [said EXCEPT ![r] = s]
    /\ IF s \in {"approved", "rejected"} THEN Files(r) ELSE UNCHANGED filed
    /\ IF s = "edits" THEN Edited /\ overtaken' = overtaken \cup Tests
       ELSE UNCHANGED <<outdated, overtaken>>
    /\ UNCHANGED <<kind, order, page, blurred, strayed>>

(* A run that fails may have edited files, or written its verdict.         *)
RunFails(r) ==
    /\ CloseAgentRunUnsuccessful(r)
    /\ \/ UNCHANGED <<said, filed, outdated, blurred>>
       \/ /\ kind[r] \in {"dev", "fixer"} /\ Edited
          /\ blurred' = blurred \cup Tests
          /\ UNCHANGED <<said, filed>>
       \/ /\ kind[r] = "qa" /\ Files(r)
          /\ \E s \in {"approved", "rejected"} : said' = [said EXCEPT ![r] = s]
          /\ UNCHANGED <<outdated, blurred>>
    /\ UNCHANGED <<kind, order, page, overtaken, strayed>>

RunEnds == \E r \in Runs : RunFails(r) \/ \E m \in Minutes, s \in Says(kind[r]) : RunSucceeds(r, m, s)

GateStep ==
    /\ \/ /\ \/ TakeRow \/ SpawnGate \/ GateRunThrows
             \/ \E s \in {"passed", "failed"} : AskDevice(s)
          /\ UNCHANGED outdated
       \/ /\ \/ SkipGate
             \/ \E s \in {"passed", "failed"} : GateChildEnds(s) \/ DeviceAnswers(s)
          /\ outdated' = outdated \ {gateRun.row}
    /\ UNCHANGED <<kind, said, filed, order, page, overtaken, blurred, strayed>>

DeskNext ==
    \/ AgentClicks \/ VerifyClicks \/ ReviewClicks \/ Lost \/ Poll
    \/ (\E p \in Parts : Fetch(p)) \/ (\E q \in Runs : HearVerdict(q))
    \/ RunEnds \/ GateStep
    \/ Restart /\ UNCHANGED deskVars

(* An agent ends by itself or by its timers, and what it reports waits in  *)
(* the event queue while the gate runner has the turn, again and again.    *)
DeskFairness ==
    /\ WF_<<vars, deskVars>>(GateStep)
    /\ SF_<<vars, deskVars>>(RunEnds)
    /\ WF_<<vars, deskVars>>(PollRuns)
    /\ \A p \in Parts : WF_<<vars, deskVars>>(Fetch(p))

DeskSpec == Init /\ DeskInit /\ [][DeskNext]_<<vars, deskVars>> /\ DeskFairness
----------------------------------------------------------------------------
DeskTypeOK ==
    /\ kind \in [Runs -> {"none", "dev", "qa", "fixer", "troubleshooter"}]
    /\ order \in Seq(Runs) /\ Len(order) <= Cardinality(Runs)
    /\ tested \in BOOLEAN
    /\ view.task \in {"pending", "in_progress", "qa", "approved", "rework"}
    /\ view.n \in Iterations /\ view.gates \subseteq GateRow /\ view.qa \in Runs \cup {"none"}
    /\ due \subseteq Parts \cup Runs
    /\ asked \in {"none", "gates", "rerun", "approve", "reject"}

(* The page shows how things are, and has asked for no part of it since.   *)
Fresh ==
    /\ view = [task |-> task, n |-> cur, runs |-> [r \in Runs |-> run[r].stage],
               gates |-> {g \in gates : g.n = cur}, qa |-> view.qa]
    /\ due \cap Parts = {} /\ asked = "none"

(* When the page shows how things are, every button it offers is one the   *)
(* use case behind it accepts: no step of the wizard leads into an error.  *)
OffersAccepted ==
    /\ DeskTypeOK
    /\ Fresh => \A o \in Offers :
          CASE o = "start" -> task = "pending"
            [] o \in {"launch", "fix", "repair", "qa", "rework", "verify"} -> iters[cur] = "open"
            [] o \in {"approve", "reject"} -> task \in {"qa", "in_progress", "rework"}
            [] o = "reopen" -> task = "approved"
            [] OTHER -> TRUE

(* TaskDetail.tsx: "A QA verdict is only meaningful if no dev/impl run has *)
(* started AFTER it".  The page compares times of creation only; still, no *)
(* file was edited since the launch of the QA run whose verdict counts,    *)
(* unless it was launched beside an agent at work, an agent that failed    *)
(* had edited files, or the last answer was not of the run it counts for.  *)
VerdictOnLatestCode ==
    Verdict # "none" /\ Fresh /\ due = {} /\ ~strayed => view.qa \notin overtaken \ blurred

(* The comment itself: the verdict of a page that is up to date and waits  *)
(* for no answer does not refer to stale code, whichever way answers came. *)
VerdictNotStale ==
    Verdict # "none" /\ Fresh /\ due = {} => view.qa \notin overtaken \ blurred

(* An active run the page shows is in the end shown as what became of it,  *)
(* and the page never stops asking before.                                 *)
SeenRunEnds == \A r \in Runs : view.runs[r] = "queued" ~> view.runs[r] # "queued"

(* TaskDetail.tsx: with the gates green the decision needs no QA because   *)
(* "the deterministic gates already proved the code builds".               *)
GatesProveCode ==
    Fresh /\ Working /\ AutoApprove =>
        \A g \in gates : g.n = cur /\ g.type \in Mandatory => g.id \notin outdated
====
