---- MODULE Design ----
(***************************************************************************)
(* The design of a project: designer runs bring frames from Figma, the     *)
(* frame-assigner hands them out to the stories, the operator moves and    *)
(* approves them on DesignPanel, and the G5 gate scores one of them        *)
(* against the device.                                                     *)
(*                                                                         *)
(* The hook of a run is a chain of storage calls: one action, that a       *)
(* throwing row or the death of the sidecar cuts short, since every row is *)
(* a commit of its own.  A frame is named by its node: the table is unique *)
(* on (project, node), deleted rows included.                              *)
(***************************************************************************)
EXTENDS Integers, Sequences, FiniteSets, SequencesExt

CONSTANTS
    Nodes,         \* nodes of the Figma file
    Stories,       \* build stories of the project
    MaxJobs,       \* bound on designer and assigner runs
    MaxCuts        \* bound on deaths of the sidecar in a hook

ASSUME DesignBounds ==
    MaxJobs \in Nat /\ MaxCuts \in Nat /\ Stories \cap {"pool", "unknown", "none"} = {}

VARIABLES
    frame,         \* design_frames, by node
    job,           \* the runs, in the order they were queued
    gauge,         \* the frame whose story is being measured on the device
    board,         \* DesignPanel
    cuts,
    (* observers *)
    placed,        \* the story the operator put a frame on
    approvedAs     \* the run whose content the operator approved

designVars == <<frame, job, gauge, board, cuts, placed, approvedAs>>

NoFrame == [story |-> "pool", status |-> "none", from |-> 0, baseline |-> FALSE,
            scored |-> FALSE, live |-> FALSE]

Queued(kind, again) == [kind |-> kind, status |-> "open", again |-> again, brought |-> FALSE, cut |-> FALSE]

(* Mutant: a panel that was just opened has nothing at all.                *)
UnloadedBlank == [seen |-> [n \in Nodes |-> "none"], follows |-> 0, before |-> 0, success |-> 0]

(* A panel that was just opened has not loaded its frames.                 *)
Unloaded == [seen |-> [n \in Nodes |-> "absent"], follows |-> 0, before |-> 0, success |-> 0]

DesignInit ==
    /\ frame = [n \in Nodes |-> NoFrame]
    /\ job = <<>> /\ gauge = "none" /\ board = Unloaded /\ cuts = 0
    /\ placed = [n \in Nodes |-> "none"] /\ approvedAs = [n \in Nodes |-> 0]
----------------------------------------------------------------------------
(* Runs.                                                                   *)

OnBoard(n) == frame[n].live
Pool(frames) == {n \in Nodes : frames[n].live /\ frames[n].story = "pool"}
OpenJob(r) == r \in 1 .. Len(job) /\ job[r].status = "open"

(* One frame of a designer's output.  existing was read before the loop;   *)
(* its baseline is the fallback of a frame that comes without a picture.   *)
(* Mutant: a frame that comes back stays approved.                         *)
PersistSticky(r, status, existing, acc, x) ==
    IF acc.threw THEN acc
    ELSE IF existing[x.node].live
         THEN [acc EXCEPT !.brought = TRUE, !.frames[x.node].from = r,
                          !.frames[x.node].baseline = x.shot \/ existing[x.node].baseline]
    ELSE IF acc.frames[x.node].status = "none"
         THEN [acc EXCEPT !.brought = TRUE,
                          !.frames[x.node] = [NoFrame EXCEPT !.status = status, !.from = r,
                                                             !.baseline = x.shot, !.live = TRUE]]
    ELSE [acc EXCEPT !.threw = TRUE]

(* Mutant: without a picture the baseline goes.                            *)
PersistBare(r, status, existing, acc, x) ==
    IF acc.threw THEN acc
    ELSE IF existing[x.node].live
         THEN [acc EXCEPT !.brought = TRUE, !.frames[x.node].status = status, !.frames[x.node].from = r,
                          !.frames[x.node].baseline = x.shot]
    ELSE IF acc.frames[x.node].status = "none"
         THEN [acc EXCEPT !.brought = TRUE,
                          !.frames[x.node] = [NoFrame EXCEPT !.status = status, !.from = r,
                                                             !.baseline = x.shot, !.live = TRUE]]
    ELSE [acc EXCEPT !.threw = TRUE]

(* A node the project had and deleted, or one that comes twice, throws.    *)
Persist(r, status, existing, acc, x) ==
    IF acc.threw THEN acc
    ELSE IF existing[x.node].live
         THEN [acc EXCEPT !.brought = TRUE, !.frames[x.node].status = status, !.frames[x.node].from = r,
                          !.frames[x.node].baseline = x.shot \/ existing[x.node].baseline]
    ELSE IF acc.frames[x.node].status = "none"
         THEN [acc EXCEPT !.brought = TRUE,
                          !.frames[x.node] = [NoFrame EXCEPT !.status = status, !.from = r,
                                                             !.baseline = x.shot, !.live = TRUE]]
    ELSE [acc EXCEPT !.threw = TRUE]

Persisted(r, status, output) ==
    FoldLeft(LAMBDA acc, x : Persist(r, status, frame, acc, x),
             [frames |-> frame, threw |-> FALSE, brought |-> FALSE], output)

StillApproved(frames) == [n \in Nodes |-> IF frames[n].status = "approved" THEN approvedAs[n] ELSE 0]

Pictures == [node : Nodes, shot : BOOLEAN]
Outputs == {<<>>} \cup {<<x>> : x \in Pictures} \cup {<<x, y>> : x, y \in Pictures}

(* queueDesignerRun, for the three buttons of the panel; they are dead     *)
(* while a run is followed.                                                *)
AskDesign ==
    /\ board.follows = 0 /\ Len(job) < MaxJobs
    /\ job' = Append(job, Queued("designer", FALSE))
    /\ board' = [board EXCEPT !.follows = Len(job) + 1, !.success = 0,
                              !.before = Cardinality({n \in Nodes : board.seen[n] # "absent"})]
    /\ UNCHANGED <<frame, gauge, cuts, placed, approvedAs>>

Ended(r, status, brought) == [job EXCEPT ![r].status = status, ![r].brought = brought]

(* Mutant: what the hook says of the run is only logged.                   *)
HookFailsQuietly(r, brought) == job' = Ended(r, "succeeded", brought)

(* handleDesignHookFailure of a failure no other prompt would cure.        *)
HookFails(r, brought) == job' = Ended(r, "failed", brought)

(* Mutant: the marker in the prompt is not looked at.                      *)
AskAgainForEver(r) ==
    /\ Len(job) < MaxJobs
    /\ job' = Append(Ended(r, "failed", FALSE), Queued(job[r].kind, TRUE))

(* ... and of an output nobody could read: the run is queued again, once.  *)
AskAgain(r) ==
    IF job[r].again THEN job' = Ended(r, "failed", FALSE)
    ELSE /\ Len(job) < MaxJobs
         /\ job' = Append(Ended(r, "failed", FALSE), Queued(job[r].kind, TRUE))

(* handleDesignerOutput: the frames, then the run that hands them out.     *)
DesignerEnds(r) ==
    /\ OpenJob(r) /\ job[r].kind = "designer"
    /\ \/ AskAgain(r) /\ UNCHANGED <<frame, approvedAs>>
       \/ \E output \in Outputs \ {<<>>}, status \in {"imported", "generated"} :
              LET done == Persisted(r, status, output)
              IN  /\ frame' = done.frames
                  /\ approvedAs' = StillApproved(done.frames)
                  /\ \/ done.threw /\ HookFails(r, done.brought)
                     \/ /\ ~done.threw /\ Pool(done.frames) # {} /\ Len(job) < MaxJobs
                        /\ job' = Append(Ended(r, "succeeded", done.brought), Queued("assigner", FALSE))
                     \/ /\ ~done.threw /\ Pool(done.frames) = {}
                        /\ job' = Ended(r, "succeeded", done.brought)
    /\ UNCHANGED <<gauge, board, cuts, placed>>

(* Mutant: what the agent says goes, even for a frame that has a story.    *)
AssignOver(acc, x) ==
    IF acc.threw \/ ~acc.frames[x.node].live THEN acc
    ELSE IF x.story = "unknown" THEN [acc EXCEPT !.threw = TRUE]
    ELSE [acc EXCEPT !.frames[x.node].story = x.story]

(* One assignment of an assigner's output: only a frame that is still in   *)
(* the pool takes it; a story nobody knows is refused by its foreign key.  *)
Assign(acc, x) ==
    IF acc.threw \/ ~acc.frames[x.node].live \/ acc.frames[x.node].story # "pool" THEN acc
    ELSE IF x.story = "unknown" THEN [acc EXCEPT !.threw = TRUE]
    ELSE [acc EXCEPT !.frames[x.node].story = x.story]

Assignments == [node : Nodes, story : Stories \cup {"unknown"}]
Handouts == {<<>>} \cup {<<x>> : x \in Assignments} \cup {<<x, y>> : x, y \in Assignments}
Assigned(output) ==
    FoldLeft(LAMBDA acc, x : Assign(acc, x), [frames |-> frame, threw |-> FALSE], output)

AssignerEnds(r) ==
    /\ OpenJob(r) /\ job[r].kind = "assigner"
    /\ \/ AskAgain(r) /\ UNCHANGED frame
       \/ \E output \in Handouts :
              LET done == Assigned(output)
              IN  /\ frame' = done.frames
                  /\ IF done.threw THEN HookFails(r, FALSE) ELSE job' = Ended(r, "succeeded", FALSE)
    /\ UNCHANGED <<gauge, board, cuts, placed, approvedAs>>

(* The agent itself fails, or its run is cancelled.                        *)
JobStops(r) ==
    /\ OpenJob(r)
    /\ \E status \in {"failed", "cancelled"} : job' = Ended(r, status, FALSE)
    /\ UNCHANGED <<frame, gauge, board, cuts, placed, approvedAs>>

(* The sidecar dies in the hook: the run was closed before it, a first     *)
(* part of the frames may be there, and nobody takes the rest up again.    *)
DiesInHook(r) ==
    /\ OpenJob(r) /\ job[r].kind = "designer" /\ cuts < MaxCuts
    /\ cuts' = cuts + 1 /\ gauge' = "none"
    /\ \E output \in Outputs, status \in {"imported", "generated"} :
           LET done == Persisted(r, status, output)
           IN  /\ frame' = done.frames /\ approvedAs' = StillApproved(done.frames)
               /\ job' = [Ended(r, "succeeded", done.brought) EXCEPT ![r].cut = TRUE]
    /\ UNCHANGED <<board, placed>>
----------------------------------------------------------------------------
(* The operator and the panel.                                             *)

Card(n) == IF ~OnBoard(n) THEN "absent" ELSE IF frame[n].status = "approved" THEN "approved" ELSE "open"
Cards == [n \in Nodes |-> Card(n)]

(* The list arrives: after it was opened, after a button, after the run.   *)
RefreshBoard ==
    /\ board' = [board EXCEPT !.seen = Cards]
    /\ UNCHANGED <<frame, job, gauge, cuts, placed, approvedAs>>

ReopenBoard ==
    /\ board' = Unloaded
    /\ UNCHANGED <<frame, job, gauge, cuts, placed, approvedAs>>

(* reassign: the card may be older than the row.                           *)
Reassign(n) ==
    /\ board.seen[n] # "absent" /\ OnBoard(n)
    /\ \E s \in Stories \cup {"pool"} :
           /\ frame' = [frame EXCEPT ![n].story = s]
           /\ placed' = [placed EXCEPT ![n] = IF s = "pool" THEN "none" ELSE s]
    /\ UNCHANGED <<job, gauge, board, cuts, approvedAs>>

Approve(n) ==
    /\ board.seen[n] = "open" /\ OnBoard(n)
    /\ frame' = [frame EXCEPT ![n].status = "approved"]
    /\ approvedAs' = [approvedAs EXCEPT ![n] = frame[n].from]
    /\ UNCHANGED <<job, gauge, board, cuts, placed>>

(* All that is left of a deleted row is that it is there.                  *)
DeleteFrame(n) ==
    /\ OnBoard(n)
    /\ frame' = [frame EXCEPT ![n] = [NoFrame EXCEPT !.status = "deleted"]]
    /\ placed' = [placed EXCEPT ![n] = "none"] /\ approvedAs' = [approvedAs EXCEPT ![n] = 0]
    /\ UNCHANGED <<job, gauge, board, cuts>>

(* Mutant: more frames than before is a success.                           *)
SuccessByCount(r) == Cardinality({n \in Nodes : OnBoard(n)}) > board.before

(* onRunFinished: a failed run is a failure whatever it left behind, any   *)
(* other is judged by the number of frames there are more.                 *)
Success(r) == job[r].status # "failed" /\ Cardinality({n \in Nodes : OnBoard(n)}) > board.before

SeeEnd ==
    /\ board.follows # 0 /\ ~OpenJob(board.follows)
    /\ board' = [board EXCEPT !.follows = 0, !.before = 0,
                              !.success = IF Success(board.follows) THEN board.follows ELSE 0]
    /\ UNCHANGED <<frame, job, gauge, cuts, placed, approvedAs>>
----------------------------------------------------------------------------
(* runFidelityForStory: the frame is chosen before the device is asked,    *)
(* and scored afterwards by its id, whatever became of it.                 *)

Measure(s) ==
    /\ gauge = "none"
    /\ \E n \in Nodes : OnBoard(n) /\ frame[n].story = s /\ frame[n].baseline /\ gauge' = n
    /\ UNCHANGED <<frame, job, board, cuts, placed, approvedAs>>

Measured ==
    /\ gauge # "none" /\ gauge' = "none"
    /\ \/ frame' = [frame EXCEPT ![gauge].scored = OnBoard(gauge)]
       \/ UNCHANGED frame                       \* no device, no picture, no diff
    /\ UNCHANGED <<job, board, cuts, placed, approvedAs>>

JobNext == AskDesign \/ \E r \in 1 .. Len(job) : DesignerEnds(r) \/ JobStops(r) \/ DiesInHook(r)
BoardNext == RefreshBoard \/ ReopenBoard \/ SeeEnd \/ \E n \in Nodes : Approve(n) \/ DeleteFrame(n)
AssignNext ==
    \/ RefreshBoard \/ SeeEnd
    \/ \E r \in 1 .. Len(job) : AssignerEnds(r)
    \/ \E n \in Nodes : Reassign(n)
GaugeNext ==
    \/ AskDesign \/ RefreshBoard \/ SeeEnd \/ Measured
    \/ \E r \in 1 .. Len(job) : DesignerEnds(r)
    \/ \E n \in Nodes : Reassign(n) \/ DeleteFrame(n)
    \/ \E s \in Stories : Measure(s)

DesignNext == JobNext \/ BoardNext \/ AssignNext \/ GaugeNext

DesignSpec == DesignInit /\ [][DesignNext]_designVars
----------------------------------------------------------------------------
DesignTypeOK ==
    /\ frame \in [Nodes -> [story : Stories \cup {"pool"},
                            status : {"none", "imported", "generated", "approved", "deleted"},
                            from : 0 .. MaxJobs, baseline : BOOLEAN, scored : BOOLEAN, live : BOOLEAN]]
    /\ Len(job) <= MaxJobs
    /\ \A r \in 1 .. Len(job) : job[r].status \in {"open", "succeeded", "failed", "cancelled"}
    /\ gauge \in Nodes \cup {"none"}
    /\ board.follows \in 0 .. Len(job) /\ board.success \in 0 .. Len(job)
    /\ board.seen \in [Nodes -> {"absent", "open", "approved"}]

(* A frame the operator put on a story stays there: no assigner run that   *)
(* was queued while the frame was in the pool takes it away afterwards,    *)
(* and no later import puts it back.                                       *)
AssignmentKept ==
    \A n \in Nodes : placed[n] \in Stories => frame[n].story = placed[n]

(* An approved frame has the content that was there when it was approved:  *)
(* an import that replaces the content takes the approval back, and so     *)
(* does one that was cut short by a crash or by a row that threw.          *)
ApprovalCoversContent ==
    \A n \in Nodes : frame[n].status = "approved" => approvedAs[n] = frame[n].from

(* A frame with a fidelity score has the baseline it was compared with,    *)
(* whatever was imported while the device was being asked.                 *)
MeasuredHasBaseline == \A n \in Nodes : frame[n].scored => frame[n].baseline

(* A designer run that succeeded brought a frame (never the silent success *)
(* HookResult is there to prevent), unless the sidecar died in its hook.   *)
SucceededHasFrames ==
    \A r \in 1 .. Len(job) :
        job[r].kind = "designer" /\ job[r].status = "succeeded" => job[r].brought \/ job[r].cut

(* A run that failed half-way leaves new frames behind; the panel that     *)
(* followed it does not take them for a success.                           *)
FailureShown == board.success # 0 => job[board.success].status # "failed"

(* An output nobody could read is asked for once more, and no more: no two *)
(* runs in a row are corrections.  A retry is always of a failed run.      *)
RetriedOnce ==
    \A k \in {"designer", "assigner"} :
        LET Of(again) == Cardinality({r \in 1 .. Len(job) : job[r].kind = k /\ job[r].again = again})
        IN  Of(TRUE) <= Cardinality({r \in 1 .. Len(job) :
                                         job[r].kind = k /\ ~job[r].again /\ job[r].status = "failed"})

(* What the operator decided about a frame stands, what the gate measured  *)
(* it did measure, and a run is shown as what it was, with imports, moves, *)
(* deletes, retries and deaths of the sidecar in between.                  *)
DesignHonest ==
    /\ DesignTypeOK
    /\ AssignmentKept /\ ApprovalCoversContent /\ MeasuredHasBaseline
    /\ SucceededHasFrames /\ FailureShown /\ RetriedOnce
====
