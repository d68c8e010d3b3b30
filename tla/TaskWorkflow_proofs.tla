---- MODULE TaskWorkflow_proofs ----
(***************************************************************************)
(* What holds of a task, its iterations and its gate rows for every set of *)
(* gate types and agent runs and all bounds.                               *)
(***************************************************************************)
EXTENDS TaskDesk, DataFacts, SequenceTheorems, FiniteSetTheorems, TLAPS

(* Row ids are handed out in order and never twice.                        *)
RowIds ==
    /\ \A g \in gates : g.id <= made
    /\ \A g, h \in gates : g.id = h.id => g = h

(* The row a run judges has been handed out, so no later row has its id.   *)
RowKnown ==
    gateRun.host \in {"taken", "child", "passed", "failed"} => gateRun.row <= made

IInv ==
    /\ TypeOK
    /\ IterationChain
    /\ RowIds
    /\ OneRowPerGate
    /\ RowKnown
    /\ RunJudgesItsIteration

-----------------------------------------------------------------------------
(* Facts about the rows and the runner's entry that several actions need.  *)

Rows == gates \in SUBSET GateRow /\ made \in 0 .. MaxRows /\ RowIds /\ OneRowPerGate

RunType == gateRun \in {Idle} \cup {b \in Busy : b.todo # <<>>}

(* A run under way has a gate to work on.                                  *)
LEMMA RunTyped ==
  ASSUME RunType, gateRun.host # "idle"
  PROVE  /\ gateRun \in Busy /\ gateRun.todo # <<>>
         /\ gateRun.todo \in Seq(GateTypes) /\ Len(gateRun.todo) \in Nat \ {0}
         /\ Gate \in GateTypes /\ gateRun.n \in Iterations
<1>1. gateRun \in Busy /\ gateRun.todo # <<>>
  BY DEF RunType, Idle
<1>2. gateRun.todo \in Seq(GateTypes) /\ gateRun.n \in Iterations
  BY <1>1 DEF Busy
<1>3. Len(gateRun.todo) \in Nat \ {0} /\ Head(gateRun.todo) \in GateTypes
  BY <1>1, <1>2
<1> QED BY <1>1, <1>2, <1>3 DEF Gate

(* The entry changes its host and its row.                                 *)
LEMMA RunMoves ==
  ASSUME RunType, gateRun.host # "idle", NEW id \in 0 .. MaxRows,
         NEW h \in {"top", "taken", "child", "passed", "failed"},
         gateRun' = [gateRun EXCEPT !.host = h, !.row = id]
  PROVE  /\ RunType'
         /\ gateRun'.host = h /\ gateRun'.row = id
         /\ gateRun'.n = gateRun.n /\ gateRun'.todo = gateRun.todo
<1>1. gateRun \in Busy /\ gateRun.todo # <<>>
  BY RunTyped
<1>2. gateRun' = [host |-> h, n |-> gateRun.n, todo |-> gateRun.todo, row |-> id]
  BY <1>1 DEF Busy
<1>3. gateRun' \in Busy /\ gateRun'.todo # <<>>
  BY <1>1, <1>2 DEF Busy
<1> QED BY <1>2, <1>3 DEF RunType

(* Only the host of the entry changes.                                     *)
LEMMA HostMoves ==
  ASSUME RunType, gateRun.host # "idle",
         NEW h \in {"child", "passed", "failed"},
         gateRun' = [gateRun EXCEPT !.host = h]
  PROVE  /\ RunType'
         /\ gateRun'.host = h /\ gateRun'.row = gateRun.row
         /\ gateRun'.n = gateRun.n /\ gateRun'.todo = gateRun.todo
<1>1. gateRun \in Busy /\ gateRun.todo # <<>>
  BY RunTyped
<1>2. gateRun' = [host |-> h, n |-> gateRun.n, todo |-> gateRun.todo,
                  row |-> gateRun.row]
  BY <1>1 DEF Busy
<1>3. gateRun' \in Busy /\ gateRun'.todo # <<>>
  BY <1>1, <1>2 DEF Busy
<1> QED BY <1>2, <1>3 DEF RunType

(* After a gate the entry is gone, or at the top of the loop again.        *)
LEMMA RunAdvances ==
  ASSUME RunType, gateRun.host # "idle", Advance
  PROVE  RunType' /\ gateRun'.host \in {"idle", "top"}
<1>1. /\ gateRun \in Busy /\ gateRun.todo \in Seq(GateTypes)
      /\ Len(gateRun.todo) \in Nat \ {0}
  BY RunTyped
<1>2. CASE Len(gateRun.todo) = 1
  BY <1>2 DEF Advance, RunType, Idle
<1>3. CASE Len(gateRun.todo) # 1
  <2>1. Tail(gateRun.todo) \in Seq(GateTypes) /\ Tail(gateRun.todo) # <<>>
    <3> DEFINE todo == gateRun.todo
    <3>1. todo \in Seq(GateTypes) /\ todo # <<>> /\ Len(todo) \in Nat \ {0, 1}
      BY <1>1, <1>3
    <3> HIDE DEF todo
    <3>2. Tail(todo) \in Seq(GateTypes) /\ Len(Tail(todo)) = Len(todo) - 1
      BY <3>1, HeadTailProperties
    <3>3. Len(Tail(todo)) # 0
      BY <3>1, <3>2
    <3>4. Tail(todo) # <<>>
      BY <3>3, EmptySeq
    <3> QED BY <3>2, <3>4 DEF todo
  <2>2. gateRun' = [host |-> "top", n |-> gateRun.n, todo |-> Tail(gateRun.todo),
                    row |-> 0]
    BY <1>1, <1>3 DEF Advance, Busy
  <2>3. gateRun' \in Busy
    BY <1>1, <2>1, <2>2, BoundsAssumption DEF Busy
  <2> QED BY <2>1, <2>2, <2>3 DEF RunType
<1> QED BY <1>2, <1>3

(* A new row gets a new id and is the only one of its gate.                *)
LEMMA RowAdded ==
  ASSUME Rows, NEW n \in Iterations, NEW t \in GateTypes, RowsFor(n, t) = {},
         AddRow(n, t)
  PROVE  /\ Rows' /\ made' = made + 1
         /\ \A g \in gates' : g \in gates \/ g = NewRow(n, t)
<1>1. made \in Nat /\ made + 1 \in 1 .. MaxRows /\ made' = made + 1
  BY BoundsAssumption DEF Rows, AddRow
<1>2. NewRow(n, t) \in GateRow
  BY <1>1 DEF NewRow, GateRow
<1>3. gates' \in SUBSET GateRow /\ \A g \in gates' : g \in gates \/ g = NewRow(n, t)
  BY <1>2 DEF Rows, AddRow
<1>4. /\ NewRow(n, t).id = made + 1
      /\ \A g \in gates : g.id \in Nat /\ g.id <= made
  BY <1>1 DEF NewRow, Rows, RowIds, GateRow
<1>5. RowIds'
  BY <1>1, <1>3, <1>4 DEF Rows, RowIds
<1>6. OneRowPerGate'
  BY <1>3 DEF Rows, OneRowPerGate, RowsFor, NewRow
<1> QED BY <1>1, <1>3, <1>5, <1>6 DEF Rows

(* A verdict changes the status of a row and nothing else.                 *)
LEMMA RowJudged ==
  ASSUME Rows, NEW id, NEW s \in Verdicts
  PROVE  /\ Judged(id, s) \in SUBSET GateRow
         /\ \A h \in Judged(id, s) : \E g \in gates :
                /\ h = IF g.id = id THEN [g EXCEPT !.status = s] ELSE g
                /\ h.id = g.id /\ h.n = g.n /\ h.type = g.type
         /\ \A g \in gates : \E h \in Judged(id, s) : h.id = g.id
<1> DEFINE New(g) == IF g.id = id THEN [g EXCEPT !.status = s] ELSE g
<1>1. ASSUME NEW g \in gates
      PROVE  /\ New(g) \in GateRow
             /\ New(g).id = g.id /\ New(g).n = g.n /\ New(g).type = g.type
  <2>1. g \in GateRow
    BY DEF Rows
  <2>2. CASE g.id = id
    <3>1. New(g) = [id |-> g.id, n |-> g.n, type |-> g.type, status |-> s]
      BY <2>1, <2>2 DEF GateRow
    <3> QED BY <2>1, <3>1 DEF GateRow
  <2>3. CASE g.id # id
    BY <2>1, <2>3
  <2> QED BY <2>2, <2>3
<1>2. Judged(id, s) = {New(g) : g \in gates}
  BY DEF Judged
<1>3. ASSUME NEW h \in Judged(id, s)
      PROVE  \E g \in gates : h = New(g) /\ h.id = g.id /\ h.n = g.n /\ h.type = g.type
  <2>1. PICK g \in gates : h = New(g)
    BY <1>2
  <2> HIDE DEF New
  <2> QED BY <1>1, <2>1
<1>4. ASSUME NEW g \in gates PROVE \E h \in Judged(id, s) : h.id = g.id
  <2> HIDE DEF New
  <2> QED BY <1>1, <1>2
<1>5. Judged(id, s) \in SUBSET GateRow
  <2> HIDE DEF New
  <2> QED BY <1>1, <1>2
<1> QED BY <1>3, <1>4, <1>5

LEMMA RowsJudged ==
  ASSUME Rows, NEW x, NEW s \in Verdicts, gates' = Judged(x, s), made' = made
  PROVE  Rows'
<1>1. /\ gates' \in SUBSET GateRow
      /\ \A h \in gates' : \E g \in gates :
             /\ h = IF g.id = x THEN [g EXCEPT !.status = s] ELSE g
             /\ h.id = g.id /\ h.n = g.n /\ h.type = g.type
  BY RowJudged
<1>2. \A h \in gates' : h.id <= made'
  BY <1>1 DEF Rows, RowIds
<1>3. ASSUME NEW h \in gates', NEW i \in gates',
             \/ h.id = i.id
             \/ h.n = i.n /\ h.type = i.type
      PROVE  h = i
  <2>1. PICK g \in gates : /\ h = IF g.id = x THEN [g EXCEPT !.status = s] ELSE g
                           /\ h.id = g.id /\ h.n = g.n /\ h.type = g.type
    BY <1>1
  <2>2. PICK k \in gates : /\ i = IF k.id = x THEN [k EXCEPT !.status = s] ELSE k
                           /\ i.id = k.id /\ i.n = k.n /\ i.type = k.type
    BY <1>1
  <2>3. g = k
    BY <1>3, <2>1, <2>2 DEF Rows, RowIds, OneRowPerGate
  <2> QED BY <2>1, <2>2, <2>3
<1>4. ASSUME NEW h \in gates', NEW i \in gates', h.id = i.id PROVE h = i
  BY <1>3, <1>4
<1>5. ASSUME NEW h \in gates', NEW i \in gates', h.n = i.n, h.type = i.type PROVE h = i
  BY <1>3, <1>5
<1> QED BY <1>1, <1>2, <1>4, <1>5 DEF Rows, RowIds, OneRowPerGate

(* The runner writes a verdict and goes on, or gives up.                   *)
LEMMA RecordInv ==
  ASSUME IInv, NEW s \in Verdicts, Record(s), gateRun.host # "idle"
  PROVE  IInv'
<1>1. Rows /\ RunType
  BY DEF IInv, TypeOK, Rows, RunType
<1>2. Rows'
  BY <1>1, RowsJudged DEF Record
<1>3. RunType' /\ gateRun'.host \in {"idle", "top"}
  BY <1>1, RunAdvances DEF Record, RunType, Idle
<1>4. TypeOK'
  BY <1>2, <1>3 DEF IInv, TypeOK, Rows, RunType, Record, work
<1>5. IterationChain'
  BY DEF IInv, IterationChain, Record
<1>6. RowKnown' /\ RunJudgesItsIteration'
  BY <1>3 DEF RowKnown, RunJudgesItsIteration
<1> QED BY <1>2, <1>4, <1>5, <1>6 DEF IInv, Rows

-----------------------------------------------------------------------------
(* Every action keeps IInv.  In each proof: the types; the iterations; the *)
(* rows; and the row a run is judging.                                     *)

LEMMA InitInv == Init => IInv
BY BoundsAssumption
   DEF Init, IInv, TypeOK, Iterations, GateRow, IterationChain, RowIds, OneRowPerGate,
       RowKnown, RunJudgesItsIteration, Idle

LEMMA StartTaskInv ==
  ASSUME IInv, StartTask
  PROVE  IInv'
<1>1. TypeOK'
  BY DEF IInv, TypeOK, StartTask, work
<1>2. IterationChain'
  BY DEF IInv, IterationChain, StartTask
<1>3. RowIds' /\ OneRowPerGate'
  BY DEF IInv, RowIds, OneRowPerGate, StartTask
<1>4. RowKnown' /\ RunJudgesItsIteration'
  BY DEF IInv, RowKnown, RunJudgesItsIteration, Gate, StartTask
<1> QED BY <1>1, <1>2, <1>3, <1>4 DEF IInv

LEMMA SubmitTaskForQaInv ==
  ASSUME IInv, SubmitTaskForQa
  PROVE  IInv'
<1>1. TypeOK'
  BY DEF IInv, TypeOK, SubmitTaskForQa, work
<1>2. IterationChain'
  BY DEF IInv, IterationChain, SubmitTaskForQa
<1>3. RowIds' /\ OneRowPerGate'
  BY DEF IInv, RowIds, OneRowPerGate, SubmitTaskForQa
<1>4. RowKnown' /\ RunJudgesItsIteration'
  BY DEF IInv, RowKnown, RunJudgesItsIteration, Gate, SubmitTaskForQa
<1> QED BY <1>1, <1>2, <1>3, <1>4 DEF IInv

LEMMA ApproveTaskInv ==
  ASSUME IInv, ApproveTask
  PROVE  IInv'
<1>1. TypeOK'
  BY BoundsAssumption DEF IInv, TypeOK, ApproveTask, CloseLast, work
<1>2. IterationChain'
  BY BoundsAssumption DEF IInv, IterationChain, TypeOK, Iterations,
        ApproveTask, CloseLast
<1>3. RowIds' /\ OneRowPerGate'
  BY DEF IInv, RowIds, OneRowPerGate, ApproveTask, CloseLast
<1>4. RowKnown' /\ RunJudgesItsIteration'
  BY DEF IInv, RowKnown, RunJudgesItsIteration, Gate, ApproveTask, CloseLast
<1> QED BY <1>1, <1>2, <1>3, <1>4 DEF IInv

LEMMA RejectTaskInv ==
  ASSUME IInv, RejectTask
  PROVE  IInv'
<1>1. TypeOK'
  <2>1. cur \in Iterations /\ cur + 1 \in Iterations
    BY BoundsAssumption DEF IInv, TypeOK, Iterations, RejectTask, CloseAndOpenNext
  <2>2. iters' \in [Iterations -> {"none", "open", "approved", "rework_requested",
                                  "reopened"}]
    BY <2>1 DEF IInv, TypeOK, RejectTask, CloseAndOpenNext
  <2> QED BY <2>1, <2>2 DEF IInv, TypeOK, RejectTask, CloseAndOpenNext, work
<1>2. IterationChain'
  <2> SUFFICES ASSUME NEW n \in Iterations
               PROVE  /\ n < cur' => iters'[n] \in {"rework_requested", "reopened"}
                      /\ n = cur' => iters'[n] = (IF task' = "approved" THEN "approved" ELSE "open")
                      /\ n > cur' => iters'[n] = "none"
    BY DEF IterationChain
  <2>1. /\ cur \in Nat /\ n \in Nat /\ cur' = cur + 1 /\ task' = "rework"
        /\ iters \in [Iterations -> {"none", "open", "approved", "rework_requested", "reopened"}]
        /\ iters' = [iters EXCEPT ![cur] = "rework_requested", ![cur + 1] = "open"]
    BY BoundsAssumption DEF IInv, TypeOK, Iterations, RejectTask, CloseAndOpenNext
  <2>2. iters'[n] = IF n = cur + 1 THEN "open" ELSE IF n = cur THEN "rework_requested" ELSE iters[n]
    BY <2>1
  <2>3. /\ n < cur => iters[n] \in {"rework_requested", "reopened"}
        /\ n > cur => iters[n] = "none"
    BY DEF IInv, IterationChain
  <2> QED BY <2>1, <2>2, <2>3
<1>3. RowIds' /\ OneRowPerGate'
  BY DEF IInv, RowIds, OneRowPerGate, RejectTask, CloseAndOpenNext
<1>4. RowKnown' /\ RunJudgesItsIteration'
  BY DEF IInv, RowKnown, RunJudgesItsIteration, Gate, RejectTask,
        CloseAndOpenNext
<1> QED BY <1>1, <1>2, <1>3, <1>4 DEF IInv

LEMMA ReopenTaskInv ==
  ASSUME IInv, ReopenTask
  PROVE  IInv'
<1>1. TypeOK'
  <2>1. cur \in Iterations /\ cur + 1 \in Iterations
    BY BoundsAssumption DEF IInv, TypeOK, Iterations, ReopenTask, CloseAndOpenNext
  <2>2. iters' \in [Iterations -> {"none", "open", "approved", "rework_requested",
                                  "reopened"}]
    BY <2>1 DEF IInv, TypeOK, ReopenTask, CloseAndOpenNext
  <2> QED BY <2>1, <2>2 DEF IInv, TypeOK, ReopenTask, CloseAndOpenNext, work
<1>2. IterationChain'
  <2> SUFFICES ASSUME NEW n \in Iterations
               PROVE  /\ n < cur' => iters'[n] \in {"rework_requested", "reopened"}
                      /\ n = cur' => iters'[n] = (IF task' = "approved" THEN "approved" ELSE "open")
                      /\ n > cur' => iters'[n] = "none"
    BY DEF IterationChain
  <2>1. /\ cur \in Nat /\ n \in Nat /\ cur' = cur + 1 /\ task' = "in_progress"
        /\ iters \in [Iterations -> {"none", "open", "approved", "rework_requested", "reopened"}]
        /\ iters' = [iters EXCEPT ![cur] = "reopened", ![cur + 1] = "open"]
    BY BoundsAssumption DEF IInv, TypeOK, Iterations, ReopenTask, CloseAndOpenNext
  <2>2. iters'[n] = IF n = cur + 1 THEN "open" ELSE IF n = cur THEN "reopened" ELSE iters[n]
    BY <2>1
  <2>3. /\ n < cur => iters[n] \in {"rework_requested", "reopened"}
        /\ n > cur => iters[n] = "none"
    BY DEF IInv, IterationChain
  <2> QED BY <2>1, <2>2, <2>3
<1>3. RowIds' /\ OneRowPerGate'
  BY DEF IInv, RowIds, OneRowPerGate, ReopenTask, CloseAndOpenNext
<1>4. RowKnown' /\ RunJudgesItsIteration'
  BY DEF IInv, RowKnown, RunJudgesItsIteration, Gate, ReopenTask,
        CloseAndOpenNext
<1> QED BY <1>1, <1>2, <1>3, <1>4 DEF IInv

LEMMA AckInv ==
  ASSUME IInv, NEW s \in Stages, NEW on \in BOOLEAN, Ack(s, on)
  PROVE  IInv'
<1>1. TypeOK'
  BY DEF IInv, TypeOK, Ack, work
<1>2. IterationChain'
  BY DEF IInv, IterationChain, Ack
<1>3. RowIds' /\ OneRowPerGate'
  BY DEF IInv, RowIds, OneRowPerGate, Ack
<1>4. RowKnown' /\ RunJudgesItsIteration'
  BY DEF IInv, RowKnown, RunJudgesItsIteration, Gate, Ack
<1> QED BY <1>1, <1>2, <1>3, <1>4 DEF IInv

LEMMA CreateEvidenceInv ==
  ASSUME IInv, NEW n \in Iterations, CreateEvidence(n)
  PROVE  IInv'
<1>1. TypeOK'
  BY DEF IInv, TypeOK, CreateEvidence
<1>2. IterationChain'
  BY DEF IInv, IterationChain, CreateEvidence
<1>3. RowIds' /\ OneRowPerGate'
  BY DEF IInv, RowIds, OneRowPerGate, CreateEvidence
<1>4. RowKnown' /\ RunJudgesItsIteration'
  BY DEF IInv, RowKnown, RunJudgesItsIteration, Gate, CreateEvidence
<1> QED BY <1>1, <1>2, <1>3, <1>4 DEF IInv

LEMMA LogWorkEntryInv ==
  ASSUME IInv, NEW n \in Iterations, NEW m \in Minutes, LogWorkEntry(n, m)
  PROVE  IInv'
<1>1. TypeOK'
  BY BoundsAssumption DEF IInv, TypeOK, LogWorkEntry, Book
<1>2. IterationChain'
  BY BoundsAssumption DEF IInv, IterationChain, TypeOK, Iterations,
        LogWorkEntry
<1>3. RowIds' /\ OneRowPerGate'
  BY DEF IInv, RowIds, OneRowPerGate, LogWorkEntry
<1>4. RowKnown' /\ RunJudgesItsIteration'
  BY DEF IInv, RowKnown, RunJudgesItsIteration, Gate, LogWorkEntry
<1> QED BY <1>1, <1>2, <1>3, <1>4 DEF IInv

LEMMA QueueAgentRunInv ==
  ASSUME IInv, NEW r \in Runs, QueueAgentRun(r)
  PROVE  IInv'
<1>1. TypeOK'
  BY DEF IInv, TypeOK, QueueAgentRun
<1>2. IterationChain'
  BY DEF IInv, IterationChain, QueueAgentRun
<1>3. RowIds' /\ OneRowPerGate'
  BY DEF IInv, RowIds, OneRowPerGate, QueueAgentRun
<1>4. RowKnown' /\ RunJudgesItsIteration'
  BY DEF IInv, RowKnown, RunJudgesItsIteration, Gate, QueueAgentRun
<1> QED BY <1>1, <1>2, <1>3, <1>4 DEF IInv

LEMMA CloseAgentRunSucceededInv ==
  ASSUME IInv, NEW r \in Runs, NEW m \in Minutes, CloseAgentRunSucceeded(r, m)
  PROVE  IInv'
<1>1. TypeOK'
  <2>1. run[r].n \in Iterations /\ m \in Nat
    BY BoundsAssumption DEF IInv, TypeOK
  <2>2. /\ evid' \in [Iterations -> Nat] /\ minutes' \in [Iterations -> Nat]
        /\ actual' \in Nat
    BY <2>1 DEF IInv, TypeOK, CloseAgentRunSucceeded, Book
  <2>3. run' \in [Runs -> [stage : {"absent", "queued", "billed", "closed"}, n : Iterations]]
    BY DEF IInv, TypeOK, CloseAgentRunSucceeded
  <2> QED BY <2>2, <2>3 DEF IInv, TypeOK, CloseAgentRunSucceeded
<1>2. IterationChain'
  BY DEF IInv, IterationChain, CloseAgentRunSucceeded
<1>3. RowIds' /\ OneRowPerGate'
  BY DEF IInv, RowIds, OneRowPerGate, CloseAgentRunSucceeded
<1>4. RowKnown' /\ RunJudgesItsIteration'
  BY DEF IInv, RowKnown, RunJudgesItsIteration, Gate, CloseAgentRunSucceeded
<1> QED BY <1>1, <1>2, <1>3, <1>4 DEF IInv

LEMMA CloseAgentRunUnsuccessfulInv ==
  ASSUME IInv, NEW r \in Runs, CloseAgentRunUnsuccessful(r)
  PROVE  IInv'
<1>1. TypeOK'
  BY DEF IInv, TypeOK, CloseAgentRunUnsuccessful
<1>2. IterationChain'
  BY DEF IInv, IterationChain, CloseAgentRunUnsuccessful
<1>3. RowIds' /\ OneRowPerGate'
  BY DEF IInv, RowIds, OneRowPerGate, CloseAgentRunUnsuccessful
<1>4. RowKnown' /\ RunJudgesItsIteration'
  BY DEF IInv, RowKnown, RunJudgesItsIteration, Gate,
        CloseAgentRunUnsuccessful
<1> QED BY <1>1, <1>2, <1>3, <1>4 DEF IInv

LEMMA CreateGateInv ==
  ASSUME IInv, NEW n \in Iterations, NEW t \in GateTypes, CreateGate(n, t)
  PROVE  IInv'
<1>1. Rows /\ RowKnown /\ RunJudgesItsIteration
  BY DEF IInv, TypeOK, Rows
<1>2. /\ Rows' /\ made' = made + 1
      /\ \A g \in gates' : g \in gates \/ g = NewRow(n, t)
  BY <1>1, RowAdded DEF CreateGate
<1>3. TypeOK' /\ IterationChain'
  BY <1>2 DEF IInv, TypeOK, Rows, IterationChain, CreateGate, work
<1>4. made \in Nat /\ NewRow(n, t).id = made + 1
  BY BoundsAssumption DEF IInv, TypeOK, NewRow
<1>5. UNCHANGED gateRun /\ (gateRun.host # "idle" => gateRun.row \in Nat)
  BY BoundsAssumption DEF IInv, TypeOK, Busy, Idle, CreateGate
<1>6. RowKnown' /\ RunJudgesItsIteration'
  BY <1>1, <1>2, <1>4, <1>5 DEF RowKnown, RunJudgesItsIteration, Gate
<1> QED BY <1>2, <1>3, <1>6 DEF IInv, Rows

LEMMA RecordGateOutcomeInv ==
  ASSUME IInv, NEW g \in gates, NEW s \in Verdicts, NEW force \in BOOLEAN, RecordGateOutcome(g, s, force)
  PROVE  IInv'
<1>1. Rows
  BY DEF IInv, TypeOK, Rows
<1>2. Rows'
  BY <1>1, RowsJudged DEF RecordGateOutcome
<1>3. TypeOK' /\ IterationChain' /\ RowKnown'
  BY <1>2 DEF IInv, TypeOK, Rows, IterationChain, RowKnown, RecordGateOutcome, work
<1>4. \A h \in gates' : \E k \in gates : h.id = k.id /\ h.n = k.n /\ h.type = k.type
  BY <1>1, RowJudged DEF RecordGateOutcome
<1>5. RunJudgesItsIteration'
  BY <1>4 DEF IInv, RunJudgesItsIteration, Gate, RecordGateOutcome
<1> QED BY <1>2, <1>3, <1>5 DEF IInv, Rows

LEMMA ResetGatesForTaskInv ==
  ASSUME IInv, NEW types \in SUBSET GateTypes, ResetGatesForTask(types)
  PROVE  IInv'
<1>1. TypeOK'
  BY BoundsAssumption DEF IInv, TypeOK, GateRow, Busy, Iterations, Verdicts,
        ResetGatesForTask, work
<1>2. IterationChain'
  BY BoundsAssumption DEF IInv, TypeOK, IterationChain, Iterations,
        ResetGatesForTask, work
<1>3. RowIds' /\ OneRowPerGate'
  BY BoundsAssumption DEF IInv, TypeOK, GateRow, RowIds, OneRowPerGate,
        ResetGatesForTask, work
<1>4. RowKnown' /\ RunJudgesItsIteration'
  BY BoundsAssumption DEF IInv, TypeOK, GateRow, Busy, RowIds, RowKnown,
        RunJudgesItsIteration, Gate, ResetGatesForTask, work
<1> QED BY <1>1, <1>2, <1>3, <1>4 DEF IInv

LEMMA RunGatesForTaskInv ==
  ASSUME IInv, NEW list \in Lists, RunGatesForTask(list)
  PROVE  IInv'
<1>1. list \in Seq(GateTypes) /\ list # <<>>
  <2>1. PICK k \in 1 .. MaxList : list \in [1 .. k -> GateTypes]
    BY DEF Lists
  <2>2. k \in Nat \ {0} /\ list \in Seq(GateTypes) /\ Len(list) = k
    BY <2>1, BoundsAssumption
  <2> QED BY <2>2
<1>2. gateRun' \in Busy /\ gateRun'.todo # <<>> /\ gateRun'.host = "top"
  BY <1>1, BoundsAssumption DEF IInv, TypeOK, RunGatesForTask, Busy
<1>3. TypeOK' /\ IterationChain' /\ RowIds' /\ OneRowPerGate'
  BY <1>2 DEF IInv, TypeOK, IterationChain, RowIds, OneRowPerGate, RunGatesForTask, work
<1> QED BY <1>2, <1>3 DEF IInv, RowKnown, RunJudgesItsIteration

LEMMA TakeRowInv ==
  ASSUME IInv, TakeRow
  PROVE  IInv'
<1>1. Rows /\ RunType /\ gateRun.host = "top"
  BY DEF IInv, TypeOK, Rows, RunType, TakeRow
<1>2. Gate \in GateTypes /\ gateRun.n \in Iterations
  BY <1>1, RunTyped
<1>3. made \in Nat /\ \A g \in gates : g.id \in 1 .. MaxRows /\ g.id <= made
  BY <1>1, BoundsAssumption DEF Rows, RowIds, GateRow
<1>4. /\ Rows' /\ RunType'
      /\ gateRun'.host = "taken" /\ gateRun'.row <= made'
      /\ gateRun'.n = gateRun.n /\ gateRun'.todo = gateRun.todo
      /\ \A g \in gates' : g.id = gateRun'.row => g.n = gateRun.n /\ g.type = Gate
  <2>1. CASE /\ RowsFor(gateRun.n, Gate) # {} /\ UNCHANGED <<gates, made>>
             /\ \E g \in RowsFor(gateRun.n, Gate) :
                    gateRun' = [gateRun EXCEPT !.host = "taken", !.row = g.id]
    <3>1. PICK g \in RowsFor(gateRun.n, Gate) :
              gateRun' = [gateRun EXCEPT !.host = "taken", !.row = g.id]
      BY <2>1
    <3>2. g \in gates /\ g.n = gateRun.n /\ g.type = Gate /\ g.id \in 0 .. MaxRows
      BY <3>1, <1>3 DEF RowsFor
    <3>3. /\ RunType' /\ gateRun'.host = "taken" /\ gateRun'.row = g.id
          /\ gateRun'.n = gateRun.n /\ gateRun'.todo = gateRun.todo
      BY <1>1, <3>1, <3>2, RunMoves
    <3>4. Rows'
      BY <1>1, <2>1 DEF Rows, RowIds, OneRowPerGate
    <3> QED BY <1>1, <1>3, <2>1, <3>2, <3>3, <3>4 DEF Rows, RowIds
  <2>2. CASE /\ RowsFor(gateRun.n, Gate) = {} /\ AddRow(gateRun.n, Gate)
             /\ gateRun' = [gateRun EXCEPT !.host = "taken", !.row = made + 1]
    <3>1. /\ Rows' /\ made' = made + 1
          /\ \A g \in gates' : g \in gates \/ g = NewRow(gateRun.n, Gate)
      BY <1>1, <1>2, <2>2, RowAdded
    <3>2. made + 1 \in 0 .. MaxRows
      BY <1>3, <2>2, BoundsAssumption DEF AddRow
    <3>3. /\ RunType' /\ gateRun'.host = "taken" /\ gateRun'.row = made + 1
          /\ gateRun'.n = gateRun.n /\ gateRun'.todo = gateRun.todo
      BY <1>1, <2>2, <3>2, RunMoves
    <3>4. ASSUME NEW g \in gates', g.id = made + 1
          PROVE  g.n = gateRun.n /\ g.type = Gate
      BY <1>3, <3>1, <3>4 DEF NewRow
    <3> QED BY <1>3, <3>1, <3>3, <3>4
  <2> QED BY <2>1, <2>2 DEF TakeRow
<1>5. TypeOK' /\ IterationChain'
  BY <1>4 DEF IInv, TypeOK, Rows, RunType, IterationChain, TakeRow, work
<1>6. RowKnown' /\ RunJudgesItsIteration'
  BY <1>4 DEF RowKnown, RunJudgesItsIteration, Gate
<1> QED BY <1>4, <1>5, <1>6 DEF IInv, Rows

LEMMA SpawnGateInv ==
  ASSUME IInv, SpawnGate
  PROVE  IInv'
<1>1. RunType /\ gateRun.host \in {"taken", "child"}
  BY DEF IInv, TypeOK, RunType, SpawnGate
<1>2. /\ RunType' /\ gateRun'.host \in {"child", "passed", "failed"}
      /\ gateRun'.row = gateRun.row /\ gateRun'.n = gateRun.n
      /\ gateRun'.todo = gateRun.todo
  BY <1>1, HostMoves DEF SpawnGate
<1>3. TypeOK' /\ IterationChain' /\ RowIds' /\ OneRowPerGate'
  BY <1>2 DEF IInv, TypeOK, RunType, IterationChain, RowIds, OneRowPerGate, SpawnGate, work
<1>4. RowKnown' /\ RunJudgesItsIteration'
  BY <1>1, <1>2 DEF IInv, RowKnown, RunJudgesItsIteration, Gate, SpawnGate
<1> QED BY <1>3, <1>4 DEF IInv

LEMMA GateRunThrowsInv ==
  ASSUME IInv, GateRunThrows
  PROVE  IInv'
<1>1. gateRun' = Idle /\ gateRun'.host = "idle"
  BY DEF GateRunThrows, Idle
<1>2. TypeOK' /\ IterationChain' /\ RowIds' /\ OneRowPerGate'
  BY <1>1 DEF IInv, TypeOK, IterationChain, RowIds, OneRowPerGate, GateRunThrows, work
<1> QED BY <1>1, <1>2 DEF IInv, RowKnown, RunJudgesItsIteration

LEMMA SkipGateInv ==
  ASSUME IInv, SkipGate
  PROVE  IInv'
BY RecordInv DEF SkipGate, Verdicts

LEMMA GateChildEndsInv ==
  ASSUME IInv, NEW s \in {"passed", "failed"}, GateChildEnds(s)
  PROVE  IInv'
BY RecordInv DEF GateChildEnds, Verdicts

LEMMA AskDeviceInv ==
  ASSUME IInv, NEW s \in {"passed", "failed"}, AskDevice(s)
  PROVE  IInv'
<1>1. RunType /\ gateRun.host \in {"taken", "child"}
  BY DEF IInv, TypeOK, RunType, AskDevice
<1>2. /\ RunType' /\ gateRun'.host \in {"child", "passed", "failed"}
      /\ gateRun'.row = gateRun.row /\ gateRun'.n = gateRun.n
      /\ gateRun'.todo = gateRun.todo
  BY <1>1, HostMoves DEF AskDevice
<1>3. TypeOK' /\ IterationChain' /\ RowIds' /\ OneRowPerGate'
  BY <1>2 DEF IInv, TypeOK, RunType, IterationChain, RowIds, OneRowPerGate, AskDevice, work
<1>4. RowKnown' /\ RunJudgesItsIteration'
  BY <1>1, <1>2 DEF IInv, RowKnown, RunJudgesItsIteration, Gate, AskDevice
<1> QED BY <1>3, <1>4 DEF IInv

LEMMA DeviceAnswersInv ==
  ASSUME IInv, NEW s \in {"passed", "failed"}, DeviceAnswers(s)
  PROVE  IInv'
BY RecordInv DEF DeviceAnswers, Verdicts

LEMMA RestartInv ==
  ASSUME IInv, Restart
  PROVE  IInv'
<1>1. gateRun' = Idle /\ gateRun'.host = "idle"
  BY DEF Restart, Idle
<1>2. TypeOK' /\ IterationChain' /\ RowIds' /\ OneRowPerGate'
  BY <1>1 DEF IInv, TypeOK, IterationChain, RowIds, OneRowPerGate, Restart, work
<1> QED BY <1>1, <1>2 DEF IInv, RowKnown, RunJudgesItsIteration

LEMMA StutterInv == ASSUME IInv, UNCHANGED vars PROVE IInv'
BY DEF IInv, vars, work, TypeOK, IterationChain, RowIds, OneRowPerGate, RowKnown,
       RunJudgesItsIteration, Gate

LEMMA NextInv == ASSUME IInv, [Next]_vars PROVE IInv'
<1>1. CASE Operator
  BY <1>1, StartTaskInv, SubmitTaskForQaInv, ApproveTaskInv, RejectTaskInv,
     ReopenTaskInv, AckInv, CreateEvidenceInv, LogWorkEntryInv, CreateGateInv,
     RecordGateOutcomeInv, ResetGatesForTaskInv, RunGatesForTaskInv DEF Operator
<1>2. CASE AgentRun
  BY <1>2, QueueAgentRunInv, CloseAgentRunSucceededInv,
     CloseAgentRunUnsuccessfulInv DEF AgentRun
<1>3. CASE Runner
  BY <1>3, TakeRowInv, SpawnGateInv, SkipGateInv, GateRunThrowsInv,
     GateChildEndsInv, AskDeviceInv, DeviceAnswersInv DEF Runner
<1>4. CASE Restart
  BY <1>4, RestartInv
<1>5. CASE UNCHANGED vars
  BY <1>5, StutterInv
<1> QED BY <1>1, <1>2, <1>3, <1>4, <1>5 DEF Next

(* The inductive invariant holds in every reachable state of the task.     *)
THEOREM Invariant == Spec => []IInv
BY InitInv, NextInv, PTL DEF Spec

-----------------------------------------------------------------------------
(* The rows of a task and the runner's entry keep their types.             *)
THEOREM TypeCorrect == Spec => []TypeOK
BY Invariant, PTL DEF IInv

(* There is always exactly the open iteration that the handlers look for.  *)
THEOREM IterationChainHolds == Spec => []IterationChain
BY Invariant, PTL DEF IInv

(* No interleaving of creations, resets and runs doubles a gate row.       *)
THEOREM OneRowPerGateHolds == Spec => []OneRowPerGate
BY Invariant, PTL DEF IInv

(* A verdict never lands in a row of another iteration or another gate.    *)
THEOREM RunJudgesItsIterationHolds == Spec => []RunJudgesItsIteration
BY Invariant, PTL DEF IInv

LEMMA HistoryNext == ASSUME IInv, Next PROVE HistoryStep
<1>0. cur \in Nat /\ gates \in SUBSET GateRow /\ Rows
  BY DEF IInv, TypeOK, Iterations, Rows
<1>1. UNCHANGED cur \/ cur' = cur + 1
  BY DEF Next, Operator, AgentRun, Runner, StartTask, SubmitTaskForQa, ApproveTask,
     RejectTask, ReopenTask, CloseLast, CloseAndOpenNext, Ack, CreateEvidence,
     LogWorkEntry, QueueAgentRun, CloseAgentRunSucceeded, CloseAgentRunUnsuccessful,
     CreateGate, RecordGateOutcome, ResetGatesForTask, RunGatesForTask, TakeRow,
     SpawnGate, GateRunThrows, Record, SkipGate, GateChildEnds, AskDevice,
     DeviceAnswers, Restart
<1>2. \/ UNCHANGED iters
      \/ \E o \in {"approved", "rework_requested", "reopened"} :
             CloseLast(o) \/ CloseAndOpenNext(o)
  BY DEF Next, Operator, AgentRun, Runner, StartTask, SubmitTaskForQa, ApproveTask,
     RejectTask, ReopenTask, Ack, CreateEvidence,
     LogWorkEntry, QueueAgentRun, CloseAgentRunSucceeded, CloseAgentRunUnsuccessful,
     CreateGate, RecordGateOutcome, ResetGatesForTask, RunGatesForTask, TakeRow,
     SpawnGate, GateRunThrows, Record, SkipGate, GateChildEnds, AskDevice,
     DeviceAnswers, Restart
<1>3. UNCHANGED acks \/ \E s \in Stages, on \in BOOLEAN : Ack(s, on)
  BY DEF Next, Operator, AgentRun, Runner, StartTask, SubmitTaskForQa, ApproveTask,
     RejectTask, ReopenTask, CloseLast, CloseAndOpenNext, CreateEvidence,
     LogWorkEntry, QueueAgentRun, CloseAgentRunSucceeded, CloseAgentRunUnsuccessful,
     CreateGate, RecordGateOutcome, ResetGatesForTask, RunGatesForTask, TakeRow,
     SpawnGate, GateRunThrows, Record, SkipGate, GateChildEnds, AskDevice,
     DeviceAnswers, Restart
<1>4. \/ gates \subseteq gates'
      \/ \E id \in Nat, s \in Verdicts : gates' = Judged(id, s)
      \/ \E types \in SUBSET GateTypes : ResetGatesForTask(types)
  <2>1. CASE Operator
    <3>1. CASE \E g \in gates, s \in Verdicts, force \in BOOLEAN : RecordGateOutcome(g, s, force)
      BY <1>0, <3>1 DEF RecordGateOutcome, GateRow
    <3>2. CASE ~\E g \in gates, s \in Verdicts, force \in BOOLEAN : RecordGateOutcome(g, s, force)
      BY <2>1, <3>2 DEF Operator, StartTask, SubmitTaskForQa, ApproveTask, RejectTask,
         ReopenTask, CloseLast, CloseAndOpenNext, Ack, CreateEvidence, LogWorkEntry,
         CreateGate, AddRow, RunGatesForTask
    <3> QED BY <3>1, <3>2
  <2>2. CASE AgentRun \/ Restart
    BY <2>2 DEF AgentRun, Restart, QueueAgentRun, CloseAgentRunSucceeded,
       CloseAgentRunUnsuccessful
  <2>3. CASE \E s \in Verdicts : Record(s) /\ gateRun.host # "idle"
    <3>1. gateRun.row \in Nat
      BY <2>3, BoundsAssumption DEF IInv, TypeOK, Busy, Idle
    <3> QED BY <2>3, <3>1 DEF Record
  <2>4. CASE Runner /\ ~(\E s \in Verdicts : Record(s) /\ gateRun.host # "idle")
    BY <2>4 DEF Runner, TakeRow, AddRow, SpawnGate, GateRunThrows, SkipGate,
       GateChildEnds, AskDevice, DeviceAnswers, Verdicts
  <2> QED BY <2>1, <2>2, <2>3, <2>4 DEF Next
<1>5. ASSUME NEW n \in Iterations, n < cur
      PROVE  iters'[n] = iters[n] /\ acks'[n] = acks[n]
  <2>1. n # cur /\ n # cur + 1
    BY <1>0, <1>5 DEF Iterations
  <2>2. iters'[n] = iters[n]
    BY <1>2, <2>1 DEF IInv, TypeOK, CloseLast, CloseAndOpenNext
  <2>3. acks'[n] = acks[n]
    BY <1>3, <2>1 DEF IInv, TypeOK, Ack
  <2> QED BY <2>2, <2>3
<1>6. ASSUME NEW n \in Iterations, n < cur, NEW g \in gates, g.n = n
      PROVE  \E h \in gates' : h.id = g.id
  BY <1>0, <1>4, <1>6, RowJudged DEF ResetGatesForTask, Iterations
<1> QED BY <1>0, <1>1, <1>5, <1>6 DEF HistoryStep

(* What the operator and late verdicts do never rewrites a past iteration. *)
THEOREM HistoryKeptHolds == Spec => HistoryKept
<1>1. ASSUME IInv, [Next]_vars PROVE [HistoryStep]_vars
  BY <1>1, HistoryNext
<1> QED BY <1>1, Invariant, PTL DEF Spec, HistoryKept

-----------------------------------------------------------------------------
(* Billing.  Only closeAgentRunSucceeded makes a run billed; it adds the   *)
(* run to one iteration together with one evidence row and some minutes.   *)

LEMMA BilledFinite ==
  ASSUME NEW n \in Iterations
  PROVE  IsFiniteSet(Billed(n)) /\ Cardinality(Billed(n)) \in Nat
BY RunsAssumption, FS_Subset, FS_CardinalityType DEF Billed

LEMMA BillingInit == Init => RunsBilledAtHome
<1> SUFFICES ASSUME Init, NEW n \in Iterations
             PROVE  /\ Cardinality(Billed(n)) <= evid[n]
                    /\ Cardinality(Billed(n)) <= minutes[n]
  BY DEF RunsBilledAtHome
<1>1. Billed(n) = {}
  BY DEF Init, Billed
<1> QED BY <1>1, FS_EmptySet DEF Init

LEMMA SucceededBilled ==
  ASSUME IInv, RunsBilledAtHome, NEW r \in Runs, NEW m \in Minutes,
         CloseAgentRunSucceeded(r, m)
  PROVE  RunsBilledAtHome'
<1> SUFFICES ASSUME NEW n \in Iterations
             PROVE  /\ Cardinality(Billed(n)') <= evid'[n]
                    /\ Cardinality(Billed(n)') <= minutes'[n]
  BY DEF RunsBilledAtHome
<1>1. /\ run[r].n \in Iterations /\ run[r].stage = "queued"
      /\ evid[n] \in Nat /\ minutes[n] \in Nat /\ m \in Nat \ {0}
  BY BoundsAssumption DEF IInv, TypeOK, CloseAgentRunSucceeded
<1>2. /\ Cardinality(Billed(n)) <= evid[n] /\ Cardinality(Billed(n)) <= minutes[n]
      /\ IsFiniteSet(Billed(n)) /\ Cardinality(Billed(n)) \in Nat
  BY BilledFinite DEF RunsBilledAtHome
<1>3. \A q \in Runs : /\ q # r => run'[q] = run[q]
                      /\ run'[r].stage = "billed" /\ run'[r].n = run[r].n
  BY DEF IInv, TypeOK, CloseAgentRunSucceeded
<1>4. CASE n = run[r].n
  <2>1. Billed(n)' = Billed(n) \cup {r} /\ r \notin Billed(n)
    BY <1>1, <1>3, <1>4 DEF Billed
  <2>2. Cardinality(Billed(n)') = Cardinality(Billed(n)) + 1
    BY <1>2, <2>1, FS_AddElement
  <2>3. evid'[n] = evid[n] + 1 /\ minutes'[n] = minutes[n] + m
    BY <1>4 DEF IInv, TypeOK, CloseAgentRunSucceeded, Book
  <2> QED BY <1>1, <1>2, <2>2, <2>3
<1>5. CASE n # run[r].n
  <2>1. Billed(n)' = Billed(n)
    BY <1>1, <1>3, <1>5 DEF Billed
  <2>2. evid'[n] = evid[n] /\ minutes'[n] = minutes[n]
    BY <1>1, <1>5 DEF IInv, TypeOK, CloseAgentRunSucceeded, Book
  <2> QED BY <1>2, <2>1, <2>2
<1> QED BY <1>4, <1>5

(* A step that bills no run takes nothing away from an iteration.          *)
LEMMA OthersBilled ==
  ASSUME IInv, RunsBilledAtHome,
         \A n \in Iterations : /\ Billed(n)' = Billed(n)
                               /\ evid'[n] \in Nat /\ evid[n] <= evid'[n]
                               /\ minutes'[n] \in Nat /\ minutes[n] <= minutes'[n]
  PROVE  RunsBilledAtHome'
<1> SUFFICES ASSUME NEW n \in Iterations
             PROVE  /\ Cardinality(Billed(n)') <= evid'[n]
                    /\ Cardinality(Billed(n)') <= minutes'[n]
  BY DEF RunsBilledAtHome
<1>1. evid[n] \in Nat /\ minutes[n] \in Nat /\ Cardinality(Billed(n)) \in Nat
  BY BilledFinite DEF IInv, TypeOK
<1>2. Cardinality(Billed(n)) <= evid[n] /\ Cardinality(Billed(n)) <= minutes[n]
  BY DEF RunsBilledAtHome
<1>3. /\ Billed(n)' = Billed(n) /\ evid'[n] \in Nat /\ evid[n] <= evid'[n]
      /\ minutes'[n] \in Nat /\ minutes[n] <= minutes'[n]
  OBVIOUS
<1> QED BY <1>1, <1>2, <1>3

LEMMA BillingNext ==
  ASSUME IInv, RunsBilledAtHome, [Next]_vars
  PROVE  RunsBilledAtHome'
<1>0. \A n \in Iterations : evid[n] \in Nat /\ minutes[n] \in Nat
  BY DEF IInv, TypeOK
<1>1. CASE \E r \in Runs, m \in Minutes : CloseAgentRunSucceeded(r, m)
  BY <1>1, SucceededBilled
<1>2. CASE UNCHANGED <<evid, minutes, run>>
  <2>1. \A n \in Iterations : Billed(n)' = Billed(n)
    BY <1>2 DEF Billed
  <2> QED BY <1>0, <1>2, <2>1, OthersBilled
<1>3. CASE \E n \in Iterations : CreateEvidence(n)
  <2>1. \A n \in Iterations : Billed(n)' = Billed(n)
    BY <1>3 DEF Billed, CreateEvidence
  <2>2. \A n \in Iterations : evid'[n] \in {evid[n], evid[n] + 1} /\ minutes' = minutes
    BY <1>3 DEF IInv, TypeOK, CreateEvidence
  <2> QED BY <1>0, <2>1, <2>2, OthersBilled
<1>4. CASE \E n \in Iterations, m \in Minutes : LogWorkEntry(n, m)
  <2>1. \A n \in Iterations : Billed(n)' = Billed(n)
    BY <1>4 DEF Billed, LogWorkEntry
  <2>2. PICK k \in Iterations, m \in Minutes : LogWorkEntry(k, m)
    BY <1>4
  <2>3. \A n \in Iterations : minutes'[n] \in {minutes[n], minutes[n] + m} /\ evid' = evid
    BY <2>2 DEF IInv, TypeOK, LogWorkEntry, Book
  <2>4. m \in Nat
    BY BoundsAssumption
  <2> QED BY <1>0, <2>1, <2>3, <2>4, OthersBilled
<1>5. CASE \E r \in Runs : QueueAgentRun(r) \/ CloseAgentRunUnsuccessful(r)
  <2>1. PICK r \in Runs : QueueAgentRun(r) \/ CloseAgentRunUnsuccessful(r)
    BY <1>5
  <2>2. /\ run[r].stage # "billed" /\ run'[r].stage # "billed"
        /\ \A q \in Runs : q # r => run'[q] = run[q]
        /\ UNCHANGED <<evid, minutes>>
    BY <2>1 DEF IInv, TypeOK, QueueAgentRun, CloseAgentRunUnsuccessful
  <2>3. \A n \in Iterations : Billed(n)' = Billed(n)
    BY <2>2 DEF Billed
  <2> QED BY <1>0, <2>2, <2>3, OthersBilled
<1>6. \/ \E r \in Runs, m \in Minutes : CloseAgentRunSucceeded(r, m)
      \/ UNCHANGED <<evid, minutes, run>>
      \/ \E n \in Iterations : CreateEvidence(n)
      \/ \E n \in Iterations, m \in Minutes : LogWorkEntry(n, m)
      \/ \E r \in Runs : QueueAgentRun(r) \/ CloseAgentRunUnsuccessful(r)
  BY DEF Next, Operator, AgentRun, Runner, StartTask, SubmitTaskForQa, ApproveTask,
     RejectTask, ReopenTask, CloseLast, CloseAndOpenNext, Ack, CreateGate,
     RecordGateOutcome, ResetGatesForTask, RunGatesForTask, TakeRow, SpawnGate,
     GateRunThrows, Record, SkipGate, GateChildEnds, AskDevice, DeviceAnswers,
     Restart, vars, work
<1> QED BY <1>1, <1>2, <1>3, <1>4, <1>5, <1>6

(* However many iterations pass while an agent works, its evidence and its *)
(* time reach the iteration it was queued in.                              *)
THEOREM RunsBilledAtHomeHolds == Spec => []RunsBilledAtHome
<1>1. Init => RunsBilledAtHome
  BY BillingInit
<1>2. IInv /\ RunsBilledAtHome /\ [Next]_vars => RunsBilledAtHome'
  BY BillingNext
<1> QED BY <1>1, <1>2, Invariant, PTL DEF Spec

-----------------------------------------------------------------------------
(* Time.  The two writers of entries go through Book.                      *)

LEMMA MinutesTyped == ASSUME TypeOK
                      PROVE  IsFiniteSet(Iterations) /\ minutes \in [Iterations -> Int]
<1>1. MaxIterations \in Int /\ \A n \in Nat : n \in Int
  BY BoundsAssumption
<1>2. IsFiniteSet(1 .. MaxIterations)
  BY <1>1, FS_Interval
<1> QED BY <1>1, <1>2 DEF TypeOK, Iterations

LEMMA BookAgrees ==
  ASSUME TypeOK, TimeAgrees, NEW n \in Iterations, NEW m \in Minutes, Book(n, m)
  PROVE  TimeAgrees'
<1>1. m \in Nat /\ IsFiniteSet(Iterations) /\ minutes \in [Iterations -> Int]
  BY BoundsAssumption, MinutesTyped
<1>2. /\ minutes' \in [Iterations -> Int] /\ minutes'[n] = minutes[n] + m
      /\ \A k \in Iterations : k # n => minutes'[k] = minutes[k]
  BY <1>1 DEF Book
<1>3. SumFunction(minutes') = SumFunction(minutes) + (minutes'[n] - minutes[n])
  BY <1>1, <1>2, SumChange
<1>4. actual = SumFunction(minutes) /\ actual' = actual + m
  BY DEF TimeAgrees, Book
<1>5. actual \in Nat /\ minutes[n] \in Int
  BY <1>1 DEF TypeOK
<1> QED BY <1>1, <1>2, <1>3, <1>4, <1>5 DEF TimeAgrees

LEMMA TimeInit == Init => TimeAgrees
<1> SUFFICES ASSUME Init PROVE TimeAgrees
  OBVIOUS
<1>1. TypeOK
  BY InitInv DEF IInv
<1>2. \A n \in Iterations : minutes[n] = 0
  BY DEF Init
<1>3. SumFunction(minutes) = 0
  BY <1>1, <1>2, MinutesTyped, SumOfZeros
<1> QED BY <1>3 DEF TimeAgrees, Init

LEMMA TimeNext == ASSUME IInv, TimeAgrees, [Next]_vars PROVE TimeAgrees'
<1>1. CASE \E n \in Iterations, m \in Minutes : Book(n, m)
  BY <1>1, BookAgrees DEF IInv
<1>2. CASE UNCHANGED <<minutes, actual>>
  BY <1>2 DEF TimeAgrees
<1>3. \/ \E n \in Iterations, m \in Minutes : Book(n, m)
      \/ UNCHANGED <<minutes, actual>>
  <2>1. CASE \E n \in Iterations, m \in Minutes : LogWorkEntry(n, m)
    BY <2>1 DEF LogWorkEntry
  <2>2. CASE \E r \in Runs, m \in Minutes : CloseAgentRunSucceeded(r, m)
    BY <2>2 DEF CloseAgentRunSucceeded, IInv, TypeOK
  <2>3. CASE ~ \/ \E n \in Iterations, m \in Minutes : LogWorkEntry(n, m)
               \/ \E r \in Runs, m \in Minutes : CloseAgentRunSucceeded(r, m)
    BY <2>3 DEF Next, Operator, AgentRun, Runner, StartTask, SubmitTaskForQa,
       ApproveTask, RejectTask, ReopenTask, CloseLast, CloseAndOpenNext, Ack,
       CreateEvidence, QueueAgentRun, CloseAgentRunUnsuccessful, CreateGate,
       RecordGateOutcome, ResetGatesForTask, RunGatesForTask, TakeRow, SpawnGate,
       GateRunThrows, Record, SkipGate, GateChildEnds, AskDevice, DeviceAnswers,
       Restart, vars, work
  <2> QED BY <2>1, <2>2, <2>3
<1> QED BY <1>1, <1>2, <1>3

(* The running total of the task is the sum of its entries, whoever booked *)
(* them and whatever iteration they were booked on.                        *)
THEOREM TimeAgreesHolds == Spec => []TimeAgrees
<1>1. IInv /\ TimeAgrees /\ [Next]_vars => TimeAgrees'
  BY TimeNext
<1> QED BY <1>1, TimeInit, Invariant, PTL DEF Spec

-----------------------------------------------------------------------------
(* The wizard.  Every step of it is a step of the task, or changes only    *)
(* what the page and the observers keep: the theorems about the task hold  *)
(* of the task the wizard works on.                                        *)

RunStages == {"absent", "queued", "billed", "closed"}
Kinds == {"dev", "qa", "fixer", "troubleshooter"}
Statuses == {"pending", "in_progress", "qa", "approved", "rework"}
Pages == [task : Statuses, n : Iterations, runs : [Runs -> RunStages],
          gates : SUBSET GateRow, qa : Runs \cup {"none"}]

(* The runs that exist are in the order once, each with the kind it was    *)
(* launched with, and the page shows no other.                             *)
OrderOnce == \A i, j \in DOMAIN order : order[i] = order[j] => i = j
Launched == \A r \in Runs : run[r].stage # "absent" <=> \E i \in DOMAIN order : order[i] = r
KindKnown == \A r \in Runs : run[r].stage # "absent" <=> kind[r] # "none"
SeenExist == \A r \in Runs : view.runs[r] # "absent" => run[r].stage # "absent"

(* Another run that is at work while a QA run is not blurred came after it,*)
(* and so did the one that edited a file since.                            *)
WorkersAfter ==
    \A q, s \in Runs :
        kind[q] = "qa" /\ q \notin blurred /\ kind[s] # "qa" /\ run[s].stage = "queued"
            => After(s, q)
OvertakersAfter ==
    \A q \in overtaken \ blurred :
        q \in Runs /\ kind[q] = "qa" /\
        \E s \in Runs : kind[s] # "qa" /\ run[s].stage = "billed" /\ After(s, q)

(* The page has heard the verdict of the newest QA run it shows, or waits  *)
(* for it, or what it heard last has strayed.                              *)
VerdictHeard == strayed \/ QaDone \subseteq {view.qa} \/ QaDone \cap due # {}

DeskInv ==
    /\ DeskTypeOK /\ view \in Pages
    /\ OrderOnce /\ Launched /\ KindKnown /\ SeenExist
    /\ WorkersAfter /\ OvertakersAfter /\ VerdictHeard

DeskIInv == IInv /\ DeskInv

(* The place of a run in the order.                                        *)
LEMMA Position ==
  ASSUME NEW o \in Seq(Runs), \A i, j \in DOMAIN o : o[i] = o[j] => i = j,
         NEW k \in DOMAIN o
  PROVE  Max({i \in DOMAIN o : o[i] = o[k]}) = k
<1>1. {i \in DOMAIN o : o[i] = o[k]} = {k}
  OBVIOUS
<1>2. k \in Nat
  OBVIOUS
<1> QED BY <1>1, <1>2 DEF Max

LEMMA AfterPlaces ==
  ASSUME order \in Seq(Runs), OrderOnce, NEW i \in DOMAIN order, NEW j \in DOMAIN order
  PROVE  After(order[i], order[j]) <=> i > j
BY Position DEF After, OrderOnce

(* The newest run of a set the page shows is one of them, and no other of  *)
(* them is after it.                                                       *)
LEMMA NewestPlace ==
  ASSUME DeskInv, NEW S \in SUBSET Runs, S # {}, \A r \in S : run[r].stage # "absent"
  PROVE  LET k == Max({i \in DOMAIN order : order[i] \in S})
         IN  /\ k \in DOMAIN order /\ order[k] \in S
             /\ \A i \in DOMAIN order : order[i] \in S => i <= k
<1> DEFINE places == {i \in DOMAIN order : order[i] \in S}
<1>1. order \in Seq(Runs)
  BY DEF DeskInv, DeskTypeOK
<1>2. IsFiniteSet(DOMAIN order)
  <2>1. DOMAIN order = 1 .. Len(order) /\ Len(order) \in Nat
    BY <1>1
  <2>2. IsFiniteSet(1 .. Len(order))
    BY <2>1, FS_Interval
  <2> QED BY <2>1, <2>2
<1>3. places \in SUBSET Int /\ IsFiniteSet(places)
  BY <1>1, <1>2, FS_Subset
<1>4. places # {}
  BY DEF DeskInv, Launched
<1>5. Max(places) \in places /\ \A i \in places : i <= Max(places)
  <2> HIDE DEF places
  <2> QED BY <1>3, <1>4, MaxOfFinite
<1> QED BY <1>5

LEMMA NewestIsOne ==
  ASSUME DeskInv, NEW S \in SUBSET Runs, S # {}, \A r \in S : run[r].stage # "absent"
  PROVE  Newest(S) \in S
BY NewestPlace DEF Newest

(* The newest of some runs is the newest of those among them it is one of. *)
LEMMA NewestAmong ==
  ASSUME DeskInv, NEW S \in SUBSET Runs, NEW T \in SUBSET S, Newest(S) \in T,
         \A r \in S : run[r].stage # "absent"
  PROVE  Newest(T) = Newest(S)
<1> DEFINE k == Max({i \in DOMAIN order : order[i] \in S})
           l == Max({i \in DOMAIN order : order[i] \in T})
<1>1. /\ k \in DOMAIN order /\ order[k] \in S
      /\ \A i \in DOMAIN order : order[i] \in S => i <= k
  BY NewestPlace
<1>2. T \in SUBSET Runs /\ T # {} /\ \A r \in T : run[r].stage # "absent"
  OBVIOUS
<1>3. /\ l \in DOMAIN order /\ order[l] \in T
      /\ \A i \in DOMAIN order : order[i] \in T => i <= l
  BY <1>2, NewestPlace
<1>4. order[k] \in T /\ Newest(S) = order[k] /\ Newest(T) = order[l]
  BY DEF Newest
<1>5. order \in Seq(Runs)
  BY DEF DeskInv, DeskTypeOK
<1> HIDE DEF k, l
<1>6. k <= l /\ l <= k /\ k \in Nat /\ l \in Nat
  BY <1>1, <1>3, <1>4, <1>5
<1>7. k = l
  BY <1>6
<1> QED BY <1>4, <1>7

(* What the page shows has been launched, so its newest runs exist.        *)
LEMMA SeenNewest ==
  ASSUME DeskInv
  PROVE  /\ DevRuns # {} => Newest(DevRuns) \in DevRuns
         /\ QaRuns # {} => Newest(QaRuns) \in QaRuns
<1>1. \A r \in DevRuns \cup QaRuns : r \in Runs /\ run[r].stage # "absent"
  BY DEF DeskInv, SeenExist, DevRuns, QaRuns
<1>2. DevRuns \in SUBSET Runs /\ QaRuns \in SUBSET Runs
  BY DEF DevRuns, QaRuns
<1> QED BY <1>1, <1>2, NewestIsOne

(* At most one QA run is asked for its verdict, and it is a run.           *)
LEMMA OneAsked ==
  ASSUME DeskInv
  PROVE  /\ QaDone \in SUBSET Runs
         /\ \A r, s \in QaDone : r = s
<1>1. \A r \in Succeeded(QaRuns) : r \in Runs /\ run[r].stage # "absent"
  BY DEF DeskInv, SeenExist, Succeeded, QaRuns
<1>2. Succeeded(QaRuns) \in SUBSET Runs
  BY <1>1
<1>3. Succeeded(QaRuns) # {} => Newest(Succeeded(QaRuns)) \in Runs
  BY <1>1, <1>2, NewestIsOne
<1> QED BY <1>3 DEF QaDone

-----------------------------------------------------------------------------
(* The wizard's requests are requests of the task.                         *)

LEMMA ListGates ==
  /\ WizardList \in Lists
  /\ {WizardList[i] : i \in DOMAIN WizardList} \in (SUBSET GateTypes) \ {{}}
<1>1. PICK k \in 1 .. MaxList : WizardList \in [1 .. k -> GateTypes]
  BY DeskAssumption DEF Lists
<1>2. 1 \in 1 .. k
  BY <1>1, BoundsAssumption
<1> QED BY <1>1, <1>2, DeskAssumption

(* A verdict forced over a row as the page saw it goes into the row of that*)
(* id, if there still is one.                                              *)
LEMMA PassSeen ==
  ASSUME IInv, NEW g \in GateRow, RecordGateOutcome(g, "passed", TRUE)
  PROVE  [Next]_vars
<1>1. CASE \E h \in gates : h.id = g.id
  <2>1. PICK h \in gates : h.id = g.id
    BY <1>1
  <2>2. RecordGateOutcome(h, "passed", TRUE)
    BY <2>1 DEF RecordGateOutcome
  <2>3. Operator
    BY <2>2 DEF Operator, Verdicts
  <2> QED BY <2>3 DEF Next
<1>2. CASE \A h \in gates : h.id # g.id
  <2>1. Judged(g.id, "passed") = gates
    BY <1>2 DEF Judged
  <2> QED BY <2>1 DEF RecordGateOutcome, vars
<1> QED BY <1>1, <1>2

LEMMA LaunchRefines ==
  ASSUME NEW r \in Runs, NEW k, Launch(r, k)
  PROVE  Next
BY DEF Launch, Next, AgentRun

LEMMA ClicksRefine ==
  ASSUME IInv, DeskInv, AgentClicks \/ VerifyClicks \/ ReviewClicks
  PROVE  [Next]_vars
<1>1. CASE AgentClicks
  <2>1. ASSUME ClickCancel PROVE Next
    <3>1. DevRuns # {}
      BY <2>1 DEF ClickCancel, Offers, StartStep, AgentStep, VerifyStep, ManualStep,
         QaStep, ApproveStep, Active
    <3>2. Newest(DevRuns) \in Runs
      BY <3>1, SeenNewest DEF DevRuns
    <3> QED BY <2>1, <3>2 DEF ClickCancel, Next, AgentRun
  <2> QED BY <1>1, <2>1, LaunchRefines
          DEF AgentClicks, ClickStart, ClickLaunch, ReportError, Next, Operator
<1>2. CASE VerifyClicks
  <2>1. ASSUME NEW g \in view.gates, ClickPass(g) PROVE [Next]_vars
    <3>1. g \in GateRow
      BY DEF DeskInv, Pages
    <3> QED BY <2>1, <3>1, PassSeen DEF ClickPass
  <2>2. ASSUME ClickVerify \/ ClickRerun \/ FinishRerun PROVE Next
    BY <2>2, ListGates DEF ClickVerify, ClickRerun, FinishRerun, Next, Operator
  <2> QED BY <1>2, <2>1, <2>2, LaunchRefines
          DEF VerifyClicks, GatesAnswered, ClickFix, ClickRepair
<1>3. CASE ReviewClicks
  <2>1. ASSUME NEW d \in {"approve", "reject"}, ClickDecide(d) PROVE [Next]_vars
    BY <2>1 DEF ClickDecide, Decision, Next, Operator
  <2>2. ASSUME FinishDecide \/ ClickReopen \/ ClickConfirm PROVE [Next]_vars
    BY <2>2 DEF FinishDecide, ClickReopen, ClickConfirm, Decision, Next, Operator
  <2> QED BY <1>3, <2>1, <2>2, LaunchRefines DEF ReviewClicks, ClickQa, ClickRework
<1> QED BY <1>1, <1>2, <1>3

LEMMA DeskRefines ==
  ASSUME IInv, DeskInv, [DeskNext]_<<vars, deskVars>>
  PROVE  [Next]_vars
<1>1. CASE AgentClicks \/ VerifyClicks \/ ReviewClicks
  BY <1>1, ClicksRefine
<1>2. CASE \/ Lost \/ Poll \/ \E p \in Parts : Fetch(p)
           \/ \E q \in Runs : HearVerdict(q)
  BY <1>2 DEF Lost, Poll, PollRuns, PollGates, Quietly, Fetch, HearVerdict
<1>3. CASE RunEnds
  BY <1>3 DEF RunEnds, RunFails, RunSucceeds, Next, AgentRun
<1>4. CASE GateStep
  BY <1>4 DEF GateStep, Next, Runner
<1>5. CASE Restart /\ UNCHANGED deskVars
  BY <1>5 DEF Next
<1>6. CASE UNCHANGED <<vars, deskVars>>
  BY <1>6
<1> QED BY <1>1, <1>2, <1>3, <1>4, <1>5, <1>6 DEF DeskNext

-----------------------------------------------------------------------------
(* What the steps of the wizard do to the runs, and why it keeps DeskInv.  *)

LEMMA DistinctBounded ==
  ASSUME NEW o \in Seq(Runs), \A i, j \in DOMAIN o : o[i] = o[j] => i = j
  PROVE  Len(o) <= Cardinality(Runs)
<1>1. Len(o) \in Nat /\ DOMAIN o = 1 .. Len(o) /\ o \in [1 .. Len(o) -> Runs]
  OBVIOUS
<1>2. IsFiniteSet(1 .. Len(o)) /\ Cardinality(1 .. Len(o)) = Len(o)
  BY <1>1, FS_Interval
<1>3. Cardinality(Runs) \in Nat
  BY RunsAssumption, FS_CardinalityType
<1>4. ~(Cardinality(Runs) < Cardinality(1 .. Len(o)))
  BY <1>1, <1>2, RunsAssumption, FS_PigeonHole
<1> QED BY <1>1, <1>2, <1>3, <1>4

(* The page's own state keeps its types: what a request leaves behind.     *)
PageTyped == tested \in BOOLEAN /\ due \in SUBSET (Parts \cup Runs)
                /\ asked \in {"none", "gates", "rerun", "approve", "reject"}

(* A click only adds to what is asked.                                     *)
AsksMore == due \subseteq due' /\ strayed' = strayed

(* The page asks for the verdict of the same run as long as its runs are   *)
(* what they were.                                                         *)
LEMMA SameAsked ==
  ASSUME AsksMore, DeskInv, view' = view, QaDone' = QaDone
  PROVE  VerdictHeard'
BY DEF AsksMore, DeskInv, VerdictHeard

LEMMA LaunchKeeps ==
  ASSUME IInv, DeskInv, NEW r \in Runs, NEW k \in Kinds, Launch(r, k), PageTyped', AsksMore
  PROVE  DeskInv'
<1>1. /\ order \in Seq(Runs) /\ OrderOnce
      /\ \A q \in Runs : run[q].stage # "absent" <=> \E i \in DOMAIN order : order[i] = q
  BY DEF DeskInv, DeskTypeOK, Launched
<1>2. /\ run[r].stage = "absent" /\ run'[r].stage = "queued"
      /\ \A q \in Runs : q # r => run'[q] = run[q]
  BY DEF IInv, TypeOK, Launch, QueueAgentRun
<1>3. /\ order' \in Seq(Runs) /\ DOMAIN order' = DOMAIN order \cup {Len(order) + 1}
      /\ order'[Len(order) + 1] = r /\ Len(order) + 1 \notin DOMAIN order
      /\ \A i \in DOMAIN order : order'[i] = order[i]
  BY <1>1 DEF Launch
<1>4. \A i \in DOMAIN order : order[i] # r
  BY <1>1, <1>2
<1>5. OrderOnce'
  BY <1>1, <1>3, <1>4 DEF OrderOnce
<1>6. Launched'
  BY <1>1, <1>2, <1>3 DEF Launched
<1>7. /\ kind'[r] = k /\ kind' \in [Runs -> {"none"} \cup Kinds]
      /\ \A q \in Runs : q # r => kind'[q] = kind[q]
  BY DEF DeskInv, DeskTypeOK, Launch, Kinds
<1>8. KindKnown'
  BY <1>2, <1>7 DEF DeskInv, KindKnown, Kinds
<1>9. view' = view
  BY DEF Launch
<1>10. SeenExist'
  BY <1>2, <1>9 DEF DeskInv, SeenExist
<1>11. DeskTypeOK'
  <2>1. Len(order') <= Cardinality(Runs)
    BY <1>3, <1>5, DistinctBounded DEF OrderOnce
  <2> QED BY <1>3, <1>7, <1>9, <2>1 DEF DeskInv, DeskTypeOK, PageTyped, Kinds
<1> DEFINE Were == {q \in Runs : run[q].stage # "absent"}
<1>12. ASSUME NEW q \in Were
       PROVE  \E i \in DOMAIN order : order[i] = q /\ order'[i] = q
  BY <1>1, <1>3
<1>13. ASSUME NEW q \in Were, NEW s \in Were PROVE After(s, q)' <=> After(s, q)
  <2>1. PICK i \in DOMAIN order : order[i] = q /\ order'[i] = q
    BY <1>12
  <2>2. PICK j \in DOMAIN order : order[j] = s /\ order'[j] = s
    BY <1>12
  <2>3. After(s, q) <=> j > i
    BY <1>1, <2>1, <2>2, AfterPlaces
  <2>4. /\ Max({x \in DOMAIN order' : order'[x] = q}) = i
        /\ Max({x \in DOMAIN order' : order'[x] = s}) = j
    BY <1>3, <1>5, <2>1, <2>2, Position DEF OrderOnce
  <2> QED BY <2>3, <2>4 DEF After
<1>14. ASSUME NEW q \in Were PROVE After(r, q)'
  <2>1. PICK i \in DOMAIN order : order[i] = q /\ order'[i] = q
    BY <1>12
  <2>2. /\ Max({x \in DOMAIN order' : order'[x] = q}) = i
        /\ Max({x \in DOMAIN order' : order'[x] = r}) = Len(order) + 1
    BY <1>3, <1>5, <2>1, Position DEF OrderOnce
  <2>3. i <= Len(order) /\ i \in Nat /\ Len(order) \in Nat
    BY <1>1, <2>1
  <2> QED BY <2>2, <2>3 DEF After
<1>15. \A q \in Runs : kind[q] # "none" <=> q \in Were
  BY DEF DeskInv, KindKnown
<1> HIDE DEF Were
<1>16. blurred \subseteq blurred' /\ overtaken' = overtaken
  BY DEF Launch
<1>17. WorkersAfter'
  <2> SUFFICES ASSUME NEW q \in Runs, NEW s \in Runs, kind'[q] = "qa", q \notin blurred',
                      kind'[s] # "qa", run'[s].stage = "queued"
               PROVE  After(s, q)'
    BY DEF WorkersAfter
  <2>1. CASE q = r
    <3>1. s # r /\ kind[s] # "qa" /\ run[s].stage = "queued"
      BY <1>2, <1>7, <2>1
    <3>2. k = "qa"
      BY <1>7, <2>1
    <3> QED BY <2>1, <3>1, <3>2 DEF Launch
  <2>2. CASE q # r
    <3>1. kind[q] = "qa" /\ q \in Were
      BY <1>7, <1>15, <2>2
    <3>2. CASE s = r
      BY <1>14, <3>1, <3>2
    <3>3. CASE s # r
      <4>1. kind[s] # "qa" /\ run[s].stage = "queued"
        BY <1>2, <1>7, <3>3
      <4>2. s \in Were
        BY <4>1 DEF Were
      <4>3. After(s, q)
        BY <1>16, <3>1, <4>1 DEF DeskInv, WorkersAfter
      <4> QED BY <1>13, <3>1, <4>2, <4>3
    <3> QED BY <3>2, <3>3
  <2> QED BY <2>1, <2>2
<1>18. OvertakersAfter'
  <2> SUFFICES ASSUME NEW q \in overtaken' \ blurred'
               PROVE  /\ q \in Runs /\ kind'[q] = "qa"
                      /\ \E s \in Runs : /\ kind'[s] # "qa" /\ run'[s].stage = "billed"
                                         /\ After(s, q)'
    BY DEF OvertakersAfter
  <2>1. q \in Runs /\ kind[q] = "qa"
    BY <1>16 DEF DeskInv, OvertakersAfter
  <2>2. PICK s \in Runs : kind[s] # "qa" /\ run[s].stage = "billed" /\ After(s, q)
    BY <1>16 DEF DeskInv, OvertakersAfter
  <2>3. q \in Were /\ s \in Were /\ q # r /\ s # r
    BY <1>2, <1>15, <2>1, <2>2 DEF Were
  <2> QED BY <1>2, <1>7, <1>13, <2>1, <2>2, <2>3
<1>19. VerdictHeard'
  <2>1. view.runs[r] = "absent"
    BY <1>2 DEF DeskInv, SeenExist
  <2>2. QaRuns' = QaRuns
    BY <1>7, <1>9, <2>1 DEF QaRuns
  <2>3. Succeeded(QaRuns)' = Succeeded(QaRuns)
    BY <1>9, <2>2 DEF Succeeded
  <2> DEFINE S == Succeeded(QaRuns)
  <2>4. S \in SUBSET Runs /\ r \notin S /\ \A q \in S : run[q].stage # "absent"
    BY <2>1 DEF DeskInv, SeenExist, Succeeded, QaRuns
  <2>5. S' = S
    BY <2>3
  <2>6. ASSUME S # {} PROVE Newest(S)' = Newest(S)
    <3> HIDE DEF S
    <3>1. {i \in DOMAIN order' : order'[i] \in S} = {i \in DOMAIN order : order[i] \in S}
      BY <1>3, <2>4
    <3>2. Max({i \in DOMAIN order : order[i] \in S}) \in DOMAIN order
      BY <2>4, <2>6, NewestPlace
    <3>3. order'[Max({i \in DOMAIN order' : order'[i] \in S})]
            = order[Max({i \in DOMAIN order : order[i] \in S})]
      BY <1>3, <3>1, <3>2
    <3>4. order'[Max({i \in DOMAIN order' : order'[i] \in S'})]
            = order[Max({i \in DOMAIN order : order[i] \in S})]
      BY <2>5, <3>3
    <3> QED BY <3>4 DEF Newest
  <2>7. QaDone' = QaDone
    <3> HIDE DEF S
    <3>1. QaDone = (IF S = {} THEN {} ELSE {Newest(S)})
      BY DEF QaDone, S
    <3>2. QaDone' = (IF S' = {} THEN {} ELSE {Newest(S)'})
      BY DEF QaDone, S
    <3> QED BY <2>5, <2>6, <3>1, <3>2
  <2> QED BY <1>9, <2>7, SameAsked
<1> QED BY <1>5, <1>6, <1>8, <1>9, <1>10, <1>11, <1>17, <1>18, <1>19 DEF DeskInv

(* A run ends: only one that succeeds and is no QA run overtakes.          *)
LEMMA EndKeeps ==
  ASSUME IInv, DeskInv, NEW r \in Runs, NEW e \in {"billed", "closed"},
         run[r].stage = "queued", run' = [run EXCEPT ![r].stage = e],
         UNCHANGED <<kind, order, view>>, PageTyped', AsksMore, blurred \subseteq blurred',
         \/ overtaken' = overtaken
         \/ e = "billed" /\ kind[r] # "qa" /\ overtaken' = overtaken \cup Tests
  PROVE  DeskInv'
<1>1. /\ run'[r].stage = e /\ \A q \in Runs : q # r => run'[q] = run[q]
  BY DEF IInv, TypeOK
<1>2. DeskTypeOK' /\ (view \in Pages)' /\ OrderOnce'
  BY DEF DeskInv, DeskTypeOK, PageTyped, OrderOnce, Pages
<1>3. Launched' /\ KindKnown' /\ SeenExist'
  BY <1>1 DEF DeskInv, Launched, KindKnown, SeenExist
<1>4. \A q, s : After(s, q)' <=> After(s, q)
  BY DEF After
<1>5. WorkersAfter'
  BY <1>1, <1>4 DEF DeskInv, WorkersAfter
<1>6. OvertakersAfter'
  <2> SUFFICES ASSUME NEW q \in overtaken' \ blurred'
               PROVE  /\ q \in Runs /\ kind[q] = "qa"
                      /\ \E s \in Runs : /\ kind[s] # "qa" /\ run'[s].stage = "billed"
                                         /\ After(s, q)
    BY <1>4 DEF OvertakersAfter
  <2>1. CASE q \in overtaken
    BY <1>1, <2>1 DEF DeskInv, OvertakersAfter
  <2>2. CASE q \notin overtaken
    <3>1. e = "billed" /\ kind[r] # "qa" /\ q \in Runs /\ kind[q] = "qa"
      BY <2>2 DEF Tests
    <3>2. After(r, q)
      BY <3>1 DEF DeskInv, WorkersAfter
    <3> QED BY <1>1, <3>1, <3>2
  <2> QED BY <2>1, <2>2
<1>7. QaDone' = QaDone
  BY DEF QaDone, Succeeded, QaRuns, Newest
<1>8. VerdictHeard'
  BY <1>7, SameAsked
<1> QED BY <1>2, <1>3, <1>5, <1>6, <1>8 DEF DeskInv

(* A step about neither the runs nor the view.                             *)
LEMMA OtherKeeps ==
  ASSUME DeskInv, UNCHANGED <<run, kind, order, view, overtaken, blurred>>, PageTyped', AsksMore
  PROVE  DeskInv'
<1>1. \A q, s : After(s, q)' <=> After(s, q)
  BY DEF After
<1>2. DeskTypeOK' /\ (view \in Pages)' /\ OrderOnce'
  BY DEF DeskInv, DeskTypeOK, PageTyped, OrderOnce, Pages
<1>3. Launched' /\ KindKnown' /\ SeenExist'
  BY DEF DeskInv, Launched, KindKnown, SeenExist
<1>4. WorkersAfter' /\ OvertakersAfter'
  BY <1>1 DEF DeskInv, WorkersAfter, OvertakersAfter
<1>5. QaDone' = QaDone
  BY DEF QaDone, Succeeded, QaRuns, Newest
<1>6. VerdictHeard'
  BY <1>5, SameAsked
<1> QED BY <1>2, <1>3, <1>4, <1>6 DEF DeskInv

(* What the page hears of the runs, whichever part it is.                  *)
LEMMA SeenKeeps ==
  ASSUME IInv, DeskInv, UNCHANGED <<run, kind, order, overtaken, blurred, tested, asked>>,
         due' \in SUBSET (Parts \cup Runs), view' \in Pages, VerdictHeard',
         \A r \in Runs : view'.runs[r] \in {view.runs[r], run[r].stage}
  PROVE  DeskInv'
<1>1. \A q, s : After(s, q)' <=> After(s, q)
  BY DEF After
<1>2. DeskTypeOK' /\ OrderOnce'
  BY DEF DeskInv, DeskTypeOK, OrderOnce, Pages, Statuses
<1>3. Launched' /\ KindKnown' /\ SeenExist'
  BY DEF DeskInv, Launched, KindKnown, SeenExist
<1>4. WorkersAfter' /\ OvertakersAfter'
  BY <1>1 DEF DeskInv, WorkersAfter, OvertakersAfter
<1> QED BY <1>2, <1>3, <1>4 DEF DeskInv

LEMMA FetchKeeps ==
  ASSUME IInv, DeskInv, NEW p \in Parts, Fetch(p)
  PROVE  DeskInv'
<1>0. view \in Pages /\ due \in SUBSET (Parts \cup Runs)
  BY DEF DeskInv, DeskTypeOK
<1>1. UNCHANGED <<run, kind, order, overtaken, blurred, strayed, tested, asked>>
  BY DEF Fetch, vars, work, observers
<1>2. view' \in Pages /\ \A r \in Runs : view'.runs[r] \in {view.runs[r], run[r].stage}
  <2>0. view \in Pages
    BY DEF DeskInv
  <2>1. CASE p = "task"
    BY <2>0, <2>1 DEF Fetch, Pages, IInv, TypeOK, Statuses
  <2>2. CASE p = "gates"
    <3> DEFINE shown == {g \in gates : g.n = view.n}
    <3>1. shown \in SUBSET GateRow
      BY DEF IInv, TypeOK
    <3>2. view' = [view EXCEPT !.gates = shown]
      BY <2>2 DEF Fetch
    <3> HIDE DEF shown
    <3> QED BY <2>0, <3>1, <3>2 DEF Pages
  <2>3. CASE p = "runs"
    <3> DEFINE shown == [r \in Runs |-> run[r].stage]
    <3>1. shown \in [Runs -> RunStages]
      BY DEF IInv, TypeOK, RunStages
    <3>2. view' = [view EXCEPT !.runs = shown]
      BY <2>3 DEF Fetch
    <3>3. \A r \in Runs : shown[r] = run[r].stage
      OBVIOUS
    <3> HIDE DEF shown
    <3> QED BY <2>0, <3>1, <3>2, <3>3 DEF Pages
  <2> QED BY <2>1, <2>2, <2>3 DEF Parts
<1>3. QaDone \in SUBSET Runs /\ \A r, s \in QaDone : r = s
  BY OneAsked
<1>4. CASE p \in {"task", "gates"}
  <2>1. due \ {p} \subseteq due' /\ due' \subseteq due \cup Parts /\ view'.qa = view.qa
    BY <1>0, <1>4 DEF Fetch, Parts, Pages
  <2>2. view'.runs = view.runs
    BY <1>0, <1>4 DEF Fetch, Pages
  <2>3. QaDone' = QaDone
    BY <1>1, <2>2 DEF QaDone, Succeeded, QaRuns, Newest
  <2>4. p \notin Runs
    BY DeskAssumption
  <2>5. VerdictHeard'
    BY <1>1, <1>3, <2>1, <2>3, <2>4 DEF DeskInv, VerdictHeard
  <2>6. due' \in SUBSET (Parts \cup Runs)
    BY <1>0, <2>1
  <2> QED BY <1>1, <1>2, <2>5, <2>6, SeenKeeps
<1>5. CASE p = "runs"
  <2>1. /\ due \ {p} \subseteq due' /\ QaDone' \ QaDone \subseteq due'
        /\ due' \subseteq due \cup Parts \cup QaDone' /\ view'.qa = view.qa
    BY <1>0, <1>5 DEF Fetch, Parts, Pages
  <2>2. p \notin Runs
    BY DeskAssumption
  <2>3. /\ \A r, s \in QaDone' : r = s
    BY DEF QaDone
  <2>4. VerdictHeard'
    BY <1>1, <1>3, <2>1, <2>2, <2>3 DEF DeskInv, VerdictHeard
  <2>5. QaDone' \in SUBSET Runs
    <3> DEFINE S == {r \in Runs : kind[r] = "qa" /\ view'.runs[r] = "billed"}
    <3>1. Succeeded(QaRuns)' = S
      BY <1>1 DEF Succeeded, QaRuns
    <3>2. S \in SUBSET Runs /\ \A r \in S : run[r].stage # "absent"
      BY <1>2 DEF DeskInv, SeenExist
    <3> HIDE DEF S
    <3>3. S # {} => Newest(S) \in Runs
      BY <3>2, NewestIsOne
    <3>4. S # {} => order'[Max({i \in DOMAIN order' : order'[i] \in S})] \in Runs
      BY <1>1, <3>3 DEF Newest
    <3> QED BY <3>1, <3>4 DEF QaDone, Newest
  <2>6. due' \in SUBSET (Parts \cup Runs)
    BY <1>0, <2>1, <2>5
  <2> QED BY <1>1, <1>2, <2>4, <2>6, SeenKeeps
<1> QED BY <1>4, <1>5 DEF Parts

LEMMA HearKeeps ==
  ASSUME IInv, DeskInv, NEW q \in Runs, HearVerdict(q)
  PROVE  DeskInv'
<1>1. view \in Pages /\ due \in SUBSET (Parts \cup Runs)
  BY DEF DeskInv, DeskTypeOK
<1>2. UNCHANGED <<run, kind, order, overtaken, blurred, tested, asked>>
  BY DEF HearVerdict, vars, work
<1>3. PICK p \in Runs \cup {"none"} : view' = [view EXCEPT !.qa = p]
  BY <1>1 DEF HearVerdict, Pages
<1>4. view' \in Pages /\ view'.runs = view.runs
  BY <1>1, <1>3 DEF Pages
<1>5. QaDone' = QaDone
  BY <1>2, <1>4 DEF QaDone, Succeeded, QaRuns, Newest
<1>6. VerdictHeard'
  BY <1>5 DEF HearVerdict, VerdictHeard
<1>7. due' \in SUBSET (Parts \cup Runs)
  BY <1>1 DEF HearVerdict
<1> QED BY <1>2, <1>4, <1>6, <1>7, SeenKeeps

LEMMA DeskInit0 == Init /\ DeskInit => DeskInv
<1> SUFFICES ASSUME Init, DeskInit PROVE DeskInv
  OBVIOUS
<1>1. IInv
  BY InitInv
<1>2. DeskTypeOK /\ view \in Pages
  <2>1. Cardinality(Runs) \in Nat /\ Len(order) = 0
    BY RunsAssumption, FS_CardinalityType DEF DeskInit
  <2>2. 1 \in Iterations
    BY BoundsAssumption DEF Iterations
  <2>3. order \in Seq(Runs)
    BY DEF DeskInit
  <2>4. view \in Pages
    BY <2>2 DEF DeskInit, NoPage, Pages, Statuses, RunStages
  <2>5. Len(order) <= Cardinality(Runs)
    BY <2>1
  <2>6. /\ kind \in [Runs -> {"none", "dev", "qa", "fixer", "troubleshooter"}]
        /\ tested \in BOOLEAN /\ due \subseteq Parts \cup Runs
        /\ asked \in {"none", "gates", "rerun", "approve", "reject"}
    BY DEF DeskInit
  <2> QED BY <2>3, <2>4, <2>5, <2>6 DEF DeskTypeOK, Pages, Statuses
<1>3. OrderOnce /\ Launched /\ KindKnown /\ SeenExist
  BY DEF OrderOnce, Launched, KindKnown, SeenExist, Init, DeskInit, NoPage
<1>4. WorkersAfter /\ OvertakersAfter
  BY DEF WorkersAfter, OvertakersAfter, Init, DeskInit
<1>5. VerdictHeard
  BY DEF VerdictHeard, QaDone, Succeeded, QaRuns, DeskInit, NoPage
<1> QED BY <1>2, <1>3, <1>4, <1>5 DEF DeskInv

LEMMA RunClosed ==
  ASSUME IInv, NEW r \in Runs, CloseAgentRunUnsuccessful(r)
  PROVE  run[r].stage = "queued" /\ run' = [run EXCEPT ![r].stage = "closed"]
BY DEF CloseAgentRunUnsuccessful

LEMMA ClicksKeep ==
  ASSUME IInv, DeskInv, AgentClicks \/ VerifyClicks \/ ReviewClicks \/ Lost \/ Poll
  PROVE  DeskInv'
<1>0. DeskTypeOK /\ IInv /\ QaDone \in SUBSET Runs
  BY OneAsked DEF DeskInv
<1>1. CASE \E r \in Runs : \/ ClickLaunch(r) \/ ReportError(r) \/ ClickFix(r)
                           \/ ClickRepair(r) \/ ClickQa(r) \/ ClickRework(r)
  <2>1. PICK r \in Runs : \/ ClickLaunch(r) \/ ReportError(r) \/ ClickFix(r)
                          \/ ClickRepair(r) \/ ClickQa(r) \/ ClickRework(r)
    BY <1>1
  <2>2. \E k \in Kinds : Launch(r, k)
    BY <2>1 DEF ClickLaunch, ReportError, ClickFix, ClickRepair, ClickQa, ClickRework, Kinds
  <2>3. PageTyped' /\ AsksMore
    BY <1>0, <2>1, <2>2 DEF ClickLaunch, ReportError, ClickFix, ClickRepair, ClickQa,
       ClickRework, Asks, Launch, DeskTypeOK, PageTyped, AsksMore
  <2> QED BY <2>2, <2>3, LaunchKeeps
<1>2. CASE ClickCancel
  <2>1. DevRuns # {}
    BY <1>2 DEF ClickCancel, Offers, StartStep, AgentStep, VerifyStep, ManualStep,
       QaStep, ApproveStep, Active
  <2>2. Newest(DevRuns) \in Runs
    BY <2>1, SeenNewest DEF DevRuns
  <2>3. PageTyped' /\ AsksMore /\ UNCHANGED <<kind, order, view, overtaken, blurred>>
    BY <1>0, <1>2 DEF ClickCancel, Asks, Unwatched, DeskTypeOK, PageTyped, AsksMore, observers
  <2>4. CloseAgentRunUnsuccessful(Newest(DevRuns))
    BY <1>2 DEF ClickCancel
  <2> QED BY <2>2, <2>3, <2>4, RunClosed, EndKeeps
<1>3. CASE \/ ClickStart \/ ClickVerify \/ GatesAnswered \/ ClickRerun \/ FinishRerun
           \/ \E g \in view.gates : ClickPass(g)
  <2>1. UNCHANGED <<run, kind, order, view, overtaken, blurred>>
    BY <1>3 DEF ClickStart, ClickVerify, GatesAnswered, ClickRerun, FinishRerun, ClickPass,
       StartTask, RunGatesForTask, ResetGatesForTask, RecordGateOutcome, Unwatched,
       observers, vars, work
  <2>2. PageTyped' /\ AsksMore
    BY <1>0, <1>3 DEF ClickStart, ClickVerify, GatesAnswered, ClickRerun, FinishRerun,
       ClickPass, Asks, Unwatched, observers, DeskTypeOK, PageTyped, AsksMore
  <2> QED BY <2>1, <2>2, OtherKeeps
<1>4. CASE \/ ClickConfirm \/ FinishDecide \/ ClickReopen \/ Lost \/ Poll
           \/ \E d \in {"approve", "reject"} : ClickDecide(d)
  <2>1. UNCHANGED <<run, kind, order, view, overtaken, blurred>>
    BY <1>4 DEF ClickConfirm, FinishDecide, ClickReopen, Lost, Poll, PollRuns, PollGates,
       Quietly, ClickDecide, Decision, ApproveTask, RejectTask, ReopenTask, SubmitTaskForQa, CloseLast, CloseAndOpenNext,
       Unwatched, observers, vars, work
  <2>2. PageTyped' /\ AsksMore
    BY <1>0, <1>4 DEF ClickConfirm, FinishDecide, ClickReopen, Lost, Poll, PollRuns,
       PollGates, Quietly, ClickDecide, Asks, Parts, Unwatched, observers, DeskTypeOK, PageTyped, AsksMore
  <2> QED BY <2>1, <2>2, OtherKeeps
<1> QED BY <1>1, <1>2, <1>3, <1>4 DEF AgentClicks, VerifyClicks, ReviewClicks

LEMMA EndsKeep ==
  ASSUME IInv, DeskInv, RunEnds
  PROVE  DeskInv'
<1>0. PageTyped
  BY DEF DeskInv, DeskTypeOK, PageTyped
<1>1. PICK r \in Runs : RunFails(r) \/ \E m \in Minutes, s \in Says(kind[r]) : RunSucceeds(r, m, s)
  BY DEF RunEnds
<1>2. CASE RunFails(r)
  <2>1. /\ PageTyped' /\ AsksMore /\ UNCHANGED <<kind, order, view, overtaken>>
        /\ blurred \subseteq blurred'
    BY <1>0, <1>2 DEF RunFails, page, PageTyped, AsksMore
  <2>2. CloseAgentRunUnsuccessful(r)
    BY <1>2 DEF RunFails
  <2> QED BY <2>1, <2>2, RunClosed, EndKeeps
<1>3. CASE \E m \in Minutes, s \in Says(kind[r]) : RunSucceeds(r, m, s)
  <2>1. PICK m \in Minutes, s \in Says(kind[r]) : RunSucceeds(r, m, s)
    BY <1>3
  <2>2. PageTyped' /\ AsksMore /\ UNCHANGED <<kind, order, view, blurred>>
    BY <1>0, <2>1 DEF RunSucceeds, page, PageTyped, AsksMore
  <2>3. run[r].stage = "queued" /\ run' = [run EXCEPT ![r].stage = "billed"]
    BY <2>1 DEF RunSucceeds, CloseAgentRunSucceeded
  <2>4. \/ overtaken' = overtaken
        \/ kind[r] # "qa" /\ overtaken' = overtaken \cup Tests
    BY <2>1 DEF RunSucceeds, Says
  <2> QED BY <2>2, <2>3, <2>4, EndKeeps
<1> QED BY <1>1, <1>2, <1>3

LEMMA GatesKeep ==
  ASSUME IInv, DeskInv, \/ GateStep
                        \/ Restart /\ UNCHANGED deskVars
                        \/ UNCHANGED <<vars, deskVars>>
  PROVE  DeskInv'
<1>1. UNCHANGED <<run, kind, order, view, overtaken, blurred, strayed, tested, due, asked>>
  BY DEF GateStep, Restart, deskVars, observers, page, vars, work, TakeRow, SpawnGate,
     GateRunThrows, AskDevice, SkipGate, GateChildEnds, DeviceAnswers, Record
<1>2. PageTyped' /\ AsksMore
  BY <1>1 DEF DeskInv, DeskTypeOK, PageTyped, AsksMore
<1> QED BY <1>1, <1>2, OtherKeeps

LEMMA DeskNextInv ==
  ASSUME DeskIInv, [DeskNext]_<<vars, deskVars>>
  PROVE  DeskIInv'
<1>1. IInv'
  BY DeskRefines, NextInv DEF DeskIInv
<1>2. DeskInv'
  BY ClicksKeep, FetchKeeps, HearKeeps, EndsKeep, GatesKeep DEF DeskIInv, DeskNext
<1> QED BY <1>1, <1>2 DEF DeskIInv

(* The invariant of the task and of its wizard together.                   *)
THEOREM DeskInvariant == DeskSpec => []DeskIInv
<1>1. Init /\ DeskInit => DeskIInv
  BY InitInv, DeskInit0 DEF DeskIInv
<1>2. DeskIInv /\ [DeskNext]_<<vars, deskVars>> => DeskIInv'
  BY DeskNextInv
<1> QED BY <1>1, <1>2, PTL DEF DeskSpec

(* Whatever the operator clicks, whatever the page has fetched and however *)
(* late its requests arrive, the task moves as its use cases allow: the    *)
(* wizard implements the specification of the task.                        *)
THEOREM WizardRefinesTask == DeskSpec => Spec
<1>1. DeskIInv /\ [DeskNext]_<<vars, deskVars>> => [Next]_vars
  BY DeskRefines DEF DeskIInv
<1> QED BY <1>1, DeskInvariant, PTL DEF DeskSpec, Spec

(* The types of the page, and: with the page up to date, every button it   *)
(* offers is one the use case behind it accepts.                           *)
THEOREM OffersAcceptedHolds == DeskSpec => []OffersAccepted
<1>1. ASSUME DeskIInv PROVE OffersAccepted
  <2>1. DeskTypeOK
    BY <1>1 DEF DeskIInv, DeskInv
  <2>2. ASSUME Fresh, NEW o \in Offers
        PROVE  CASE o = "start" -> task = "pending"
            [] o \in {"launch", "fix", "repair", "qa", "rework", "verify"} -> iters[cur] = "open"
            [] o \in {"approve", "reject"} -> task \in {"qa", "in_progress", "rework"}
            [] o = "reopen" -> task = "approved"
            [] OTHER -> TRUE
    <3>1. view.task = task /\ cur \in Iterations
      BY <1>1, <2>2 DEF Fresh, DeskIInv, IInv, TypeOK
    <3>2. iters[cur] = (IF task = "approved" THEN "approved" ELSE "open")
      BY <1>1, <3>1 DEF DeskIInv, IInv, IterationChain
    <3>3. Working => task \in {"in_progress", "rework"} /\ iters[cur] = "open"
      BY <3>1, <3>2 DEF Working
    <3>4. /\ o \in StartStep => o = "start" /\ task = "pending"
          /\ o \in AgentStep => o \in {"cancel", "launch"} /\ Working
          /\ o \in ManualStep => o = "confirm"
      BY <3>1 DEF StartStep, AgentStep, ManualStep
    <3>5. o \in VerifyStep => \/ o = "rerun"
                              \/ o \in {"verify", "fix", "pass", "repair"} /\ Working
      BY DEF VerifyStep
    <3>6. o \in QaStep => o \in {"qa", "rework"} /\ Working
      BY DEF QaStep
    <3>7. o \in ApproveStep => \/ o \in {"approve", "reject"} /\ (task = "qa" \/ Working)
                               \/ o = "reopen" /\ task = "approved"
      BY <3>1 DEF ApproveStep
    <3> QED BY <3>3, <3>4, <3>5, <3>6, <3>7 DEF Offers
  <2> QED BY <2>1, <2>2 DEF OffersAccepted
<1> QED BY <1>1, DeskInvariant, PTL

(* A QA verdict that the page acts on, once it waits for no answer, is     *)
(* about the code as it is, with the exceptions the property names: the    *)
(* page's comparison of creation times catches every other edit, and the   *)
(* verdict it heard is the one of the run it compares.                     *)
THEOREM VerdictOnLatestCodeHolds == DeskSpec => []VerdictOnLatestCode
<1>1. ASSUME DeskIInv PROVE VerdictOnLatestCode
  <2> DEFINE q == Newest(QaRuns)
  <2>1. SUFFICES ASSUME Verdict # "none", Fresh, due = {}, ~strayed,
                        view.qa \in overtaken \ blurred
                 PROVE  FALSE
    BY DEF VerdictOnLatestCode
  <2>2. view.qa = q
    <3>1. q \in Succeeded(QaRuns)
      BY <2>1 DEF Verdict
    <3>2. \A r \in QaRuns : r \in Runs /\ run[r].stage # "absent"
      BY <1>1 DEF DeskIInv, DeskInv, SeenExist, QaRuns
    <3>3. QaRuns \in SUBSET Runs /\ Succeeded(QaRuns) \in SUBSET QaRuns
      BY DEF QaRuns, Succeeded
    <3>4. Newest(Succeeded(QaRuns)) = q
      BY <1>1, <3>1, <3>2, <3>3, NewestAmong DEF DeskIInv
    <3>5. QaDone = {q}
      BY <3>1, <3>4 DEF QaDone
    <3> QED BY <1>1, <2>1, <3>5 DEF DeskIInv, DeskInv, VerdictHeard
  <2> HIDE DEF q
  <2>3. PICK s \in Runs : kind[s] # "qa" /\ run[s].stage = "billed" /\ After(s, q)
    BY <1>1, <2>1, <2>2 DEF DeskIInv, DeskInv, OvertakersAfter
  <2>4. s \in Succeeded(DevRuns)
    BY <2>1, <2>3 DEF Fresh, Succeeded, DevRuns
  <2>5. After(q, s)
    BY <2>1, <2>4 DEF Verdict, q
  <2>6. q \in Runs /\ run[q].stage # "absent" /\ order \in Seq(Runs)
    BY <1>1, <2>1, <2>2 DEF DeskIInv, DeskInv, DeskTypeOK, OvertakersAfter, KindKnown
  <2>7. PICK i \in DOMAIN order : order[i] = q
    BY <1>1, <2>6 DEF DeskIInv, DeskInv, Launched
  <2>8. PICK j \in DOMAIN order : order[j] = s
    BY <1>1, <2>3 DEF DeskIInv, DeskInv, Launched
  <2>9. j > i /\ i > j
    BY <1>1, <2>3, <2>5, <2>6, <2>7, <2>8, AfterPlaces DEF DeskIInv, DeskInv
  <2> QED BY <2>6, <2>9
<1> QED BY <1>1, DeskInvariant, PTL
====
