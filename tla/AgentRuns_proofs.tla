---- MODULE AgentRuns_proofs ----
(***************************************************************************)
(* What holds of the agent-run worker for every set of runs, every cap and *)
(* every number of restarts.  IInv is the inductive invariant: the stated  *)
(* properties together with what each pending handler step (cont) and each *)
(* list in memory may assume about the rows it is about to write.          *)
(***************************************************************************)
EXTENDS AgentRuns, TLAPS

(* A process that is down has no memory.                                   *)
DownIsEmpty ==
    proc = "down" =>
        /\ inFlight = {} /\ batch = {} /\ reaping = {} /\ tails = {}
        /\ \A r \in Runs : cont[r] = "none"

(* What the lists in memory may assume of the rows they name.              *)
Lists ==
    /\ \A r \in batch : status[r] = "queued" /\ cont[r] = "none"
    /\ \A r \in inFlight : status[r] = "running" /\ cont[r] = "none"
    /\ \A r \in reaping : status[r] = "running" /\ r \notin inFlight

(* What the next commit of a handler may assume of its row.                *)
Handlers ==
    \A r \in Runs :
        /\ cont[r] = "hook" => status[r] = "succeeded" /\ kind[r] \in Design /\ told[r] = {}
        /\ cont[r] = "requeue" => /\ status[r] = "failed"
                                  /\ origin[r] = NoRun
                                  /\ \A s \in Runs : origin[s] # r
        /\ cont[r] = "failnote" => status[r] = "failed"
        /\ cont[r] = "turn" => status[r] \in Terminal
        /\ cont[r] = "note" => status[r] \in {"succeeded", "failed"}

(* Only turns have a message or a waiting request, and a row that does not *)
(* exist has nothing attached to it.                                       *)
Attached ==
    \A r \in Runs :
        /\ reply[r] # "none" \/ r \in tails \/ cont[r] = "place" => kind[r] = "turn"
        /\ status[r] = "absent" => reply[r] = "none" /\ r \notin tails /\ cont[r] = "none"

IInv ==
    /\ TypeOK
    /\ DownIsEmpty
    /\ Lists
    /\ Handlers
    /\ Attached
    /\ BilledOnce
    /\ InboxTruthful
    /\ ReplyTruthful
    /\ RetryOnce

---------------------------------------------------------------------------
(* Every action keeps IInv.  In each proof: the types; the lists of the    *)
(* process; what the handlers assume; what was billed, told and answered;  *)
(* and the retry chain.                                                    *)

LEMMA InitInv == Init => IInv
BY RunsAssumption, MaxBootsAssumption DEF Init, IInv, TypeOK, Statuses, Kinds, Steps,
   DownIsEmpty, Lists, Handlers, Attached, BilledOnce, InboxTruthful, ReplyTruthful,
   RetryOnce

LEMMA QueueRunInv ==
  ASSUME IInv, NEW r \in Runs, NEW k \in Kinds, NEW s \in {"task", "project"}, QueueRun(r, k, s)
  PROVE  IInv'
<1>1. TypeOK'
  BY DEF IInv, QueueRun, Insert, Quiet, Up, memory, TypeOK, Statuses, Kinds,
        Design, Steps
<1>2. DownIsEmpty' /\ Lists'
  BY DEF IInv, QueueRun, Insert, Quiet, Up, memory, TypeOK, DownIsEmpty,
        Lists, Handlers, Attached, Terminal
<1>3. Handlers' /\ Attached'
  BY RunsAssumption DEF IInv, QueueRun, Insert, Quiet, Up, memory, TypeOK,
        Lists, Handlers, Attached, InboxTruthful, RetryOnce, Terminal
<1>4. BilledOnce' /\ InboxTruthful' /\ ReplyTruthful'
  BY DEF IInv, QueueRun, Insert, Quiet, Up, memory, TypeOK, Lists, Handlers,
        Attached, BilledOnce, InboxTruthful, ReplyTruthful, Terminal, Design
<1>5. RetryOnce'
  BY RunsAssumption DEF IInv, QueueRun, Insert, Quiet, Up, memory, TypeOK,
        Lists, Handlers, RetryOnce
<1> QED BY <1>1, <1>2, <1>3, <1>4, <1>5 DEF IInv

LEMMA QueueTurnInv ==
  ASSUME IInv, NEW r \in Runs, QueueTurn(r)
  PROVE  IInv'
<1>1. TypeOK'
  BY DEF IInv, QueueTurn, Insert, Quiet, Up, TypeOK, Statuses, Kinds, Design,
        Steps
<1>2. DownIsEmpty' /\ Lists'
  BY DEF IInv, QueueTurn, Insert, Quiet, Up, TypeOK, DownIsEmpty, Lists,
        Handlers, Attached, Terminal
<1>3. Handlers' /\ Attached'
  BY RunsAssumption DEF IInv, QueueTurn, Insert, Quiet, Up, TypeOK, Lists,
        Handlers, Attached, InboxTruthful, RetryOnce, Terminal
<1>4. BilledOnce' /\ InboxTruthful' /\ ReplyTruthful'
  BY DEF IInv, QueueTurn, Insert, Quiet, Up, TypeOK, Lists, Handlers,
        Attached, BilledOnce, InboxTruthful, ReplyTruthful, Terminal, Design
<1>5. RetryOnce'
  BY RunsAssumption DEF IInv, QueueTurn, Insert, Quiet, Up, TypeOK, Lists,
        Handlers, RetryOnce
<1> QED BY <1>1, <1>2, <1>3, <1>4, <1>5 DEF IInv

LEMMA PlaceReplyInv ==
  ASSUME IInv, NEW r \in Runs, PlaceReply(r)
  PROVE  IInv'
<1>1. TypeOK'
  BY DEF IInv, PlaceReply, TypeOK, Statuses, Kinds, Design, Steps
<1>2. DownIsEmpty' /\ Lists'
  BY DEF IInv, PlaceReply, TypeOK, DownIsEmpty, Lists, Handlers, Attached,
        Terminal
<1>3. Handlers' /\ Attached'
  BY RunsAssumption DEF IInv, PlaceReply, TypeOK, Lists, Handlers, Attached,
        InboxTruthful, RetryOnce, Terminal
<1>4. BilledOnce' /\ InboxTruthful' /\ ReplyTruthful'
  BY DEF IInv, PlaceReply, TypeOK, Lists, Handlers, Attached, BilledOnce,
        InboxTruthful, ReplyTruthful, Terminal, Design
<1>5. RetryOnce'
  BY RunsAssumption DEF IInv, PlaceReply, TypeOK, Lists, Handlers, RetryOnce
<1> QED BY <1>1, <1>2, <1>3, <1>4, <1>5 DEF IInv

LEMMA StartRunInv ==
  ASSUME IInv, NEW r \in Runs, StartRun(r)
  PROVE  IInv'
<1>1. TypeOK'
  BY DEF IInv, StartRun, Touch, TypeOK, Statuses, Kinds, Design, Steps
<1>2. DownIsEmpty' /\ Lists'
  BY DEF IInv, StartRun, Touch, TypeOK, DownIsEmpty, Lists, Handlers,
        Attached, Terminal
<1>3. Handlers' /\ Attached'
  BY RunsAssumption DEF IInv, StartRun, Touch, TypeOK, Lists, Handlers,
        Attached, InboxTruthful, RetryOnce, Terminal
<1>4. BilledOnce' /\ InboxTruthful' /\ ReplyTruthful'
  BY DEF IInv, StartRun, Touch, TypeOK, Lists, Handlers, Attached, BilledOnce,
        InboxTruthful, ReplyTruthful, Terminal, Design
<1>5. RetryOnce'
  BY RunsAssumption DEF IInv, StartRun, Touch, TypeOK, Lists, Handlers,
        RetryOnce
<1> QED BY <1>1, <1>2, <1>3, <1>4, <1>5 DEF IInv

LEMMA RefuseRunInv ==
  ASSUME IInv, NEW r \in Runs, RefuseRun(r)
  PROVE  IInv'
<1>1. TypeOK'
  BY DEF IInv, RefuseRun, Touch, TypeOK, Statuses, Kinds, Design, Steps
<1>2. DownIsEmpty' /\ Lists'
  BY DEF IInv, RefuseRun, Touch, TypeOK, DownIsEmpty, Lists, Handlers,
        Attached, Terminal
<1>3. Handlers' /\ Attached'
  BY RunsAssumption DEF IInv, RefuseRun, Touch, TypeOK, Lists, Handlers,
        Attached, InboxTruthful, RetryOnce, Terminal
<1>4. BilledOnce' /\ InboxTruthful' /\ ReplyTruthful'
  BY DEF IInv, RefuseRun, Touch, TypeOK, Lists, Handlers, Attached,
        BilledOnce, InboxTruthful, ReplyTruthful, Terminal, Design
<1>5. RetryOnce'
  BY RunsAssumption DEF IInv, RefuseRun, Touch, TypeOK, Lists, Handlers,
        RetryOnce
<1> QED BY <1>1, <1>2, <1>3, <1>4, <1>5 DEF IInv

LEMMA ChildSucceedsInv ==
  ASSUME IInv, NEW r \in Runs, ChildSucceeds(r)
  PROVE  IInv'
<1>1. TypeOK'
  BY DEF IInv, ChildSucceeds, Touch, ChildDone, Bill, Quiet, Up, TypeOK,
        Statuses, Kinds, Design, Steps
<1>2. DownIsEmpty' /\ Lists'
  BY DEF IInv, ChildSucceeds, Touch, ChildDone, Bill, Quiet, Up, TypeOK,
        DownIsEmpty, Lists, Handlers, Attached, Terminal
<1>3. Handlers' /\ Attached'
  BY RunsAssumption DEF IInv, ChildSucceeds, Touch, ChildDone, Bill, Quiet,
        Up, TypeOK, Lists, Handlers, Attached, InboxTruthful, RetryOnce,
        Terminal
<1>4. BilledOnce' /\ InboxTruthful' /\ ReplyTruthful'
  BY DEF IInv, ChildSucceeds, Touch, ChildDone, Bill, Quiet, Up, TypeOK,
        Lists, Handlers, Attached, BilledOnce, InboxTruthful, ReplyTruthful,
        Terminal, Design
<1>5. RetryOnce'
  BY RunsAssumption DEF IInv, ChildSucceeds, Touch, ChildDone, Bill, Quiet,
        Up, TypeOK, Lists, Handlers, RetryOnce
<1> QED BY <1>1, <1>2, <1>3, <1>4, <1>5 DEF IInv

LEMMA EvidenceWriteThrowsInv ==
  ASSUME IInv, NEW r \in Runs, EvidenceWriteThrows(r)
  PROVE  IInv'
<1>1. TypeOK'
  BY DEF IInv, EvidenceWriteThrows, ChildDone, Quiet, Up, rows, TypeOK,
        Statuses, Kinds, Design, Steps
<1>2. DownIsEmpty' /\ Lists'
  BY DEF IInv, EvidenceWriteThrows, ChildDone, Quiet, Up, rows, TypeOK,
        DownIsEmpty, Lists, Handlers, Attached, Terminal
<1>3. Handlers' /\ Attached'
  BY RunsAssumption DEF IInv, EvidenceWriteThrows, ChildDone, Quiet, Up, rows,
        TypeOK, Lists, Handlers, Attached, InboxTruthful, RetryOnce, Terminal
<1>4. BilledOnce' /\ InboxTruthful' /\ ReplyTruthful'
  BY DEF IInv, EvidenceWriteThrows, ChildDone, Quiet, Up, rows, TypeOK, Lists,
        Handlers, Attached, BilledOnce, InboxTruthful, ReplyTruthful,
        Terminal, Design
<1>5. RetryOnce'
  BY RunsAssumption DEF IInv, EvidenceWriteThrows, ChildDone, Quiet, Up, rows,
        TypeOK, Lists, Handlers, RetryOnce
<1> QED BY <1>1, <1>2, <1>3, <1>4, <1>5 DEF IInv

LEMMA ChildFailsInv ==
  ASSUME IInv, NEW r \in Runs, ChildFails(r)
  PROVE  IInv'
<1>1. TypeOK'
  BY DEF IInv, ChildFails, Touch, ChildDone, Up, TypeOK, Statuses, Kinds,
        Design, Steps
<1>2. DownIsEmpty' /\ Lists'
  BY DEF IInv, ChildFails, Touch, ChildDone, Up, TypeOK, DownIsEmpty, Lists,
        Handlers, Attached, Terminal
<1>3. Handlers' /\ Attached'
  BY RunsAssumption DEF IInv, ChildFails, Touch, ChildDone, Up, TypeOK, Lists,
        Handlers, Attached, InboxTruthful, RetryOnce, Terminal
<1>4. BilledOnce' /\ InboxTruthful' /\ ReplyTruthful'
  BY DEF IInv, ChildFails, Touch, ChildDone, Up, TypeOK, Lists, Handlers,
        Attached, BilledOnce, InboxTruthful, ReplyTruthful, Terminal, Design
<1>5. RetryOnce'
  BY RunsAssumption DEF IInv, ChildFails, Touch, ChildDone, Up, TypeOK, Lists,
        Handlers, RetryOnce
<1> QED BY <1>1, <1>2, <1>3, <1>4, <1>5 DEF IInv

LEMMA ChildCancelledInv ==
  ASSUME IInv, NEW r \in Runs, ChildCancelled(r)
  PROVE  IInv'
<1>1. TypeOK'
  BY DEF IInv, ChildCancelled, Touch, ChildDone, Quiet, Up, TypeOK, Statuses,
        Kinds, Design, Steps
<1>2. DownIsEmpty' /\ Lists'
  BY DEF IInv, ChildCancelled, Touch, ChildDone, Quiet, Up, TypeOK,
        DownIsEmpty, Lists, Handlers, Attached, Terminal
<1>3. Handlers' /\ Attached'
  BY RunsAssumption DEF IInv, ChildCancelled, Touch, ChildDone, Quiet, Up,
        TypeOK, Lists, Handlers, Attached, InboxTruthful, RetryOnce, Terminal
<1>4. BilledOnce' /\ InboxTruthful' /\ ReplyTruthful'
  BY DEF IInv, ChildCancelled, Touch, ChildDone, Quiet, Up, TypeOK, Lists,
        Handlers, Attached, BilledOnce, InboxTruthful, ReplyTruthful,
        Terminal, Design
<1>5. RetryOnce'
  BY RunsAssumption DEF IInv, ChildCancelled, Touch, ChildDone, Quiet, Up,
        TypeOK, Lists, Handlers, RetryOnce
<1> QED BY <1>1, <1>2, <1>3, <1>4, <1>5 DEF IInv

LEMMA ChunkInv ==
  ASSUME IInv, NEW r \in Runs, Chunk(r)
  PROVE  IInv'
<1>1. TypeOK'
  BY DEF IInv, Chunk, Touch, Quiet, Up, rows, memory, TypeOK, Statuses, Kinds,
        Design, Steps
<1>2. DownIsEmpty' /\ Lists'
  BY DEF IInv, Chunk, Touch, Quiet, Up, rows, memory, TypeOK, DownIsEmpty,
        Lists, Handlers, Attached, Terminal
<1>3. Handlers' /\ Attached'
  BY RunsAssumption DEF IInv, Chunk, Touch, Quiet, Up, rows, memory, TypeOK,
        Lists, Handlers, Attached, InboxTruthful, RetryOnce, Terminal
<1>4. BilledOnce' /\ InboxTruthful' /\ ReplyTruthful'
  BY DEF IInv, Chunk, Touch, Quiet, Up, rows, memory, TypeOK, Lists, Handlers,
        Attached, BilledOnce, InboxTruthful, ReplyTruthful, Terminal, Design
<1>5. RetryOnce'
  BY RunsAssumption DEF IInv, Chunk, Touch, Quiet, Up, rows, memory, TypeOK,
        Lists, Handlers, RetryOnce
<1> QED BY <1>1, <1>2, <1>3, <1>4, <1>5 DEF IInv

LEMMA HookOkInv ==
  ASSUME IInv, NEW r \in Runs, HookOk(r)
  PROVE  IInv'
<1>1. TypeOK'
  BY DEF IInv, HookOk, Insert, TypeOK, Statuses, Kinds, Design, Steps
<1>2. DownIsEmpty' /\ Lists'
  BY DEF IInv, HookOk, Insert, TypeOK, DownIsEmpty, Lists, Handlers, Attached,
        Terminal
<1>3. Handlers' /\ Attached'
  BY RunsAssumption DEF IInv, HookOk, Insert, TypeOK, Lists, Handlers,
        Attached, InboxTruthful, RetryOnce, Terminal
<1>4. BilledOnce' /\ InboxTruthful' /\ ReplyTruthful'
  BY DEF IInv, HookOk, Insert, TypeOK, Lists, Handlers, Attached, BilledOnce,
        InboxTruthful, ReplyTruthful, Terminal, Design
<1>5. RetryOnce'
  BY RunsAssumption DEF IInv, HookOk, Insert, TypeOK, Lists, Handlers,
        RetryOnce
<1> QED BY <1>1, <1>2, <1>3, <1>4, <1>5 DEF IInv

LEMMA HookFailsInv ==
  ASSUME IInv, NEW r \in Runs, NEW p \in BOOLEAN, HookFails(r, p)
  PROVE  IInv'
<1>1. TypeOK'
  BY DEF IInv, HookFails, Touch, TypeOK, Statuses, Kinds, Design, Steps
<1>2. DownIsEmpty' /\ Lists'
  BY DEF IInv, HookFails, Touch, TypeOK, DownIsEmpty, Lists, Handlers,
        Attached, Terminal
<1>3. Handlers' /\ Attached'
  BY RunsAssumption DEF IInv, HookFails, Touch, TypeOK, Lists, Handlers,
        Attached, InboxTruthful, RetryOnce, Terminal
<1>4. BilledOnce' /\ InboxTruthful' /\ ReplyTruthful'
  BY DEF IInv, HookFails, Touch, TypeOK, Lists, Handlers, Attached,
        BilledOnce, InboxTruthful, ReplyTruthful, Terminal, Design
<1>5. RetryOnce'
  BY RunsAssumption DEF IInv, HookFails, Touch, TypeOK, Lists, Handlers,
        RetryOnce
<1> QED BY <1>1, <1>2, <1>3, <1>4, <1>5 DEF IInv

LEMMA RequeueInv ==
  ASSUME IInv, NEW r \in Runs, Requeue(r)
  PROVE  IInv'
<1>1. TypeOK'
  BY DEF IInv, Requeue, Insert, TypeOK, Statuses, Kinds, Design, Steps
<1>2. DownIsEmpty' /\ Lists'
  BY DEF IInv, Requeue, Insert, TypeOK, DownIsEmpty, Lists, Handlers,
        Attached, Terminal
<1>3. Handlers' /\ Attached'
  BY RunsAssumption DEF IInv, Requeue, Insert, TypeOK, Lists, Handlers,
        Attached, InboxTruthful, RetryOnce, Terminal
<1>4. BilledOnce' /\ InboxTruthful' /\ ReplyTruthful'
  BY DEF IInv, Requeue, Insert, TypeOK, Lists, Handlers, Attached, BilledOnce,
        InboxTruthful, ReplyTruthful, Terminal, Design
<1>5. RetryOnce'
  BY RunsAssumption DEF IInv, Requeue, Insert, TypeOK, Lists, Handlers,
        RetryOnce
<1> QED BY <1>1, <1>2, <1>3, <1>4, <1>5 DEF IInv

LEMMA FailNoteInv ==
  ASSUME IInv, NEW r \in Runs, FailNote(r)
  PROVE  IInv'
<1>1. TypeOK'
  BY DEF IInv, FailNote, TypeOK, Statuses, Kinds, Design, Steps
<1>2. DownIsEmpty' /\ Lists'
  BY DEF IInv, FailNote, TypeOK, DownIsEmpty, Lists, Handlers, Attached,
        Terminal
<1>3. Handlers' /\ Attached'
  BY RunsAssumption DEF IInv, FailNote, TypeOK, Lists, Handlers, Attached,
        InboxTruthful, RetryOnce, Terminal
<1>4. BilledOnce' /\ InboxTruthful' /\ ReplyTruthful'
  BY DEF IInv, FailNote, TypeOK, Lists, Handlers, Attached, BilledOnce,
        InboxTruthful, ReplyTruthful, Terminal, Design
<1>5. RetryOnce'
  BY RunsAssumption DEF IInv, FailNote, TypeOK, Lists, Handlers, RetryOnce
<1> QED BY <1>1, <1>2, <1>3, <1>4, <1>5 DEF IInv

LEMMA CompleteTurnInv ==
  ASSUME IInv, NEW r \in Runs, CompleteTurn(r)
  PROVE  IInv'
<1>1. TypeOK'
  BY DEF IInv, CompleteTurn, Answer, TypeOK, Statuses, Kinds, Design, Steps
<1>2. DownIsEmpty' /\ Lists'
  BY DEF IInv, CompleteTurn, Answer, TypeOK, DownIsEmpty, Lists, Handlers,
        Attached, Terminal
<1>3. Handlers' /\ Attached'
  BY RunsAssumption DEF IInv, CompleteTurn, Answer, TypeOK, Lists, Handlers,
        Attached, InboxTruthful, RetryOnce, Terminal
<1>4. BilledOnce' /\ InboxTruthful' /\ ReplyTruthful'
  BY DEF IInv, CompleteTurn, Answer, TypeOK, Lists, Handlers, Attached,
        BilledOnce, InboxTruthful, ReplyTruthful, Terminal, Design
<1>5. RetryOnce'
  BY RunsAssumption DEF IInv, CompleteTurn, Answer, TypeOK, Lists, Handlers,
        RetryOnce
<1> QED BY <1>1, <1>2, <1>3, <1>4, <1>5 DEF IInv

LEMMA NoteInv ==
  ASSUME IInv, NEW r \in Runs, Note(r)
  PROVE  IInv'
<1>1. TypeOK'
  BY DEF IInv, Note, TypeOK, Statuses, Kinds, Design, Steps
<1>2. DownIsEmpty' /\ Lists'
  BY DEF IInv, Note, TypeOK, DownIsEmpty, Lists, Handlers, Attached, Terminal
<1>3. Handlers' /\ Attached'
  BY RunsAssumption DEF IInv, Note, TypeOK, Lists, Handlers, Attached,
        InboxTruthful, RetryOnce, Terminal
<1>4. BilledOnce' /\ InboxTruthful' /\ ReplyTruthful'
  BY DEF IInv, Note, TypeOK, Lists, Handlers, Attached, BilledOnce,
        InboxTruthful, ReplyTruthful, Terminal, Design
<1>5. RetryOnce'
  BY RunsAssumption DEF IInv, Note, TypeOK, Lists, Handlers, RetryOnce
<1> QED BY <1>1, <1>2, <1>3, <1>4, <1>5 DEF IInv

LEMMA TailFinalizesInv ==
  ASSUME IInv, NEW r \in Runs, TailFinalizes(r)
  PROVE  IInv'
<1>1. TypeOK'
  BY DEF IInv, TailFinalizes, Answer, Quiet, Up, TypeOK, Statuses, Kinds,
        Design, Steps
<1>2. DownIsEmpty' /\ Lists'
  BY DEF IInv, TailFinalizes, Answer, Quiet, Up, TypeOK, DownIsEmpty, Lists,
        Handlers, Attached, Terminal
<1>3. Handlers' /\ Attached'
  BY RunsAssumption DEF IInv, TailFinalizes, Answer, Quiet, Up, TypeOK, Lists,
        Handlers, Attached, InboxTruthful, RetryOnce, Terminal
<1>4. BilledOnce' /\ InboxTruthful' /\ ReplyTruthful'
  BY DEF IInv, TailFinalizes, Answer, Quiet, Up, TypeOK, Lists, Handlers,
        Attached, BilledOnce, InboxTruthful, ReplyTruthful, Terminal, Design
<1>5. RetryOnce'
  BY RunsAssumption DEF IInv, TailFinalizes, Answer, Quiet, Up, TypeOK, Lists,
        Handlers, RetryOnce
<1> QED BY <1>1, <1>2, <1>3, <1>4, <1>5 DEF IInv

LEMMA TailTimesOutInv ==
  ASSUME IInv, NEW r \in Runs, TailTimesOut(r)
  PROVE  IInv'
<1>1. TypeOK'
  BY DEF IInv, TailTimesOut, Quiet, Up, rows, TypeOK, Statuses, Kinds, Design,
        Steps
<1>2. DownIsEmpty' /\ Lists'
  BY DEF IInv, TailTimesOut, Quiet, Up, rows, TypeOK, DownIsEmpty, Lists,
        Handlers, Attached, Terminal
<1>3. Handlers' /\ Attached'
  BY RunsAssumption DEF IInv, TailTimesOut, Quiet, Up, rows, TypeOK, Lists,
        Handlers, Attached, InboxTruthful, RetryOnce, Terminal
<1>4. BilledOnce' /\ InboxTruthful' /\ ReplyTruthful'
  BY DEF IInv, TailTimesOut, Quiet, Up, rows, TypeOK, Lists, Handlers,
        Attached, BilledOnce, InboxTruthful, ReplyTruthful, Terminal, Design
<1>5. RetryOnce'
  BY RunsAssumption DEF IInv, TailTimesOut, Quiet, Up, rows, TypeOK, Lists,
        Handlers, RetryOnce
<1> QED BY <1>1, <1>2, <1>3, <1>4, <1>5 DEF IInv

LEMMA AgeInv ==
  ASSUME IInv, NEW r \in Runs, Age(r)
  PROVE  IInv'
<1>1. TypeOK'
  BY DEF IInv, Age, Quiet, Up, rows, memory, TypeOK, Statuses, Kinds, Design,
        Steps
<1>2. DownIsEmpty' /\ Lists'
  BY DEF IInv, Age, Quiet, Up, rows, memory, TypeOK, DownIsEmpty, Lists,
        Handlers, Attached, Terminal
<1>3. Handlers' /\ Attached'
  BY RunsAssumption DEF IInv, Age, Quiet, Up, rows, memory, TypeOK, Lists,
        Handlers, Attached, InboxTruthful, RetryOnce, Terminal
<1>4. BilledOnce' /\ InboxTruthful' /\ ReplyTruthful'
  BY DEF IInv, Age, Quiet, Up, rows, memory, TypeOK, Lists, Handlers,
        Attached, BilledOnce, InboxTruthful, ReplyTruthful, Terminal, Design
<1>5. RetryOnce'
  BY RunsAssumption DEF IInv, Age, Quiet, Up, rows, memory, TypeOK, Lists,
        Handlers, RetryOnce
<1> QED BY <1>1, <1>2, <1>3, <1>4, <1>5 DEF IInv

LEMMA ReapOneInv ==
  ASSUME IInv, NEW r \in Runs, ReapOne(r)
  PROVE  IInv'
<1>1. TypeOK'
  BY DEF IInv, ReapOne, Touch, TypeOK, Statuses, Kinds, Design, Steps
<1>2. DownIsEmpty' /\ Lists'
  BY DEF IInv, ReapOne, Touch, TypeOK, DownIsEmpty, Lists, Handlers, Attached,
        Terminal
<1>3. Handlers' /\ Attached'
  BY RunsAssumption DEF IInv, ReapOne, Touch, TypeOK, Lists, Handlers,
        Attached, InboxTruthful, RetryOnce, Terminal
<1>4. BilledOnce' /\ InboxTruthful' /\ ReplyTruthful'
  BY DEF IInv, ReapOne, Touch, TypeOK, Lists, Handlers, Attached, BilledOnce,
        InboxTruthful, ReplyTruthful, Terminal, Design
<1>5. RetryOnce'
  BY RunsAssumption DEF IInv, ReapOne, Touch, TypeOK, Lists, Handlers,
        RetryOnce
<1> QED BY <1>1, <1>2, <1>3, <1>4, <1>5 DEF IInv

LEMMA TickInv ==
  ASSUME IInv, Tick
  PROVE  IInv'
<1>1. TypeOK'
  BY DEF IInv, Tick, Quiet, Up, rows, TypeOK, Statuses, Kinds, Design, Steps
<1>2. DownIsEmpty' /\ Lists'
  BY DEF IInv, Tick, Quiet, Up, rows, TypeOK, DownIsEmpty, Lists, Handlers,
        Attached, Terminal
<1>3. Handlers' /\ Attached'
  BY RunsAssumption DEF IInv, Tick, Quiet, Up, rows, TypeOK, Lists, Handlers,
        Attached, InboxTruthful, RetryOnce, Terminal
<1>4. BilledOnce' /\ InboxTruthful' /\ ReplyTruthful'
  BY DEF IInv, Tick, Quiet, Up, rows, TypeOK, Lists, Handlers, Attached,
        BilledOnce, InboxTruthful, ReplyTruthful, Terminal, Design
<1>5. RetryOnce'
  BY RunsAssumption DEF IInv, Tick, Quiet, Up, rows, TypeOK, Lists, Handlers,
        RetryOnce
<1> QED BY <1>1, <1>2, <1>3, <1>4, <1>5 DEF IInv

LEMMA StopInv ==
  ASSUME IInv, Stop
  PROVE  IInv'
<1>1. TypeOK'
  BY DEF IInv, Stop, Quiet, Up, rows, TypeOK, Statuses, Kinds, Design, Steps
<1>2. DownIsEmpty' /\ Lists'
  BY DEF IInv, Stop, Quiet, Up, rows, TypeOK, DownIsEmpty, Lists, Handlers,
        Attached, Terminal
<1>3. Handlers' /\ Attached'
  BY RunsAssumption DEF IInv, Stop, Quiet, Up, rows, TypeOK, Lists, Handlers,
        Attached, InboxTruthful, RetryOnce, Terminal
<1>4. BilledOnce' /\ InboxTruthful' /\ ReplyTruthful'
  BY DEF IInv, Stop, Quiet, Up, rows, TypeOK, Lists, Handlers, Attached,
        BilledOnce, InboxTruthful, ReplyTruthful, Terminal, Design
<1>5. RetryOnce'
  BY RunsAssumption DEF IInv, Stop, Quiet, Up, rows, TypeOK, Lists, Handlers,
        RetryOnce
<1> QED BY <1>1, <1>2, <1>3, <1>4, <1>5 DEF IInv

LEMMA ExitInv ==
  ASSUME IInv, Exit
  PROVE  IInv'
<1>1. TypeOK'
  BY DEF IInv, Exit, Quiet, Up, rows, LoseMemory, TypeOK, Statuses, Kinds,
        Design, Steps
<1>2. DownIsEmpty' /\ Lists'
  BY DEF IInv, Exit, Quiet, Up, rows, LoseMemory, TypeOK, DownIsEmpty, Lists,
        Handlers, Attached, Terminal
<1>3. Handlers' /\ Attached'
  BY RunsAssumption DEF IInv, Exit, Quiet, Up, rows, LoseMemory, TypeOK,
        Lists, Handlers, Attached, InboxTruthful, RetryOnce, Terminal
<1>4. BilledOnce' /\ InboxTruthful' /\ ReplyTruthful'
  BY DEF IInv, Exit, Quiet, Up, rows, LoseMemory, TypeOK, Lists, Handlers,
        Attached, BilledOnce, InboxTruthful, ReplyTruthful, Terminal, Design
<1>5. RetryOnce'
  BY RunsAssumption DEF IInv, Exit, Quiet, Up, rows, LoseMemory, TypeOK,
        Lists, Handlers, RetryOnce
<1> QED BY <1>1, <1>2, <1>3, <1>4, <1>5 DEF IInv

LEMMA CrashInv ==
  ASSUME IInv, Crash
  PROVE  IInv'
<1>1. TypeOK'
  BY DEF IInv, Crash, Up, rows, LoseMemory, TypeOK, Statuses, Kinds, Design,
        Steps
<1>2. DownIsEmpty' /\ Lists'
  BY DEF IInv, Crash, Up, rows, LoseMemory, TypeOK, DownIsEmpty, Lists,
        Handlers, Attached, Terminal
<1>3. Handlers' /\ Attached'
  BY RunsAssumption DEF IInv, Crash, Up, rows, LoseMemory, TypeOK, Lists,
        Handlers, Attached, InboxTruthful, RetryOnce, Terminal
<1>4. BilledOnce' /\ InboxTruthful' /\ ReplyTruthful'
  BY DEF IInv, Crash, Up, rows, LoseMemory, TypeOK, Lists, Handlers, Attached,
        BilledOnce, InboxTruthful, ReplyTruthful, Terminal, Design
<1>5. RetryOnce'
  BY RunsAssumption DEF IInv, Crash, Up, rows, LoseMemory, TypeOK, Lists,
        Handlers, RetryOnce
<1> QED BY <1>1, <1>2, <1>3, <1>4, <1>5 DEF IInv

LEMMA BootInv ==
  ASSUME IInv, Boot
  PROVE  IInv'
<1>1. TypeOK'
  BY MaxBootsAssumption DEF IInv, Boot, rows, TypeOK, Statuses, Kinds, Design,
        Steps
<1>2. DownIsEmpty' /\ Lists'
  BY DEF IInv, Boot, rows, TypeOK, DownIsEmpty, Lists, Handlers, Attached,
        Terminal
<1>3. Handlers' /\ Attached'
  BY RunsAssumption DEF IInv, Boot, rows, TypeOK, Lists, Handlers, Attached,
        InboxTruthful, RetryOnce, Terminal
<1>4. BilledOnce' /\ InboxTruthful' /\ ReplyTruthful'
  BY DEF IInv, Boot, rows, TypeOK, Lists, Handlers, Attached, BilledOnce,
        InboxTruthful, ReplyTruthful, Terminal, Design
<1>5. RetryOnce'
  BY RunsAssumption DEF IInv, Boot, rows, TypeOK, Lists, Handlers, RetryOnce
<1> QED BY <1>1, <1>2, <1>3, <1>4, <1>5 DEF IInv

LEMMA StutterInv == ASSUME IInv, UNCHANGED vars PROVE IInv'
BY DEF IInv, vars, rows, memory, TypeOK, DownIsEmpty, Lists, Handlers, Attached,
       BilledOnce, InboxTruthful, ReplyTruthful, RetryOnce

LEMMA RunStepInv == ASSUME IInv, NEW r \in Runs, RunStep(r) PROVE IInv'
<1>1. CASE Request(r)
  BY <1>1, QueueTurnInv, QueueRunInv DEF Request
<1>2. CASE Take(r)
  BY <1>2, StartRunInv, RefuseRunInv DEF Take
<1>3. CASE End(r)
  BY <1>3, ChildSucceedsInv, EvidenceWriteThrowsInv, ChildFailsInv, ChildCancelledInv DEF End
<1>4. CASE Continue(r)
  BY <1>4, PlaceReplyInv, HookOkInv, HookFailsInv, RequeueInv, FailNoteInv,
     CompleteTurnInv, NoteInv DEF Continue
<1>5. CASE Chunk(r) \/ TailFinalizes(r) \/ TailTimesOut(r) \/ Age(r) \/ ReapOne(r)
  BY <1>5, ChunkInv, TailFinalizesInv, TailTimesOutInv, AgeInv, ReapOneInv
<1> QED BY <1>1, <1>2, <1>3, <1>4, <1>5 DEF RunStep

LEMMA NextInv == ASSUME IInv, [Next]_vars PROVE IInv'
<1>1. CASE \E r \in Runs : RunStep(r)
  <2>1. PICK r \in Runs : RunStep(r) BY <1>1
  <2> QED BY <2>1, RunStepInv
<1>2. CASE Tick \/ Stop \/ Exit \/ Crash \/ Boot
  BY <1>2, TickInv, StopInv, ExitInv, CrashInv, BootInv
<1>3. CASE UNCHANGED vars
  BY <1>3, StutterInv
<1> QED BY <1>1, <1>2, <1>3 DEF Next

(* The inductive invariant holds in every reachable state of the worker.   *)
THEOREM Invariant == Spec => []IInv
BY InitInv, NextInv, PTL DEF Spec

---------------------------------------------------------------------------
(* The variables of the worker keep their types.                           *)
THEOREM TypeCorrect == Spec => []TypeOK
BY Invariant, PTL DEF IInv

(* No run is executed twice at the same time, none that is queued is       *)
(* already in flight, and the boot pass never closes a live run.           *)
THEOREM OwnershipHolds == Spec => []Ownership
<1>1. IInv => Ownership
  BY DEF IInv, Lists, Ownership
<1> QED BY <1>1, Invariant, PTL

(* Work is billed at most once per run, exactly for the runs of a task     *)
(* that succeeded.                                                         *)
THEOREM BilledOnceHolds == Spec => []BilledOnce
BY Invariant, PTL DEF IInv

(* The inbox agrees with the rows of the runs.                             *)
THEOREM InboxTruthfulHolds == Spec => []InboxTruthful
BY Invariant, PTL DEF IInv

(* The answers in the coworker chat agree with the rows of the runs.       *)
THEOREM ReplyTruthfulHolds == Spec => []ReplyTruthful
BY Invariant, PTL DEF IInv

(* A design run is corrected at most once and its correction never.        *)
THEOREM RetryOnceHolds == Spec => []RetryOnce
BY Invariant, PTL DEF IInv

---------------------------------------------------------------------------
(* Refinement: every step of the worker is a step of RunLifecycle or       *)
(* leaves its two variables alone.                                         *)

LEMMA LifecycleInit == Init => Lifecycle!Init
BY DEF Init, Lifecycle!Init

LEMMA LifecycleStutter ==
  ASSUME UNCHANGED <<status, entries>> PROVE UNCHANGED Lifecycle!vars
BY DEF Lifecycle!vars

(* A step that only writes the status of one run.                          *)
LEMMA StatusStep ==
  ASSUME IInv, NEW r \in Runs, NEW s \in Statuses,
         status' = [status EXCEPT ![r] = s], UNCHANGED entries,
         \/ status[r] = "absent" /\ s = "queued"
         \/ status[r] = "queued" /\ s \in {"running", "failed"}
         \/ status[r] = "running" /\ s \in {"failed", "cancelled"}
         \/ status[r] = "succeeded" /\ s = "failed"
  PROVE  Lifecycle!Next
BY DEF Lifecycle!Next, Lifecycle!Create, Lifecycle!Start, Lifecycle!Refuse,
       Lifecycle!EndBadly, Lifecycle!Degrade

LEMMA SucceedStep ==
  ASSUME IInv, NEW r \in Runs, ChildSucceeds(r) PROVE Lifecycle!Next
<1>1. status[r] = "running"
  BY DEF IInv, Lists, ChildSucceeds, ChildDone
<1>2. \A x \in Runs : entries[x] \in Nat
  BY DEF IInv, TypeOK
<1>3. {x \in Runs : entries'[x] > 0} = {x \in Runs : entries[x] > 0} \cup
        (IF scope[r] = "task" THEN {r} ELSE {})
  BY <1>2 DEF IInv, TypeOK, ChildSucceeds, Bill
<1> QED BY <1>1, <1>3 DEF Lifecycle!Next, Lifecycle!Succeed, ChildSucceeds

LEMMA RunStepLifecycle ==
  ASSUME IInv, NEW r \in Runs, RunStep(r) PROVE [Lifecycle!Next]_(Lifecycle!vars)
<1>1. CASE Request(r)
  BY <1>1, StatusStep DEF Request, QueueTurn, QueueRun, Insert, Statuses
<1>2. CASE Take(r)
  BY <1>2, StatusStep DEF Take, StartRun, RefuseRun, Statuses
<1>3. CASE ChildSucceeds(r)
  BY <1>3, SucceedStep
<1>4. CASE ChildFails(r) \/ ChildCancelled(r)
  <2>1. status[r] = "running"
    BY <1>4 DEF IInv, Lists, ChildFails, ChildCancelled, ChildDone
  <2> QED BY <1>4, <2>1, StatusStep DEF ChildFails, ChildCancelled, Statuses
<1>5. CASE ReapOne(r)
  <2>1. status[r] = "running"
    BY <1>5 DEF IInv, Lists, ReapOne
  <2> QED BY <1>5, <2>1, StatusStep DEF ReapOne, Statuses
<1>6. CASE \E p \in BOOLEAN : HookFails(r, p)
  <2>1. status[r] = "succeeded"
    BY <1>6 DEF IInv, Handlers, HookFails
  <2> QED BY <1>6, <2>1, StatusStep DEF HookFails, Statuses
<1>7. CASE HookOk(r)
  BY <1>7, StatusStep, LifecycleStutter DEF HookOk, Insert, Statuses
<1>8. CASE Requeue(r)
  BY <1>8, StatusStep, LifecycleStutter DEF Requeue, Insert, Statuses
<1>9. CASE \/ PlaceReply(r) \/ FailNote(r) \/ CompleteTurn(r) \/ Note(r)
           \/ TailFinalizes(r) \/ TailTimesOut(r)
  BY <1>9, LifecycleStutter
     DEF PlaceReply, FailNote, CompleteTurn, Note, TailFinalizes, TailTimesOut, rows
<1>10. CASE EvidenceWriteThrows(r) \/ Chunk(r) \/ Age(r)
  BY <1>10, LifecycleStutter DEF EvidenceWriteThrows, Chunk, Age, rows
<1> QED
  BY <1>1, <1>2, <1>3, <1>4, <1>5, <1>6, <1>7, <1>8, <1>9, <1>10
     DEF RunStep, End, Continue

LEMMA LifecycleNext ==
  ASSUME IInv, [Next]_vars PROVE [Lifecycle!Next]_(Lifecycle!vars)
<1>1. CASE \E r \in Runs : RunStep(r)
  <2>1. PICK r \in Runs : RunStep(r) BY <1>1
  <2> QED BY <2>1, RunStepLifecycle
<1>2. CASE Tick \/ Stop \/ Exit \/ Crash \/ Boot
  BY <1>2, LifecycleStutter DEF Tick, Stop, Exit, Crash, Boot, LoseMemory, rows
<1>3. CASE UNCHANGED vars
  BY <1>3, LifecycleStutter DEF vars, rows
<1> QED BY <1>1, <1>2, <1>3 DEF Next

(* The worker implements the life of a run that RunLifecycle promises,     *)
(* through every crash and restart.                                        *)
THEOREM LifecycleRefined == Spec => LifecycleSpec
BY LifecycleInit, LifecycleNext, Invariant, PTL
   DEF Spec, LifecycleSpec, Lifecycle!Spec
====
