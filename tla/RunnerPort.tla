---- MODULE RunnerPort ----
(***************************************************************************)
(* What the port of the agent runners (packages/agent-runner/src/port.ts)  *)
(* promises the worker about one call of run(): output arrives in chunks   *)
(* while the call is pending, what was delivered is never taken back, and  *)
(* the call comes to exactly one outcome, after which nothing arrives.     *)
(***************************************************************************)
EXTENDS Sequences, SequencesExt

VARIABLES
    stage,   \* where the call is
    text     \* what onChunk has been given so far

vars == <<stage, text>>

Init ==
    /\ stage = "idle"
    /\ text = <<>>

Begin ==
    /\ stage = "idle"
    /\ stage' = "active"
    /\ UNCHANGED text

(* The call cannot even start: the promise is rejected.                    *)
Reject ==
    /\ stage = "idle"
    /\ stage' = "failed"
    /\ UNCHANGED text

Chunk ==
    /\ stage = "active"
    /\ IsStrictPrefix(text, text')
    /\ UNCHANGED stage

Settle(kind) ==
    /\ stage = "active"
    /\ stage' = kind
    /\ UNCHANGED text

Next ==
    \/ Begin
    \/ Reject
    \/ Chunk
    \/ \E kind \in {"succeeded", "failed", "cancelled"} : Settle(kind)

Spec == Init /\ [][Next]_vars
====
