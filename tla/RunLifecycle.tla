---- MODULE RunLifecycle ----
(***************************************************************************)
(* What the agent-run worker promises about one run, whatever processes,   *)
(* timers and crashes are behind it: a run is created queued, started at   *)
(* most once, ended at most once, billed in the very step in which it      *)
(* succeeds and never otherwise, and a finished run changes only by being  *)
(* degraded from succeeded to failed when its output could not be used.    *)
(***************************************************************************)
CONSTANT Runs

VARIABLES
    stage,    \* where each run is in its life
    ledger    \* the runs whose work has been charged to a task

vars == <<stage, ledger>>

Init ==
    /\ stage = [r \in Runs |-> "absent"]
    /\ ledger = {}

Create(r) ==
    /\ stage[r] = "absent"
    /\ stage' = [stage EXCEPT ![r] = "queued"]
    /\ UNCHANGED ledger

Start(r) ==
    /\ stage[r] = "queued"
    /\ stage' = [stage EXCEPT ![r] = "running"]
    /\ UNCHANGED ledger

(* A run that cannot be started at all fails without ever running.         *)
Refuse(r) ==
    /\ stage[r] = "queued"
    /\ stage' = [stage EXCEPT ![r] = "failed"]
    /\ UNCHANGED ledger

Succeed(r) ==
    /\ stage[r] = "running"
    /\ stage' = [stage EXCEPT ![r] = "succeeded"]
    /\ ledger' \in {ledger, ledger \cup {r}}

EndBadly(r, outcome) ==
    /\ stage[r] = "running"
    /\ stage' = [stage EXCEPT ![r] = outcome]
    /\ UNCHANGED ledger

Degrade(r) ==
    /\ stage[r] = "succeeded"
    /\ stage' = [stage EXCEPT ![r] = "failed"]
    /\ UNCHANGED ledger

Next ==
    \E r \in Runs :
        \/ Create(r)
        \/ Start(r)
        \/ Refuse(r)
        \/ Succeed(r)
        \/ \E outcome \in {"failed", "cancelled"} : EndBadly(r, outcome)
        \/ Degrade(r)

Spec == Init /\ [][Next]_vars
====
