---- MODULE Troubleshoot_proofs ----
(***************************************************************************)
(* What holds of the troubleshooter loop for every set of reports, apply   *)
(* requests and runs and every number of crashes.                          *)
(***************************************************************************)
EXTENDS Troubleshoot, TLAPS

(* A test runs for a report that has been diagnosed, so its attempt is     *)
(* counted.                                                                *)
Counted ==
    /\ \A p \in Reports :
        /\ status[p] \notin {"absent", "open", "dismissed"} => attempt[p] > 0
        /\ next[p] = "recreate" => attempt[p] \in 1 .. MaxTries - 1
        /\ next[p] \in {"relink", "remark"} => attempt[p] > 0
    /\ \A j \in Jobs :
        jobStage[j] # "idle" => jobReport[j] \in Reports /\ attempt[jobReport[j]] > 0

(* Every run that a failing test queued has been counted as an attempt,    *)
(* but for the one being queued and one per crash.                         *)
RunsCounted ==
    \A p \in Reports :
        \/ autoRuns[p] = 0
        \/ autoRuns[p] < attempt[p] + crashes
        \/ next[p] \in {"relink", "remark"} /\ autoRuns[p] <= attempt[p] + crashes

(* Diagnoses come from the run linked last or from an older one.           *)
RunOrder ==
    \A p \in Reports : diagRun[p] <= lastRun[p] /\ lastRun[p] <= made

IInv ==
    /\ TypeOK
    /\ Counted
    /\ RunsCounted
    /\ RunOrder
    /\ AwaitingHasActions
    /\ BoundedRetries
    /\ VerifiedByTest

---------------------------------------------------------------------------
(* Every action keeps IInv.  In each proof: the types; what is counted;    *)
(* the bound on the retries; the order of the runs; and what a status      *)
(* promises about the rest of the row.                                     *)

LEMMA InitInv == Init => IInv
BY NoReportAssumption, BoundsAssumption
   DEF Init, IInv, TypeOK, Statuses, Diagnoses, Counted, RunsCounted, RunOrder,
       AwaitingHasActions, BoundedRetries, VerifiedByTest, MaxTries

LEMMA ReportInv ==
  ASSUME IInv, NEW p \in Reports, Report(p)
  PROVE  IInv'
<1>1. TypeOK'
  BY NoReportAssumption, BoundsAssumption DEF IInv, Report, Patch, Then,
        Quiet, row, agent, job, seen, TypeOK, Counted, Statuses, Diagnoses
<1>2. Counted'
  BY NoReportAssumption DEF IInv, Report, Patch, Then, Quiet, row, agent, job,
        seen, TypeOK, Counted, MaxTries
<1>3. RunsCounted' /\ BoundedRetries'
  BY BoundsAssumption DEF IInv, Report, Patch, Then, Quiet, row, agent, job,
        seen, TypeOK, Counted, RunsCounted, BoundedRetries, MaxTries
<1>4. RunOrder'
  BY BoundsAssumption DEF IInv, Report, Patch, Then, Quiet, row, agent, job,
        seen, TypeOK, RunOrder
<1>5. AwaitingHasActions' /\ VerifiedByTest'
  BY NoReportAssumption DEF IInv, Report, Patch, Then, Quiet, row, agent, job,
        seen, TypeOK, Counted, AwaitingHasActions, VerifiedByTest
<1> QED BY <1>1, <1>2, <1>3, <1>4, <1>5 DEF IInv

LEMMA RediagnoseInv ==
  ASSUME IInv, NEW p \in Reports, Rediagnose(p)
  PROVE  IInv'
<1>1. TypeOK'
  BY NoReportAssumption, BoundsAssumption DEF IInv, Rediagnose,
        MarkDiagnosing, Patch, Then, Quiet, agent, job, seen, TypeOK, Counted,
        Statuses, Diagnoses
<1>2. Counted'
  BY NoReportAssumption DEF IInv, Rediagnose, MarkDiagnosing, Patch, Then,
        Quiet, agent, job, seen, TypeOK, Counted, MaxTries
<1>3. RunsCounted' /\ BoundedRetries'
  <2> SUFFICES ASSUME NEW q \in Reports
      PROVE  /\ \/ autoRuns'[q] = 0
                \/ autoRuns'[q] < attempt'[q] + crashes'
                \/ /\ next'[q] \in {"relink", "remark"}
                   /\ autoRuns'[q] <= attempt'[q] + crashes'
             /\ autoRuns'[q] <= MaxTries - 1 + crashes'
    BY DEF RunsCounted, BoundedRetries
  <2>1. autoRuns[q] \in Nat /\ attempt[q] \in Nat /\ crashes \in Nat
    BY BoundsAssumption DEF IInv, TypeOK
  <2>2. /\ autoRuns'[q] = autoRuns[q] /\ crashes' = crashes
        /\ \/ attempt'[q] = attempt[q] /\ next'[q] = next[q]
           \/ attempt'[q] = attempt[q] + 1
    BY DEF IInv, TypeOK, Rediagnose, MarkDiagnosing, Then, seen
  <2>3. next[q] = "none"
    BY DEF Rediagnose, Quiet
  <2> QED BY <2>1, <2>2, <2>3 DEF IInv, RunsCounted, BoundedRetries, MaxTries
<1>4. RunOrder'
  BY BoundsAssumption DEF IInv, Rediagnose, MarkDiagnosing, Patch, Then,
        Quiet, agent, job, seen, TypeOK, RunOrder
<1>5. AwaitingHasActions' /\ VerifiedByTest'
  BY NoReportAssumption DEF IInv, Rediagnose, MarkDiagnosing, Patch, Then,
        Quiet, agent, job, seen, TypeOK, Counted, AwaitingHasActions,
        VerifiedByTest
<1> QED BY <1>1, <1>2, <1>3, <1>4, <1>5 DEF IInv

LEMMA MarkInv ==
  ASSUME IInv, NEW p \in Reports, Mark(p)
  PROVE  IInv'
<1>1. TypeOK'
  <2>1. attempt'[p] = attempt[p] + 1 /\ attempt' = [attempt EXCEPT ![p] = @ + 1]
    BY DEF IInv, TypeOK, Mark, MarkDiagnosing
  <2>2. status' = [status EXCEPT ![p] = "diagnosing"] /\ stale' = stale \ {p}
    BY DEF Mark, MarkDiagnosing, Patch
  <2>3. \E s \in {"create", "none"} : next' = [next EXCEPT ![p] = s]
    BY DEF Mark, Then
  <2>4. UNCHANGED <<lastRun, diag, diagRun, actions, lastTest, agent, hook, job, seen>>
    BY DEF Mark, MarkDiagnosing
  <2> QED
    BY <2>1, <2>2, <2>3, <2>4, NoReportAssumption, BoundsAssumption
       DEF IInv, agent, job, seen, TypeOK, Statuses, Diagnoses
<1>2. Counted'
  <2>1. attempt' = [attempt EXCEPT ![p] = @ + 1] /\ UNCHANGED job
    BY DEF Mark, MarkDiagnosing
  <2>2. status' = [status EXCEPT ![p] = "diagnosing"]
    BY DEF Mark, MarkDiagnosing, Patch
  <2>3. \E s \in {"create", "none"} : next' = [next EXCEPT ![p] = s]
    BY DEF Mark, Then
  <2> QED BY <2>1, <2>2, <2>3 DEF IInv, job, TypeOK, Counted, MaxTries
<1>3. RunsCounted' /\ BoundedRetries'
  <2> SUFFICES ASSUME NEW q \in Reports
      PROVE  /\ \/ autoRuns'[q] = 0
                \/ autoRuns'[q] < attempt'[q] + crashes'
                \/ /\ next'[q] \in {"relink", "remark"}
                   /\ autoRuns'[q] <= attempt'[q] + crashes'
             /\ autoRuns'[q] <= MaxTries - 1 + crashes'
    BY DEF RunsCounted, BoundedRetries
  <2>1. autoRuns[q] \in Nat /\ attempt[q] \in Nat /\ crashes \in Nat
    BY BoundsAssumption DEF IInv, TypeOK
  <2>2. /\ autoRuns'[q] = autoRuns[q] /\ crashes' = crashes
        /\ \/ attempt'[q] = attempt[q] /\ next'[q] = next[q]
           \/ attempt'[q] = attempt[q] + 1
    BY DEF IInv, TypeOK, Mark, MarkDiagnosing, Then, seen
  <2> QED BY <2>1, <2>2 DEF IInv, RunsCounted, BoundedRetries, MaxTries
<1>4. RunOrder'
  BY BoundsAssumption DEF IInv, Mark, MarkDiagnosing, Patch, Then, agent, job,
        seen, TypeOK, RunOrder
<1>5. AwaitingHasActions' /\ VerifiedByTest'
  BY NoReportAssumption DEF IInv, Mark, MarkDiagnosing, Patch, Then, agent,
        job, seen, TypeOK, Counted, AwaitingHasActions, VerifiedByTest
<1> QED BY <1>1, <1>2, <1>3, <1>4, <1>5 DEF IInv

LEMMA CreateRunInv ==
  ASSUME IInv, NEW p \in Reports, CreateRun(p)
  PROVE  IInv'
<1>1. TypeOK'
  BY NoReportAssumption, BoundsAssumption DEF IInv, CreateRun, Then, row, job,
        TypeOK, Counted, Statuses, Diagnoses
<1>2. Counted'
  BY NoReportAssumption DEF IInv, CreateRun, Then, row, job, TypeOK, Counted,
        MaxTries
<1>3. RunsCounted' /\ BoundedRetries'
  <2> SUFFICES ASSUME NEW q \in Reports
      PROVE  /\ \/ autoRuns'[q] = 0
                \/ autoRuns'[q] < attempt'[q] + crashes'
                \/ /\ next'[q] \in {"relink", "remark"}
                   /\ autoRuns'[q] <= attempt'[q] + crashes'
             /\ autoRuns'[q] <= MaxTries - 1 + crashes'
    BY DEF RunsCounted, BoundedRetries
  <2>1. autoRuns[q] \in Nat /\ attempt[q] \in Nat /\ crashes \in Nat
    BY BoundsAssumption DEF IInv, TypeOK
  <2>2. attempt'[q] = attempt[q] /\ crashes' = crashes
    BY DEF CreateRun, row
  <2>3. CASE q = p /\ next[p] = "recreate"
    <3>1. attempt[q] \in 1 .. 2
      BY <2>3 DEF IInv, Counted, MaxTries
    <3>2. autoRuns'[q] = autoRuns[q] + 1 /\ next'[q] = "relink"
      BY <2>3 DEF IInv, TypeOK, CreateRun, Then
    <3>3. autoRuns[q] = 0 \/ autoRuns[q] < attempt[q] + crashes
      BY <2>3 DEF IInv, RunsCounted
    <3> QED BY <2>1, <2>2, <3>1, <3>2, <3>3 DEF MaxTries
  <2>4. CASE ~(q = p /\ next[p] = "recreate")
    <3>1. autoRuns'[q] = autoRuns[q] /\ (next'[q] = next[q] \/ next[q] = "create")
      BY <2>4 DEF IInv, TypeOK, CreateRun, Then
    <3> QED BY <2>1, <2>2, <3>1 DEF IInv, RunsCounted, BoundedRetries
  <2> QED BY <2>3, <2>4
<1>4. RunOrder'
  BY BoundsAssumption DEF IInv, CreateRun, Then, row, job, TypeOK, RunOrder
<1>5. AwaitingHasActions' /\ VerifiedByTest'
  BY NoReportAssumption DEF IInv, CreateRun, Then, row, job, TypeOK, Counted,
        AwaitingHasActions, VerifiedByTest
<1> QED BY <1>1, <1>2, <1>3, <1>4, <1>5 DEF IInv

LEMMA CreateRunFailsInv ==
  ASSUME IInv, NEW p \in Reports, CreateRunFails(p)
  PROVE  IInv'
<1>1. TypeOK'
  BY NoReportAssumption, BoundsAssumption DEF IInv, CreateRunFails, Then, row,
        agent, job, seen, TypeOK, Counted, Statuses, Diagnoses
<1>2. Counted'
  BY NoReportAssumption DEF IInv, CreateRunFails, Then, row, agent, job, seen,
        TypeOK, Counted, MaxTries
<1>3. RunsCounted' /\ BoundedRetries'
  BY BoundsAssumption DEF IInv, CreateRunFails, Then, row, agent, job, seen,
        TypeOK, Counted, RunsCounted, BoundedRetries, MaxTries
<1>4. RunOrder'
  BY BoundsAssumption DEF IInv, CreateRunFails, Then, row, agent, job, seen,
        TypeOK, RunOrder
<1>5. AwaitingHasActions' /\ VerifiedByTest'
  BY NoReportAssumption DEF IInv, CreateRunFails, Then, row, agent, job, seen,
        TypeOK, Counted, AwaitingHasActions, VerifiedByTest
<1> QED BY <1>1, <1>2, <1>3, <1>4, <1>5 DEF IInv

LEMMA LinkRunInv ==
  ASSUME IInv, NEW p \in Reports, LinkRun(p)
  PROVE  IInv'
<1>1. TypeOK'
  BY NoReportAssumption, BoundsAssumption DEF IInv, LinkRun, Then, agent, job,
        seen, TypeOK, Counted, Statuses, Diagnoses
<1>2. Counted'
  BY NoReportAssumption DEF IInv, LinkRun, Then, agent, job, seen, TypeOK,
        Counted, MaxTries
<1>3. RunsCounted' /\ BoundedRetries'
  BY BoundsAssumption DEF IInv, LinkRun, Then, agent, job, seen, TypeOK,
        Counted, RunsCounted, BoundedRetries, MaxTries
<1>4. RunOrder'
  BY BoundsAssumption DEF IInv, LinkRun, Then, agent, job, seen, TypeOK,
        RunOrder
<1>5. AwaitingHasActions' /\ VerifiedByTest'
  BY NoReportAssumption DEF IInv, LinkRun, Then, agent, job, seen, TypeOK,
        Counted, AwaitingHasActions, VerifiedByTest
<1> QED BY <1>1, <1>2, <1>3, <1>4, <1>5 DEF IInv

LEMMA RunSucceedsInv ==
  ASSUME IInv, NEW i \in 1 .. MaxRuns, RunSucceeds(i)
  PROVE  IInv'
<1>1. TypeOK'
  BY NoReportAssumption, BoundsAssumption DEF IInv, RunSucceeds, Quiet, row,
        job, seen, TypeOK, Counted, Statuses, Diagnoses
<1>2. Counted'
  BY NoReportAssumption DEF IInv, RunSucceeds, Quiet, row, job, seen, TypeOK,
        Counted, MaxTries
<1>3. RunsCounted' /\ BoundedRetries'
  BY BoundsAssumption DEF IInv, RunSucceeds, Quiet, row, job, seen, TypeOK,
        Counted, RunsCounted, BoundedRetries, MaxTries
<1>4. RunOrder'
  BY BoundsAssumption DEF IInv, RunSucceeds, Quiet, row, job, seen, TypeOK,
        RunOrder
<1>5. AwaitingHasActions' /\ VerifiedByTest'
  BY NoReportAssumption DEF IInv, RunSucceeds, Quiet, row, job, seen, TypeOK,
        Counted, AwaitingHasActions, VerifiedByTest
<1> QED BY <1>1, <1>2, <1>3, <1>4, <1>5 DEF IInv

LEMMA RunDiesInv ==
  ASSUME IInv, NEW i \in 1 .. MaxRuns, RunDies(i)
  PROVE  IInv'
<1>1. TypeOK'
  BY NoReportAssumption, BoundsAssumption DEF IInv, RunDies, Quiet, row, job,
        seen, TypeOK, Counted, Statuses, Diagnoses
<1>2. Counted'
  BY NoReportAssumption DEF IInv, RunDies, Quiet, row, job, seen, TypeOK,
        Counted, MaxTries
<1>3. RunsCounted' /\ BoundedRetries'
  BY BoundsAssumption DEF IInv, RunDies, Quiet, row, job, seen, TypeOK,
        Counted, RunsCounted, BoundedRetries, MaxTries
<1>4. RunOrder'
  BY BoundsAssumption DEF IInv, RunDies, Quiet, row, job, seen, TypeOK,
        RunOrder
<1>5. AwaitingHasActions' /\ VerifiedByTest'
  BY NoReportAssumption DEF IInv, RunDies, Quiet, row, job, seen, TypeOK,
        Counted, AwaitingHasActions, VerifiedByTest
<1> QED BY <1>1, <1>2, <1>3, <1>4, <1>5 DEF IInv

LEMMA HookFindsNoReportInv ==
  ASSUME IInv, HookFindsNoReport
  PROVE  IInv'
<1>1. TypeOK'
  BY NoReportAssumption, BoundsAssumption DEF IInv, HookFindsNoReport,
        Waiting, Unhooked, row, agent, job, seen, TypeOK, Counted, Statuses,
        Diagnoses
<1>2. Counted'
  BY NoReportAssumption DEF IInv, HookFindsNoReport, Waiting, Unhooked, row,
        agent, job, seen, TypeOK, Counted, MaxTries
<1>3. RunsCounted' /\ BoundedRetries'
  BY BoundsAssumption DEF IInv, HookFindsNoReport, Waiting, Unhooked, row,
        agent, job, seen, TypeOK, Counted, RunsCounted, BoundedRetries,
        MaxTries
<1>4. RunOrder'
  BY BoundsAssumption DEF IInv, HookFindsNoReport, Waiting, Unhooked, row,
        agent, job, seen, TypeOK, RunOrder
<1>5. AwaitingHasActions' /\ VerifiedByTest'
  BY NoReportAssumption DEF IInv, HookFindsNoReport, Waiting, Unhooked, row,
        agent, job, seen, TypeOK, Counted, AwaitingHasActions, VerifiedByTest
<1> QED BY <1>1, <1>2, <1>3, <1>4, <1>5 DEF IInv

LEMMA HookCannotParseInv ==
  ASSUME IInv, NEW p \in Reports, HookCannotParse(p)
  PROVE  IInv'
<1>1. TypeOK'
  BY NoReportAssumption, BoundsAssumption, SMTT(20) DEF IInv, HookCannotParse, Patch,
        Waiting, Unhooked, row, agent, job, seen, TypeOK, Counted, Statuses,
        Diagnoses
<1>2. Counted'
  BY NoReportAssumption DEF IInv, HookCannotParse, Patch, Waiting, Unhooked,
        row, agent, job, seen, TypeOK, Counted, MaxTries
<1>3. RunsCounted' /\ BoundedRetries'
  BY BoundsAssumption DEF IInv, HookCannotParse, Patch, Waiting, Unhooked,
        row, agent, job, seen, TypeOK, Counted, RunsCounted, BoundedRetries,
        MaxTries
<1>4. RunOrder'
  BY BoundsAssumption DEF IInv, HookCannotParse, Patch, Waiting, Unhooked,
        row, agent, job, seen, TypeOK, RunOrder
<1>5. AwaitingHasActions' /\ VerifiedByTest'
  BY NoReportAssumption DEF IInv, HookCannotParse, Patch, Waiting, Unhooked,
        row, agent, job, seen, TypeOK, Counted, AwaitingHasActions,
        VerifiedByTest
<1> QED BY <1>1, <1>2, <1>3, <1>4, <1>5 DEF IInv

LEMMA AttachInv ==
  ASSUME IInv, NEW p \in Reports, NEW d \in Diagnoses, NEW n \in 0 .. MaxActions, Attach(p, d, n)
  PROVE  IInv'
<1>1. TypeOK'
  BY NoReportAssumption, BoundsAssumption DEF IInv, Attach, Patch, Waiting,
        Unhooked, agent, job, seen, TypeOK, Counted, Statuses, Diagnoses
<1>2. Counted'
  BY NoReportAssumption DEF IInv, Attach, Patch, Waiting, Unhooked, agent,
        job, seen, TypeOK, Counted, MaxTries
<1>3. RunsCounted' /\ BoundedRetries'
  BY BoundsAssumption DEF IInv, Attach, Patch, Waiting, Unhooked, agent, job,
        seen, TypeOK, Counted, RunsCounted, BoundedRetries, MaxTries
<1>4. RunOrder'
  BY BoundsAssumption DEF IInv, Attach, Patch, Waiting, Unhooked, agent, job,
        seen, TypeOK, RunOrder
<1>5. AwaitingHasActions' /\ VerifiedByTest'
  BY NoReportAssumption DEF IInv, Attach, Patch, Waiting, Unhooked, agent,
        job, seen, TypeOK, Counted, AwaitingHasActions, VerifiedByTest
<1> QED BY <1>1, <1>2, <1>3, <1>4, <1>5 DEF IInv

LEMMA ApplyToNoEffectInv ==
  ASSUME IInv, NEW p \in Reports, ApplyToNoEffect(p)
  PROVE  IInv'
<1>1. TypeOK'
  BY NoReportAssumption, BoundsAssumption DEF IInv, ApplyToNoEffect, Apply,
        Patch, Quiet, row, agent, job, seen, TypeOK, Counted, Statuses,
        Diagnoses
<1>2. Counted'
  BY NoReportAssumption DEF IInv, ApplyToNoEffect, Apply, Patch, Quiet, row,
        agent, job, seen, TypeOK, Counted, MaxTries
<1>3. RunsCounted' /\ BoundedRetries'
  BY BoundsAssumption DEF IInv, ApplyToNoEffect, Apply, Patch, Quiet, row,
        agent, job, seen, TypeOK, Counted, RunsCounted, BoundedRetries,
        MaxTries
<1>4. RunOrder'
  BY BoundsAssumption DEF IInv, ApplyToNoEffect, Apply, Patch, Quiet, row,
        agent, job, seen, TypeOK, RunOrder
<1>5. AwaitingHasActions' /\ VerifiedByTest'
  BY NoReportAssumption DEF IInv, ApplyToNoEffect, Apply, Patch, Quiet, row,
        agent, job, seen, TypeOK, Counted, AwaitingHasActions, VerifiedByTest
<1> QED BY <1>1, <1>2, <1>3, <1>4, <1>5 DEF IInv

LEMMA ApplyFilesInv ==
  ASSUME IInv, NEW p \in Reports, NEW j \in Jobs, ApplyFiles(j, p)
  PROVE  IInv'
<1>1. TypeOK'
  BY NoReportAssumption, BoundsAssumption DEF IInv, ApplyFiles, Apply, Take,
        Patch, Quiet, row, agent, seen, TypeOK, Counted, Statuses, Diagnoses
<1>2. Counted'
  BY NoReportAssumption DEF IInv, ApplyFiles, Apply, Take, Patch, Quiet, row,
        agent, seen, TypeOK, Counted, MaxTries
<1>3. RunsCounted' /\ BoundedRetries'
  BY BoundsAssumption DEF IInv, ApplyFiles, Apply, Take, Patch, Quiet, row,
        agent, seen, TypeOK, Counted, RunsCounted, BoundedRetries, MaxTries
<1>4. RunOrder'
  BY BoundsAssumption DEF IInv, ApplyFiles, Apply, Take, Patch, Quiet, row,
        agent, seen, TypeOK, RunOrder
<1>5. AwaitingHasActions' /\ VerifiedByTest'
  BY NoReportAssumption DEF IInv, ApplyFiles, Apply, Take, Patch, Quiet, row,
        agent, seen, TypeOK, Counted, AwaitingHasActions, VerifiedByTest
<1> QED BY <1>1, <1>2, <1>3, <1>4, <1>5 DEF IInv

LEMMA ApplySqlInv ==
  ASSUME IInv, NEW p \in Reports, NEW j \in Jobs, ApplySql(j, p)
  PROVE  IInv'
<1>1. TypeOK'
  BY NoReportAssumption, BoundsAssumption DEF IInv, ApplySql, Apply, Take,
        Patch, Quiet, row, agent, seen, TypeOK, Counted, Statuses, Diagnoses
<1>2. Counted'
  BY NoReportAssumption DEF IInv, ApplySql, Apply, Take, Patch, Quiet, row,
        agent, seen, TypeOK, Counted, MaxTries
<1>3. RunsCounted' /\ BoundedRetries'
  BY BoundsAssumption DEF IInv, ApplySql, Apply, Take, Patch, Quiet, row,
        agent, seen, TypeOK, Counted, RunsCounted, BoundedRetries, MaxTries
<1>4. RunOrder'
  BY BoundsAssumption DEF IInv, ApplySql, Apply, Take, Patch, Quiet, row,
        agent, seen, TypeOK, RunOrder
<1>5. AwaitingHasActions' /\ VerifiedByTest'
  BY NoReportAssumption DEF IInv, ApplySql, Apply, Take, Patch, Quiet, row,
        agent, seen, TypeOK, Counted, AwaitingHasActions, VerifiedByTest
<1> QED BY <1>1, <1>2, <1>3, <1>4, <1>5 DEF IInv

LEMMA SqlAppliedInv ==
  ASSUME IInv, NEW j \in Jobs, SqlApplied(j)
  PROVE  IInv'
<1>1. TypeOK'
  BY NoReportAssumption, BoundsAssumption DEF IInv, SqlApplied, Patch, Quiet,
        row, agent, seen, TypeOK, Counted, Statuses, Diagnoses
<1>2. Counted'
  BY NoReportAssumption DEF IInv, SqlApplied, Patch, Quiet, row, agent, seen,
        TypeOK, Counted, MaxTries
<1>3. RunsCounted' /\ BoundedRetries'
  BY BoundsAssumption DEF IInv, SqlApplied, Patch, Quiet, row, agent, seen,
        TypeOK, Counted, RunsCounted, BoundedRetries, MaxTries
<1>4. RunOrder'
  BY BoundsAssumption DEF IInv, SqlApplied, Patch, Quiet, row, agent, seen,
        TypeOK, RunOrder
<1>5. AwaitingHasActions' /\ VerifiedByTest'
  BY NoReportAssumption DEF IInv, SqlApplied, Patch, Quiet, row, agent, seen,
        TypeOK, Counted, AwaitingHasActions, VerifiedByTest
<1> QED BY <1>1, <1>2, <1>3, <1>4, <1>5 DEF IInv

LEMMA SqlAppliedNoTestInv ==
  ASSUME IInv, NEW j \in Jobs, SqlAppliedNoTest(j)
  PROVE  IInv'
<1>1. TypeOK'
  BY NoReportAssumption, BoundsAssumption DEF IInv, SqlAppliedNoTest, Release,
        Quiet, row, agent, seen, TypeOK, Counted, Statuses, Diagnoses
<1>2. Counted'
  BY NoReportAssumption DEF IInv, SqlAppliedNoTest, Release, Quiet, row,
        agent, seen, TypeOK, Counted, MaxTries
<1>3. RunsCounted' /\ BoundedRetries'
  BY BoundsAssumption DEF IInv, SqlAppliedNoTest, Release, Quiet, row, agent,
        seen, TypeOK, Counted, RunsCounted, BoundedRetries, MaxTries
<1>4. RunOrder'
  BY BoundsAssumption DEF IInv, SqlAppliedNoTest, Release, Quiet, row, agent,
        seen, TypeOK, RunOrder
<1>5. AwaitingHasActions' /\ VerifiedByTest'
  BY NoReportAssumption DEF IInv, SqlAppliedNoTest, Release, Quiet, row,
        agent, seen, TypeOK, Counted, AwaitingHasActions, VerifiedByTest
<1> QED BY <1>1, <1>2, <1>3, <1>4, <1>5 DEF IInv

LEMMA SqlFailsInv ==
  ASSUME IInv, NEW j \in Jobs, SqlFails(j)
  PROVE  IInv'
<1>1. TypeOK'
  BY NoReportAssumption, BoundsAssumption DEF IInv, SqlFails, Release, Patch,
        Quiet, agent, seen, TypeOK, Counted, Statuses, Diagnoses
<1>2. Counted'
  BY NoReportAssumption DEF IInv, SqlFails, Release, Patch, Quiet, agent,
        seen, TypeOK, Counted, MaxTries
<1>3. RunsCounted' /\ BoundedRetries'
  BY BoundsAssumption DEF IInv, SqlFails, Release, Patch, Quiet, agent, seen,
        TypeOK, Counted, RunsCounted, BoundedRetries, MaxTries
<1>4. RunOrder'
  BY BoundsAssumption DEF IInv, SqlFails, Release, Patch, Quiet, agent, seen,
        TypeOK, RunOrder
<1>5. AwaitingHasActions' /\ VerifiedByTest'
  BY NoReportAssumption DEF IInv, SqlFails, Release, Patch, Quiet, agent,
        seen, TypeOK, Counted, AwaitingHasActions, VerifiedByTest
<1> QED BY <1>1, <1>2, <1>3, <1>4, <1>5 DEF IInv

LEMMA McpUnavailableInv ==
  ASSUME IInv, NEW j \in Jobs, NEW n \in 1 .. MaxActions, McpUnavailable(j, n)
  PROVE  IInv'
<1>1. TypeOK'
  BY NoReportAssumption, BoundsAssumption, SMTT(20) DEF IInv, McpUnavailable, Release,
        Patch, Quiet, agent, seen, TypeOK, Counted, Statuses, Diagnoses
<1>2. Counted'
  BY NoReportAssumption DEF IInv, McpUnavailable, Release, Patch, Quiet,
        agent, seen, TypeOK, Counted, MaxTries
<1>3. RunsCounted' /\ BoundedRetries'
  BY BoundsAssumption DEF IInv, McpUnavailable, Release, Patch, Quiet, agent,
        seen, TypeOK, Counted, RunsCounted, BoundedRetries, MaxTries
<1>4. RunOrder'
  BY BoundsAssumption DEF IInv, McpUnavailable, Release, Patch, Quiet, agent,
        seen, TypeOK, RunOrder
<1>5. AwaitingHasActions' /\ VerifiedByTest'
  BY NoReportAssumption DEF IInv, McpUnavailable, Release, Patch, Quiet,
        agent, seen, TypeOK, Counted, AwaitingHasActions, VerifiedByTest
<1> QED BY <1>1, <1>2, <1>3, <1>4, <1>5 DEF IInv

LEMMA TestOutcomeInv ==
  ASSUME IInv, NEW j \in Jobs, NEW passed \in BOOLEAN, TestOutcome(j, passed)
  PROVE  IInv'
<1>1. TypeOK'
  BY NoReportAssumption, BoundsAssumption DEF IInv, TestOutcome, Release,
        Verdict, Patch, Then, Quiet, agent, MaxTries, TypeOK, Counted,
        Statuses, Diagnoses
<1>2. Counted'
  BY NoReportAssumption DEF IInv, TestOutcome, Release, Verdict, Patch, Then,
        Quiet, agent, MaxTries, TypeOK, Counted
<1>3. RunsCounted' /\ BoundedRetries'
  BY BoundsAssumption DEF IInv, TestOutcome, Release, Verdict, Patch, Then,
        Quiet, agent, MaxTries, TypeOK, Counted, RunsCounted, BoundedRetries
<1>4. RunOrder'
  BY BoundsAssumption DEF IInv, TestOutcome, Release, Verdict, Patch, Then,
        Quiet, agent, MaxTries, TypeOK, RunOrder
<1>5. AwaitingHasActions' /\ VerifiedByTest'
  BY NoReportAssumption DEF IInv, TestOutcome, Release, Verdict, Patch, Then,
        Quiet, agent, MaxTries, TypeOK, Counted, AwaitingHasActions,
        VerifiedByTest
<1> QED BY <1>1, <1>2, <1>3, <1>4, <1>5 DEF IInv

LEMMA ActionDoneInv ==
  ASSUME IInv, NEW p \in Reports, ActionDone(p)
  PROVE  IInv'
<1>1. TypeOK'
  BY NoReportAssumption, BoundsAssumption DEF IInv, ActionDone, Patch, Quiet,
        agent, job, seen, TypeOK, Counted, Statuses, Diagnoses
<1>2. Counted'
  BY NoReportAssumption DEF IInv, ActionDone, Patch, Quiet, agent, job, seen,
        TypeOK, Counted, MaxTries
<1>3. RunsCounted' /\ BoundedRetries'
  BY BoundsAssumption DEF IInv, ActionDone, Patch, Quiet, agent, job, seen,
        TypeOK, Counted, RunsCounted, BoundedRetries, MaxTries
<1>4. RunOrder'
  BY BoundsAssumption DEF IInv, ActionDone, Patch, Quiet, agent, job, seen,
        TypeOK, RunOrder
<1>5. AwaitingHasActions' /\ VerifiedByTest'
  BY NoReportAssumption, SMTT(20) DEF IInv, ActionDone, Patch, Quiet, agent, job, seen,
        TypeOK, Counted, AwaitingHasActions, VerifiedByTest
<1> QED BY <1>1, <1>2, <1>3, <1>4, <1>5 DEF IInv

LEMMA ConfirmInv ==
  ASSUME IInv, NEW p \in Reports, Confirm(p)
  PROVE  IInv'
<1>1. TypeOK'
  BY NoReportAssumption, BoundsAssumption DEF IInv, Confirm, Patch, Quiet,
        row, agent, job, seen, TypeOK, Counted, Statuses, Diagnoses
<1>2. Counted'
  BY NoReportAssumption DEF IInv, Confirm, Patch, Quiet, row, agent, job,
        seen, TypeOK, Counted, MaxTries
<1>3. RunsCounted' /\ BoundedRetries'
  BY BoundsAssumption DEF IInv, Confirm, Patch, Quiet, row, agent, job, seen,
        TypeOK, Counted, RunsCounted, BoundedRetries, MaxTries
<1>4. RunOrder'
  BY BoundsAssumption DEF IInv, Confirm, Patch, Quiet, row, agent, job, seen,
        TypeOK, RunOrder
<1>5. AwaitingHasActions' /\ VerifiedByTest'
  BY NoReportAssumption DEF IInv, Confirm, Patch, Quiet, row, agent, job,
        seen, TypeOK, Counted, AwaitingHasActions, VerifiedByTest
<1> QED BY <1>1, <1>2, <1>3, <1>4, <1>5 DEF IInv

LEMMA DismissInv ==
  ASSUME IInv, NEW p \in Reports, Dismiss(p)
  PROVE  IInv'
<1>1. TypeOK'
  BY NoReportAssumption, BoundsAssumption DEF IInv, Dismiss, Patch, Quiet,
        row, agent, job, seen, Closed, TypeOK, Counted, Statuses, Diagnoses
<1>2. Counted'
  BY NoReportAssumption DEF IInv, Dismiss, Patch, Quiet, row, agent, job,
        seen, Closed, TypeOK, Counted, MaxTries
<1>3. RunsCounted' /\ BoundedRetries'
  BY BoundsAssumption DEF IInv, Dismiss, Patch, Quiet, row, agent, job, seen,
        Closed, TypeOK, Counted, RunsCounted, BoundedRetries, MaxTries
<1>4. RunOrder'
  BY BoundsAssumption DEF IInv, Dismiss, Patch, Quiet, row, agent, job, seen,
        Closed, TypeOK, RunOrder
<1>5. AwaitingHasActions' /\ VerifiedByTest'
  BY NoReportAssumption DEF IInv, Dismiss, Patch, Quiet, row, agent, job,
        seen, Closed, TypeOK, Counted, AwaitingHasActions, VerifiedByTest
<1> QED BY <1>1, <1>2, <1>3, <1>4, <1>5 DEF IInv

LEMMA AgeInv ==
  ASSUME IInv, NEW p \in Reports, Age(p)
  PROVE  IInv'
<1>1. TypeOK'
  BY NoReportAssumption, BoundsAssumption DEF IInv, Age, Quiet, row, agent,
        job, seen, TypeOK, Counted, Statuses, Diagnoses
<1>2. Counted'
  BY NoReportAssumption DEF IInv, Age, Quiet, row, agent, job, seen, TypeOK,
        Counted, MaxTries
<1>3. RunsCounted' /\ BoundedRetries'
  BY BoundsAssumption DEF IInv, Age, Quiet, row, agent, job, seen, TypeOK,
        Counted, RunsCounted, BoundedRetries, MaxTries
<1>4. RunOrder'
  BY BoundsAssumption DEF IInv, Age, Quiet, row, agent, job, seen, TypeOK,
        RunOrder
<1>5. AwaitingHasActions' /\ VerifiedByTest'
  BY NoReportAssumption DEF IInv, Age, Quiet, row, agent, job, seen, TypeOK,
        Counted, AwaitingHasActions, VerifiedByTest
<1> QED BY <1>1, <1>2, <1>3, <1>4, <1>5 DEF IInv

LEMMA ReapInv ==
  ASSUME IInv, NEW p \in Reports, Reap(p)
  PROVE  IInv'
<1>1. TypeOK'
  BY NoReportAssumption, BoundsAssumption DEF IInv, Reap, Patch, Quiet, agent,
        job, seen, TypeOK, Counted, Statuses, Diagnoses
<1>2. Counted'
  BY NoReportAssumption DEF IInv, Reap, Patch, Quiet, agent, job, seen,
        TypeOK, Counted, MaxTries
<1>3. RunsCounted' /\ BoundedRetries'
  BY BoundsAssumption DEF IInv, Reap, Patch, Quiet, agent, job, seen, TypeOK,
        Counted, RunsCounted, BoundedRetries, MaxTries
<1>4. RunOrder'
  BY BoundsAssumption DEF IInv, Reap, Patch, Quiet, agent, job, seen, TypeOK,
        RunOrder
<1>5. AwaitingHasActions' /\ VerifiedByTest'
  BY NoReportAssumption DEF IInv, Reap, Patch, Quiet, agent, job, seen,
        TypeOK, Counted, AwaitingHasActions, VerifiedByTest
<1> QED BY <1>1, <1>2, <1>3, <1>4, <1>5 DEF IInv

LEMMA RestartInv ==
  ASSUME IInv, Restart
  PROVE  IInv'
<1>1. TypeOK'
  BY NoReportAssumption, BoundsAssumption DEF IInv, Restart, row, agent,
        TypeOK, Counted, Statuses, Diagnoses
<1>2. Counted'
  BY NoReportAssumption DEF IInv, Restart, row, agent, TypeOK, Counted,
        MaxTries
<1>3. RunsCounted' /\ BoundedRetries'
  <2> SUFFICES ASSUME NEW q \in Reports
      PROVE  /\ \/ autoRuns'[q] = 0
                \/ autoRuns'[q] < attempt'[q] + crashes'
                \/ /\ next'[q] \in {"relink", "remark"}
                   /\ autoRuns'[q] <= attempt'[q] + crashes'
             /\ autoRuns'[q] <= MaxTries - 1 + crashes'
    BY DEF RunsCounted, BoundedRetries
  <2>1. autoRuns[q] \in Nat /\ attempt[q] \in Nat /\ crashes \in Nat
    BY BoundsAssumption DEF IInv, TypeOK
  <2>2. autoRuns'[q] = autoRuns[q] /\ attempt'[q] = attempt[q] /\ crashes' = crashes + 1
    BY DEF Restart, row
  <2>3. autoRuns[q] = 0 \/ autoRuns[q] <= attempt[q] + crashes
    BY <2>1 DEF IInv, RunsCounted
  <2>4. autoRuns[q] <= MaxTries - 1 + crashes
    BY DEF IInv, BoundedRetries
  <2> QED BY <2>1, <2>2, <2>3, <2>4 DEF MaxTries
<1>4. RunOrder'
  BY BoundsAssumption DEF IInv, Restart, row, agent, TypeOK, RunOrder
<1>5. AwaitingHasActions' /\ VerifiedByTest'
  BY NoReportAssumption DEF IInv, Restart, row, agent, TypeOK, Counted,
        AwaitingHasActions, VerifiedByTest
<1> QED BY <1>1, <1>2, <1>3, <1>4, <1>5 DEF IInv

LEMMA StutterInv == ASSUME IInv, UNCHANGED vars PROVE IInv'
BY DEF IInv, vars, row, agent, job, seen, TypeOK, Counted, RunsCounted, RunOrder,
       AwaitingHasActions, BoundedRetries, VerifiedByTest

LEMMA NextInv == ASSUME IInv, [Next]_vars PROVE IInv'
<1>1. CASE \E p \in Reports : Operator(p) \/ Proceed(p) \/ Age(p) \/ Reap(p)
  <2>1. PICK p \in Reports : Operator(p) \/ Proceed(p) \/ Age(p) \/ Reap(p)
    BY <1>1
  <2>2. CASE Operator(p)
    BY <2>2, ReportInv, RediagnoseInv, ApplyToNoEffectInv, ApplyFilesInv, ApplySqlInv,
       ActionDoneInv, ConfirmInv, DismissInv DEF Operator
  <2>3. CASE Proceed(p)
    BY <2>3, MarkInv, CreateRunInv, CreateRunFailsInv, LinkRunInv DEF Proceed
  <2> QED BY <2>1, <2>2, <2>3, AgeInv, ReapInv
<1>2. CASE \E i \in 1 .. MaxRuns : RunSucceeds(i) \/ RunDies(i)
  BY <1>2, RunSucceedsInv, RunDiesInv
<1>3. CASE Hook
  BY <1>3, HookFindsNoReportInv, HookCannotParseInv, AttachInv DEF Hook
<1>4. CASE \E j \in Jobs : JobStep(j)
  BY <1>4, SqlAppliedInv, SqlAppliedNoTestInv, SqlFailsInv, McpUnavailableInv,
     TestOutcomeInv DEF JobStep
<1>5. CASE Restart
  BY <1>5, RestartInv
<1>6. CASE UNCHANGED vars
  BY <1>6, StutterInv
<1> QED BY <1>1, <1>2, <1>3, <1>4, <1>5, <1>6 DEF Next

(* The inductive invariant holds in every reachable state of the loop.     *)
THEOREM Invariant == Spec => []IInv
BY InitInv, NextInv, PTL DEF Spec

---------------------------------------------------------------------------
(* The variables of the loop keep their types.                             *)
THEOREM TypeCorrect == Spec => []TypeOK
BY Invariant, PTL DEF IInv

(* A report awaiting the operator always has something for him to do.      *)
THEOREM AwaitingHasActionsHolds == Spec => []AwaitingHasActions
BY Invariant, PTL DEF IInv

(* Failing tests queue at most two more runs per report, plus one for each *)
(* crash.                                                                  *)
THEOREM BoundedRetriesHolds == Spec => []BoundedRetries
BY Invariant, PTL DEF IInv

(* Verified and resolved reports have a passed test behind them.           *)
THEOREM VerifiedByTestHolds == Spec => []VerifiedByTest
BY Invariant, PTL DEF IInv

LEMMA DiagRunStep ==
  ASSUME IInv, [Next]_vars, NEW p \in Reports PROVE diagRun'[p] >= diagRun[p]
<1>1. diagRun[p] \in Nat
  BY BoundsAssumption DEF IInv, TypeOK
<1>2. CASE UNCHANGED diagRun
  BY <1>1, <1>2
<1>3. CASE \E q \in Reports, d \in Diagnoses \ {"none"}, n \in 0 .. MaxActions : Attach(q, d, n)
  <2>1. PICK q \in Reports, d \in Diagnoses \ {"none"}, n \in 0 .. MaxActions : Attach(q, d, n)
    BY <1>3
  <2>2. diagRun[q] <= hook /\ hook \in Nat
    BY <2>1, BoundsAssumption DEF IInv, RunOrder, TypeOK, Attach, Waiting
  <2> QED BY <1>1, <2>1, <2>2 DEF Attach, IInv, TypeOK
<1>4. CASE ~(\E q \in Reports, d \in Diagnoses \ {"none"}, n \in 0 .. MaxActions : Attach(q, d, n))
  <2>1. UNCHANGED diagRun
    BY <1>4 DEF Next, vars, Operator, Proceed, Hook, JobStep, Report, Rediagnose,
       MarkDiagnosing, Mark, CreateRun, CreateRunFails, LinkRun, RunSucceeds, RunDies,
       HookFindsNoReport, HookCannotParse, Apply, ApplyToNoEffect, ApplyFiles, ApplySql,
       SqlApplied, SqlAppliedNoTest, SqlFails, McpUnavailable, TestOutcome, ActionDone,
       Confirm, Dismiss, Age, Reap, Restart, row
  <2> QED BY <1>1, <2>1
<1> QED BY <1>3, <1>4

(* However late a superseded run reports, its diagnosis is not taken.      *)
THEOREM DiagnosisNeverRegressesHolds == Spec => DiagnosisNeverRegresses
<1>1. ASSUME IInv, [Next]_vars
      PROVE  [\A p \in Reports : diagRun'[p] >= diagRun[p]]_diagRun
  BY <1>1, DiagRunStep
<1> QED BY <1>1, Invariant, PTL DEF Spec, DiagnosisNeverRegresses
====
