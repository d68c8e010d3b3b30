---- MODULE MCTroubleshoot ----
(* Small instances of the troubleshooter loop for TLC. *)
EXTENDS Troubleshoot, TLC
CONSTANTS p1, p2, j1, j2
OneReport == {p1}
TwoReports == {p1, p2}
OneJob == {j1}
TwoJobs == {j1, j2}
JobSymmetry == Permutations(TwoJobs)
ReportSymmetry == Permutations(TwoReports)
====
