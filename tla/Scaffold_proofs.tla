---- MODULE Scaffold_proofs ----
(***************************************************************************)
(* What holds of the scaffold for every manifest, every number of runs,    *)
(* every length of the history and all bounds on repairs and deaths.       *)
(***************************************************************************)
EXTENDS Scaffold, SequenceTheorems, TLAPS

Row == [id : Attempts \cup {"none"}, at : {0} \cup Plan, steps : [Plan -> Statuses],
        written : BOOLEAN, error : BOOLEAN, outcome : {"none", "succeeded", "failed", "lost"}]

Sheet == [of : Attempts \cup {"none"}, running : BOOLEAN, done : BOOLEAN, error : BOOLEAN,
          steps : [Plan -> Statuses], asked : BOOLEAN, last : Row, cow : BOOLEAN,
          mixed : BOOLEAN, cleared : BOOLEAN]

Final == {"succeeded", "failed"}

(* A run that still counts as succeeded has done all it was asked to so    *)
(* far; one that counts as failed shows it in a step or in a message.      *)
Sound(w) ==
    /\ w.outcome = "succeeded" =>
           /\ ~w.error
           /\ w.at = 0 => w.steps = Blank("done") /\ w.written
           /\ w.at # 0 => /\ \A i \in Plan : i < w.at => w.steps[i] = "done"
                          /\ w.at > SetUps => w.written
    /\ w.at # 0 => /\ w.outcome \in Final /\ ~w.error
                   /\ w.steps[w.at] = "running"
                   /\ \A i \in Plan : i > w.at => w.steps[i] = "absent"
    /\ w.outcome = "failed" => w.error \/ \E i \in Plan : w.steps[i] = "failed"

Rows ==
    /\ row \in [Attempts -> Row]
    /\ \A r \in Attempts : /\ Sound(row[r])
                           /\ row[r].outcome = "none" => row[r] = NoRow
                           /\ row[r].outcome # "none" => row[r].id = r

(* What was written down is the row of a run that is over.                 *)
Settled(w, rows) == w.id \in Attempts /\ w = rows[w.id] /\ w.at = 0 /\ w.outcome \in Final

Records ==
    /\ Rows
    /\ history \in Seq(Row) /\ Len(history) <= MaxKept
    /\ \A k \in 1 .. Len(history) : Settled(history[k], row)
    /\ pushedOut \subseteq Attempts
    /\ \A r \in pushedOut : Settled(row[r], row) /\ row[r].id = r /\ r \notin Ids(history)
    /\ NothingLost

(* What the panel shows of the run it follows, as long as neither an old   *)
(* history nor the repair button came in between.                          *)
Shown ==
    /\ sheet.running => /\ ~sheet.error
                        /\ \A i \in Plan : sheet.steps[i] =
                               IF row[sheet.of].steps[i] = "absent" THEN "pending" ELSE row[sheet.of].steps[i]
    /\ ~sheet.running /\ Listed(sheet) =>
           IF HasFailure(sheet) THEN sheet.of \in Attempts /\ row[sheet.of].outcome \in {"failed", "lost"}
           ELSE sheet.of \in Attempts /\ row[sheet.of].outcome = "succeeded"

Panel ==
    /\ sheet \in Sheet
    /\ sheet.running => sheet.of \in Attempts /\ Busy(sheet.of)
    /\ ~sheet.running /\ sheet.of \in Attempts => ~Busy(sheet.of) /\ row[sheet.of].outcome # "none"
    /\ sheet.last.outcome # "none" => Settled(sheet.last, row)
    /\ sheet.of = "none" => ~sheet.running /\ sheet.steps = Blank("absent") /\ ~sheet.error
    /\ sheet.mixed \/ sheet.cleared \/ Shown

IInv ==
    /\ Records
    /\ Panel
    /\ fixer \in {"none", "working", "ok", "gave up"}

-----------------------------------------------------------------------------
(* The history.                                                            *)

(* A full history drops its oldest runs, and nothing else.                 *)
LEMMA KeptKeeps ==
  ASSUME NEW S, NEW seq \in Seq(S), NEW x \in S
  PROVE  /\ Kept(seq, x) \in Seq(S) /\ Len(Kept(seq, x)) <= MaxKept
         /\ \A k \in 1 .. Len(Kept(seq, x)) :
                Kept(seq, x)[k] = x \/ \E j \in 1 .. Len(seq) : Kept(seq, x)[k] = seq[j]
         /\ \E k \in 1 .. Len(Kept(seq, x)) : Kept(seq, x)[k] = x
<1> DEFINE all == Append(seq, x)
           n == Len(seq)
<1>1. /\ all \in Seq(S) /\ Len(all) = n + 1 /\ n \in Nat
      /\ \A k \in 1 .. n : all[k] = seq[k]
      /\ all[n + 1] = x
  BY AppendProperties, LenProperties
<1>2. MaxKept \in Nat \ {0}
  BY ScaffoldBounds
<1>3. CASE n + 1 <= MaxKept
  <2>1. Kept(seq, x) = all
    BY <1>1, <1>2, <1>3 DEF Kept
  <2> QED BY <2>1, <1>1, <1>3
<1>4. CASE n + 1 > MaxKept
  <2> DEFINE cut == SubSeq(all, n + 1 - MaxKept + 1, n + 1)
  <2>1. Kept(seq, x) = cut
    BY <1>1, <1>2, <1>4 DEF Kept
  <2>2. /\ cut \in Seq(S) /\ Len(cut) = MaxKept
        /\ \A k \in 1 .. MaxKept : cut[k] = all[n + 1 - MaxKept + k]
    <3>1. n + 1 - MaxKept + 1 \in 1 .. n + 1 /\ n + 1 \in 1 .. n + 1
      BY <1>1, <1>2, <1>4
    <3>2. \A i \in 1 .. n + 1 : all[i] \in S
      BY <1>1, ElementOfSeq
    <3> HIDE DEF all
    <3> QED BY <3>1, <3>2, <1>1, <1>2, SubSeqProperties
  <2>3. \A k \in 1 .. MaxKept : n + 1 - MaxKept + k \in 1 .. n + 1
    BY <1>1, <1>2, <1>4
  <2> HIDE DEF cut, all
  <2>4. \A k \in 1 .. MaxKept : cut[k] = x \/ \E j \in 1 .. n : cut[k] = seq[j]
    <3>1. \A i \in 1 .. n + 1 : all[i] = x \/ \E j \in 1 .. n : all[i] = seq[j]
      BY <1>1
    <3> QED BY <2>2, <2>3, <3>1
  <2>5. MaxKept \in 1 .. MaxKept /\ cut[MaxKept] = x
    <3>1. n + 1 - MaxKept + MaxKept = n + 1
      BY <1>1, <1>2
    <3> QED BY <2>2, <1>1, <1>2, <3>1
  <2> QED BY <2>1, <2>2, <2>4, <2>5, <1>2
<1> QED BY <1>1, <1>2, <1>3, <1>4

(* A row that is over is not touched by what other rows do.                *)
LEMMA SettledStays ==
  ASSUME Rows, Rows', NEW w, Settled(w, row),
         \A r \in Attempts : Busy(r) \/ row[r].outcome = "none" \/ row'[r] = row[r]
  PROVE  Settled(w, row')
BY DEF Settled, Final, Busy, Rows

(* A row changes while its run goes on, or never had a step to show.       *)
LEMMA CarryOn ==
  ASSUME Records, Rows', UNCHANGED <<history, pushedOut>>, torn' = torn,
         \A r \in Attempts : row'[r] = row[r] \/ /\ Busy(r) \/ row[r].outcome = "none"
                                                 /\ row'[r].at # 0 \/ row'[r].steps = Blank("absent")
                                                    \/ row'[r].outcome = "lost"
  PROVE  Records'
<1>1. \A k \in 1 .. Len(history) : Settled(history[k], row')
  BY SettledStays DEF Records
<1>2. \A r \in pushedOut : Settled(row[r], row') /\ row'[r] = row[r]
  BY SettledStays DEF Records, Settled, Rows, Busy, Final
<1>3. NothingLost'
  <2>1. \A r \in Attempts :
           row'[r].outcome \in {"succeeded", "failed"} /\ row'[r].at = 0 /\ row'[r].steps # Blank("absent")
               => r \in Ids(history) \cup pushedOut \cup torn
    BY DEF Records, NothingLost
  <2>2. \A k \in 1 .. Len(history) : history[k] = row'[history[k].id]
    BY <1>1 DEF Settled
  <2> QED BY <2>1, <2>2 DEF Records, NothingLost, Ids
<1> QED BY <1>1, <1>2, <1>3 DEF Records, Ids

(* A run that is over is written down.                                     *)
LEMMA WriteDown ==
  ASSUME Records, NEW r \in Attempts, NEW w \in Row,
         w.id = r, w.at = 0, w.outcome \in Final, Sound(w),
         Busy(r) \/ row[r].outcome = "none",
         row' = [row EXCEPT ![r] = w], history' = Kept(history, w),
         pushedOut' = pushedOut \cup (Ids(history) \ Ids(history')), torn' = torn
  PROVE  Records'
<1>1. Rows'
  BY DEF Records, Rows, Final
<1>2. /\ history' \in Seq(Row) /\ Len(history') <= MaxKept
      /\ \A k \in 1 .. Len(history') : history'[k] = w \/ \E j \in 1 .. Len(history) : history'[k] = history[j]
      /\ \E k \in 1 .. Len(history') : history'[k] = w
  <2>1. history \in Seq(Row)
    BY DEF Records
  <2>2. /\ Kept(history, w) \in Seq(Row) /\ Len(Kept(history, w)) <= MaxKept
        /\ \A k \in 1 .. Len(Kept(history, w)) :
               Kept(history, w)[k] = w \/ \E j \in 1 .. Len(history) : Kept(history, w)[k] = history[j]
        /\ \E k \in 1 .. Len(Kept(history, w)) : Kept(history, w)[k] = w
    <3>1. w \in Row
      OBVIOUS
    <3> HIDE DEF Row
    <3> QED BY ONLY <2>1, <3>1, KeptKeeps, ZenonT(60)
  <2> QED BY <2>2
<1>3. \A s \in Attempts : Busy(s) \/ row[s].outcome = "none" \/ row'[s] = row[s]
  BY DEF Records, Rows
<1>4. Settled(w, row') /\ row'[r] = w
  BY DEF Settled, Records, Rows
<1>5. \A k \in 1 .. Len(history') : Settled(history'[k], row')
  <2>1. \A j \in 1 .. Len(history) : Settled(history[j], row')
    BY <1>1, <1>3, SettledStays DEF Records
  <2> QED BY <2>1, <1>2, <1>4
<1>6. \A k \in 1 .. Len(history) : Settled(history[k], row) /\ history[k].id # r
  BY DEF Records, Settled, Busy, Final
<1>7. Ids(history') \subseteq Ids(history) \cup {r} /\ r \in Ids(history')
  BY <1>2 DEF Ids
<1>8. Ids(history) \subseteq Attempts \ {r}
  BY <1>6 DEF Ids, Settled
<1>9. \A s \in pushedOut' : s \in Attempts /\ Settled(row'[s], row') /\ row'[s].id = s /\ s \notin Ids(history')
  <2> SUFFICES ASSUME NEW s \in pushedOut'
               PROVE  s \in Attempts /\ Settled(row'[s], row') /\ row'[s].id = s /\ s \notin Ids(history')
    OBVIOUS
  <2>1. CASE s \in pushedOut
    <3>1. s # r
      BY <2>1 DEF Records, Settled, Busy, Final
    <3>2. Settled(row[s], row')
      BY <2>1, <1>1, <1>3, SettledStays DEF Records
    <3> QED BY <2>1, <3>1, <3>2, <1>7 DEF Records, Rows
  <2>2. CASE s \in Ids(history) \ Ids(history')
    <3>1. PICK k \in 1 .. Len(history) : s = history[k].id
      BY <2>2 DEF Ids
    <3>2. s \in Attempts /\ s # r /\ history[k] = row[s]
      BY <3>1, <1>6 DEF Settled
    <3>3. Settled(history[k], row')
      BY <3>1, <1>1, <1>3, <1>6, SettledStays DEF Records
    <3> QED BY <2>2, <3>1, <3>2, <3>3 DEF Records, Rows
  <2> QED BY <2>1, <2>2
<1>10. NothingLost'
  <2>1. ASSUME NEW s \in Attempts, row'[s].outcome \in {"succeeded", "failed"}, row'[s].at = 0,
               row'[s].steps # Blank("absent")
        PROVE  s \in Ids(history') \cup pushedOut' \cup torn'
    <3>1. CASE s = r
      BY <3>1, <1>7
    <3>2. CASE s # r
      <4>1. row'[s] = row[s]
        BY <3>2 DEF Records, Rows
      <4>2. s \in Ids(history) \cup pushedOut \cup torn
        BY <4>1, <2>1 DEF Records, NothingLost
      <4> QED BY <4>2
    <3> QED BY <3>1, <3>2
  <2>2. \A k \in 1 .. Len(history') : history'[k] = row'[history'[k].id]
    BY <1>5 DEF Settled
  <2>3. \A s \in pushedOut' : \A k \in 1 .. Len(history') : history'[k].id # s
    BY <1>9 DEF Ids
  <2> QED BY <2>1, <2>2, <2>3 DEF NothingLost
<1> QED BY <1>1, <1>2, <1>5, <1>9, <1>10 DEF Records

-----------------------------------------------------------------------------
(* Rows.                                                                   *)

LEMMA PlanFacts ==
  /\ Plan \subseteq Nat \ {0} /\ 1 \in Plan /\ SetUps \in Plan /\ SetUps \in Nat \ {0}
  /\ SetUps + Verifies \in Plan /\ SetUps + Verifies > SetUps
  /\ \A i \in Plan : i <= SetUps + Verifies /\ (i # SetUps + Verifies => i + 1 \in Plan)
BY ScaffoldBounds DEF Plan

LEMMA BlankType ==
  ASSUME NEW x \in Statuses
  PROVE  Blank(x) \in [Plan -> Statuses] /\ \A i \in Plan : Blank(x)[i] = x
BY DEF Blank

LEMMA NoRowType == NoRow \in Row /\ Sound(NoRow)
<1>1. Blank("absent") \in [Plan -> Statuses]
  BY BlankType DEF Statuses
<1> QED BY <1>1 DEF NoRow, Row, Sound, Final

(* What each of the recorder's steps makes of a row.                       *)
LEMMA EndStepRow ==
  ASSUME NEW w \in Row, NEW i \in Plan, NEW ok \in BOOLEAN
  PROVE  LET v == EndStep(w, i, ok)
         IN  /\ v \in Row /\ v.id = w.id /\ v.at = w.at /\ v.written = w.written /\ v.error = w.error
             /\ v.steps = [w.steps EXCEPT ![i] = IF ok THEN "done" ELSE "failed"]
             /\ v.outcome = IF ok THEN w.outcome ELSE "failed"
BY DEF EndStep, Row, Statuses

LEMMA StartStepRow ==
  ASSUME NEW w \in Row, NEW i \in Plan
  PROVE  LET v == StartStep(w, i)
         IN  /\ v \in Row /\ v.id = w.id /\ v.at = i /\ v.written = w.written /\ v.error = w.error
             /\ v.steps = [w.steps EXCEPT ![i] = "running"] /\ v.outcome = w.outcome
BY DEF StartStep, Row, Statuses

LEMMA ErrorRow ==
  ASSUME NEW w \in Row
  PROVE  LET v == Error(w)
         IN  /\ v \in Row /\ v.id = w.id /\ v.at = w.at /\ v.written = w.written /\ v.error = TRUE
             /\ v.steps = w.steps /\ v.outcome = "failed"
BY DEF Error, Row

LEMMA WrittenRow ==
  ASSUME NEW w \in Row, NEW b \in BOOLEAN
  PROVE  LET v == [w EXCEPT !.written = b]
         IN  /\ v \in Row /\ v.id = w.id /\ v.at = w.at /\ v.written = b /\ v.error = w.error
             /\ v.steps = w.steps /\ v.outcome = w.outcome
BY DEF Row

LEMMA OverRow ==
  ASSUME NEW w \in Row
  PROVE  LET v == [w EXCEPT !.at = 0]
         IN  /\ v \in Row /\ v.id = w.id /\ v.at = 0 /\ v.written = w.written /\ v.error = w.error
             /\ v.steps = w.steps /\ v.outcome = w.outcome
BY DEF Row

(* The row of a run that starts, and of one that cannot.                   *)
LEMMA StartRows ==
  ASSUME NEW r \in Attempts, NEW n, n = [NoRow EXCEPT !.id = r, !.outcome = "succeeded"]
  PROVE  /\ StartStep(n, 1) \in Row /\ Sound(StartStep(n, 1))
         /\ StartStep(n, 1).id = r /\ StartStep(n, 1).at = 1 /\ StartStep(n, 1).outcome = "succeeded"
         /\ StartStep(n, 1).steps = [Blank("absent") EXCEPT ![1] = "running"]
         /\ Error(n) \in Row /\ Sound(Error(n))
         /\ Error(n).id = r /\ Error(n).at = 0 /\ Error(n).outcome = "failed"
         /\ Error(n).steps = Blank("absent")
<1>1. Blank("absent") \in [Plan -> Statuses] /\ \A i \in Plan : Blank("absent")[i] = "absent"
  BY BlankType DEF Statuses
<1>2. n \in Row /\ n.id = r /\ n.at = 0 /\ n.steps = Blank("absent") /\ n.error = FALSE /\ n.written = FALSE
      /\ n.outcome = "succeeded"
  <2>1. NoRow \in Row
    BY NoRowType
  <2>2. /\ NoRow.at = 0 /\ NoRow.steps = Blank("absent") /\ NoRow.error = FALSE /\ NoRow.written = FALSE
    BY DEF NoRow
  <2> QED BY <2>1, <2>2 DEF Row
<1>3. 1 \in Plan /\ StartStep(n, 1) \in Row /\ Error(n) \in Row
  BY <1>2, PlanFacts, StartStepRow, ErrorRow
<1>4. /\ StartStep(n, 1).id = r /\ StartStep(n, 1).at = 1 /\ StartStep(n, 1).error = FALSE
      /\ StartStep(n, 1).outcome = "succeeded"
      /\ StartStep(n, 1).steps = [Blank("absent") EXCEPT ![1] = "running"]
  <2> DEFINE v == StartStep(n, 1)
  <2>1. /\ v.id = n.id /\ v.at = 1 /\ v.error = n.error /\ v.outcome = n.outcome
        /\ v.steps = [n.steps EXCEPT ![1] = "running"]
    BY <1>2, <1>3, StartStepRow
  <2> HIDE DEF v
  <2>2. v.id = r /\ v.at = 1 /\ v.error = FALSE /\ v.outcome = "succeeded"
        /\ v.steps = [Blank("absent") EXCEPT ![1] = "running"]
    BY <2>1, <1>2
  <2> QED BY <2>2 DEF v
<1>5. /\ Error(n).id = r /\ Error(n).at = 0 /\ Error(n).error /\ Error(n).outcome = "failed"
      /\ Error(n).steps = Blank("absent")
  BY <1>2, ErrorRow
<1>6. Sound(StartStep(n, 1))
  <2>1. \A i \in Plan : ~(i < 1)
    BY PlanFacts
  <2>2. \A i \in Plan : i > 1 => i # 1
    BY PlanFacts
  <2>3. ~(1 > SetUps)
    BY PlanFacts
  <2>4. /\ [Blank("absent") EXCEPT ![1] = "running"][1] = "running"
        /\ \A i \in Plan : i # 1 => [Blank("absent") EXCEPT ![1] = "running"][i] = "absent"
    BY <1>1, <1>3
  <2>5. StartStep(n, 1).steps[1] = "running" /\ \A i \in Plan : i > 1 => StartStep(n, 1).steps[i] = "absent"
    BY <1>4, <2>2, <2>4
  <2> QED BY <2>1, <2>3, <2>5, <1>4 DEF Sound, Final
<1>7. Sound(Error(n))
  BY <1>5 DEF Sound, Final
<1> QED BY <1>3, <1>4, <1>5, <1>6, <1>7

(* What the end of child i makes of the steps, and a next child of the     *)
(* panel that follows the run.                                             *)
Ended(steps, i, ok) == [steps EXCEPT ![i] = IF ok THEN "done" ELSE "failed"]
Went(steps, i) == [steps EXCEPT ![i + 1] = "running"]
Carried(w) == [sheet EXCEPT !.steps = [j \in Plan |-> IF j = w.at \/ j = w.at - 1
                                                      THEN w.steps[j] ELSE @[j]]]

(* What holds of n, the row of a run whose child i has ended.              *)
ChildOut(n, r, old, i, ok, writable) ==
    /\ i \in Plan /\ n \in Row /\ n.id = r /\ n.steps = Ended(old.steps, i, ok)
    /\ (i <= SetUps /\ ~ok) \/ (i = SetUps /\ ok /\ ~writable)
           => /\ Error(n) \in Row /\ Sound([Error(n) EXCEPT !.at = 0])
              /\ Error(n).steps = n.steps /\ Error(n).id = r /\ Error(n).outcome = "failed"
    /\ i = SetUps + Verifies => Sound([n EXCEPT !.at = 0]) /\ n.outcome \in Final
    /\ i # SetUps + Verifies /\ (ok \/ i > SetUps) /\ (i # SetUps \/ writable)
           => /\ StartStep(n, i + 1) \in Row /\ Sound(StartStep(n, i + 1))
              /\ StartStep(n, i + 1).at = i + 1 /\ StartStep(n, i + 1).id = r
              /\ StartStep(n, i + 1).outcome \in Final
              /\ StartStep(n, i + 1).steps = Went(n.steps, i)

(* The row of a run whose child i ends: over, or at the next child.        *)
LEMMA ChildRows ==
  ASSUME NEW r \in Attempts, NEW w \in Row, w.id = r, w.at # 0, Sound(w),
         NEW ok \in BOOLEAN, NEW writable \in BOOLEAN, NEW i, i = w.at,
         NEW n, n = (IF i = SetUps /\ ok THEN [EndStep(w, i, ok) EXCEPT !.written = writable]
                     ELSE EndStep(w, i, ok))
  PROVE  ChildOut(n, r, w, i, ok, writable)
<1> DEFINE out == IF ok THEN w.outcome ELSE "failed"
           st == [w.steps EXCEPT ![i] = IF ok THEN "done" ELSE "failed"]
           wr == IF i = SetUps /\ ok THEN writable ELSE w.written
<1>1. /\ i \in Plan /\ w.outcome \in Final /\ ~w.error
      /\ w.steps \in [Plan -> Statuses] /\ w.written \in BOOLEAN
  BY DEF Sound, Row
<1>2. /\ EndStep(w, i, ok) \in Row /\ EndStep(w, i, ok).id = r /\ EndStep(w, i, ok).at = i
      /\ EndStep(w, i, ok).written = w.written /\ EndStep(w, i, ok).error = FALSE
      /\ EndStep(w, i, ok).steps = st /\ EndStep(w, i, ok).outcome = out
  BY <1>1, EndStepRow
<1>3. n \in Row /\ n.id = r /\ n.at = i /\ n.written = wr /\ n.error = FALSE /\ n.steps = st /\ n.outcome = out
  <2>1. CASE i = SetUps /\ ok
    BY <2>1, <1>2, WrittenRow, ZenonT(60)
  <2>2. CASE ~(i = SetUps /\ ok)
    BY <2>2, <1>2
  <2> QED BY <2>1, <2>2
<1>4. st \in [Plan -> Statuses] /\ wr \in BOOLEAN /\ out \in Final
  BY <1>1 DEF Statuses, Final
<1>5. /\ st[i] = IF ok THEN "done" ELSE "failed"
      /\ \A j \in Plan : j # i => st[j] = w.steps[j]
  BY <1>1
<1>7. /\ Error(n) \in Row /\ Error(n).id = r /\ Error(n).written = wr /\ Error(n).error = TRUE
      /\ Error(n).steps = st /\ Error(n).outcome = "failed"
  BY <1>3, ErrorRow
<1>8. /\ [Error(n) EXCEPT !.at = 0] \in Row /\ [n EXCEPT !.at = 0] \in Row
      /\ [Error(n) EXCEPT !.at = 0].at = 0 /\ [Error(n) EXCEPT !.at = 0].error
      /\ [Error(n) EXCEPT !.at = 0].outcome = "failed"
      /\ [n EXCEPT !.at = 0].at = 0 /\ [n EXCEPT !.at = 0].steps = st /\ [n EXCEPT !.at = 0].written = wr
      /\ [n EXCEPT !.at = 0].error = FALSE /\ [n EXCEPT !.at = 0].outcome = out
  BY <1>3, <1>7, OverRow
<1> HIDE DEF st, wr, out
<1>9. Sound([Error(n) EXCEPT !.at = 0])
  BY <1>8 DEF Final, Sound
<1>10. out = "failed" => \E j \in Plan : st[j] = "failed"
  <2>1. CASE ok
    <3>1. out = w.outcome
      BY <2>1 DEF out
    <3>2. out = "failed" => \E j \in Plan : w.steps[j] = "failed"
      BY <3>1, <1>1 DEF Sound
    <3>3. w.steps[i] = "running"
      BY <1>1 DEF Sound
    <3> QED BY <3>2, <3>3, <1>5
  <2>2. CASE ~ok
    BY <2>2, <1>1, <1>5
  <2> QED BY <2>1, <2>2
<1>11. out = "succeeded" => /\ \A j \in Plan : j <= i => st[j] = "done"
                            /\ i > SetUps \/ (i = SetUps /\ writable) => wr
  <2> SUFFICES ASSUME out = "succeeded"
               PROVE  /\ \A j \in Plan : j <= i => st[j] = "done"
                      /\ i > SetUps \/ (i = SetUps /\ writable) => wr
    OBVIOUS
  <2>1. ok /\ w.outcome = "succeeded"
    BY DEF out
  <2>2. /\ \A j \in Plan : j < i => w.steps[j] = "done"
        /\ i > SetUps => w.written
    BY <2>1 DEF Sound
  <2>3. \A j \in Plan : j <= i => st[j] = "done"
    BY <2>1, <2>2, <1>1, <1>5, PlanFacts
  <2>4. i > SetUps => i # SetUps
    BY <1>1, PlanFacts
  <2> QED BY <2>1, <2>2, <2>3, <2>4 DEF wr
<1>12. ASSUME i = SetUps + Verifies
       PROVE  Sound([n EXCEPT !.at = 0])
  <2>1. out = "succeeded" => st = Blank("done") /\ wr
    BY <1>11, <1>12, <1>4, PlanFacts DEF Blank
  <2> QED BY <2>1, <1>8, <1>10 DEF Sound
<1>13. ASSUME i # SetUps + Verifies, ok \/ i > SetUps, i # SetUps \/ writable
       PROVE  /\ StartStep(n, i + 1) \in Row /\ Sound(StartStep(n, i + 1))
              /\ StartStep(n, i + 1).at = i + 1 /\ StartStep(n, i + 1).id = r
              /\ StartStep(n, i + 1).outcome \in Final
              /\ StartStep(n, i + 1).steps = [st EXCEPT ![i + 1] = "running"]
  <2> DEFINE nx == [st EXCEPT ![i + 1] = "running"]
  <2>2. i + 1 \in Plan /\ i + 1 # i /\ i + 1 # 0
    BY <1>1, <1>13, PlanFacts
  <2>1. /\ StartStep(n, i + 1) \in Row /\ StartStep(n, i + 1).id = r /\ StartStep(n, i + 1).at = i + 1
        /\ StartStep(n, i + 1).steps = nx /\ StartStep(n, i + 1).written = wr
        /\ StartStep(n, i + 1).error = FALSE /\ StartStep(n, i + 1).outcome = out
    BY <1>3, <2>2, StartStepRow, ZenonT(60)
  <2>3. nx \in [Plan -> Statuses] /\ nx[i + 1] = "running" /\ \A j \in Plan : j # i + 1 => nx[j] = st[j]
    BY <1>4, <2>2 DEF Statuses
  <2> HIDE DEF nx
  <2>5. \A j \in Plan : j > i + 1 => nx[j] = "absent"
    <3>1. \A j \in Plan : j > i + 1 => j > i /\ j # i + 1 /\ j # i
      BY <1>1, PlanFacts
    <3>2. \A j \in Plan : j > i => w.steps[j] = "absent"
      BY DEF Sound
    <3> QED BY <3>1, <3>2, <2>3, <1>5
  <2>6. out = "succeeded" => /\ \A j \in Plan : j < i + 1 => nx[j] = "done"
                             /\ i + 1 > SetUps => wr
    <3>1. \A j \in Plan : j < i + 1 => j <= i /\ j # i + 1
      BY <1>1, PlanFacts
    <3>2. i + 1 > SetUps => i > SetUps \/ (i = SetUps /\ writable)
      BY <1>1, <1>13, PlanFacts
    <3> QED BY <3>1, <3>2, <1>11, <2>3
  <2>7. out = "failed" => \E j \in Plan : nx[j] = "failed"
    <3>1. st[i + 1] # "failed"
      <4>1. i + 1 > i
        BY <1>1, PlanFacts
      <4>2. w.steps[i + 1] = "absent"
        BY <4>1, <2>2 DEF Sound
      <4> QED BY <4>2, <2>2, <1>5
    <3> QED BY <3>1, <1>10, <2>3
  <2>8. Sound(StartStep(n, i + 1))
    BY <2>1, <2>2, <2>3, <2>5, <2>6, <2>7, <1>4 DEF Sound
  <2> QED BY <2>1, <2>8, <1>4 DEF nx
<1>16. st = [w.steps EXCEPT ![i] = IF ok THEN "done" ELSE "failed"]
  BY DEF st
<1> QED BY <1>1, <1>3, <1>4, <1>7, <1>8, <1>9, <1>12, <1>13, <1>16 DEF ChildOut, Ended, Went

-----------------------------------------------------------------------------
(* The panel.                                                              *)

(* A step that leaves the panel alone, and the row of the run it follows   *)
(* or has followed.                                                        *)
LEMMA PanelStays ==
  ASSUME Panel, Rows, Rows', sheet' = sheet,
         \A r \in Attempts : row'[r] = row[r] \/ /\ Busy(r) \/ row[r].outcome = "none"
                                                 /\ ~(sheet.running /\ sheet.of = r)
  PROVE  Panel'
<1>1. sheet.last.outcome # "none" => Settled(sheet.last, row')
  BY SettledStays DEF Panel
<1>2. sheet.of \in Attempts => row'[sheet.of] = row[sheet.of]
  BY DEF Panel
<1>3. sheet.running => Busy(sheet.of)'
  BY <1>2 DEF Panel, Busy
<1>4. ~sheet.running /\ sheet.of \in Attempts => ~Busy(sheet.of)' /\ row'[sheet.of].outcome # "none"
  BY <1>2 DEF Panel, Busy
<1>5. Shown => Shown'
  <2>1. sheet.running => sheet.of \in Attempts
    BY DEF Panel
  <2> QED BY <2>1, <1>2 DEF Shown, Listed, HasFailure
<1> QED BY <1>1, <1>3, <1>4, <1>5 DEF Panel

THEOREM InitInv == ScaffoldInit => IInv
<1> SUFFICES ASSUME ScaffoldInit PROVE IInv
  OBVIOUS
<1>1. Rows
  BY NoRowType DEF ScaffoldInit, Rows, NoRow
<1>2. NothingLost
  BY DEF ScaffoldInit, NothingLost, NoRow
<1>3. Records
  BY <1>1, <1>2, ScaffoldBounds DEF ScaffoldInit, Records
<1>4. Panel
  <2>1. Blank("absent") \in [Plan -> Statuses] /\ \A i \in Plan : Blank("absent")[i] = "absent"
    BY BlankType DEF Statuses
  <2>2. sheet \in Sheet
    BY <2>1, NoRowType DEF ScaffoldInit, Opened, Sheet
  <2>3. /\ sheet.running = FALSE /\ sheet.of = "none" /\ sheet.steps = Blank("absent")
        /\ sheet.error = FALSE /\ sheet.last = NoRow
    BY DEF ScaffoldInit, Opened
  <2>4. ~Listed(sheet)
    BY <2>1, <2>3 DEF Listed
  <2>5. NoRow.outcome = "none"
    BY DEF NoRow
  <2> QED BY <2>2, <2>3, <2>4, <2>5, ScaffoldBounds DEF Panel, Shown
<1> QED BY <1>3, <1>4 DEF IInv, ScaffoldInit

LEMMA StartKeeps ==
  ASSUME IInv, NEW r \in Attempts, Start(r)
  PROVE  IInv'
<1> DEFINE n == [NoRow EXCEPT !.id = r, !.outcome = "succeeded"]
<1>1. /\ StartStep(n, 1) \in Row /\ Sound(StartStep(n, 1))
      /\ StartStep(n, 1).id = r /\ StartStep(n, 1).at = 1 /\ StartStep(n, 1).outcome = "succeeded"
      /\ StartStep(n, 1).steps = [Blank("absent") EXCEPT ![1] = "running"]
      /\ Error(n) \in Row /\ Sound(Error(n))
      /\ Error(n).id = r /\ Error(n).at = 0 /\ Error(n).outcome = "failed"
      /\ Error(n).steps = Blank("absent")
  BY StartRows
<1>2. /\ Blank("absent") \in [Plan -> Statuses] /\ \A i \in Plan : Blank("absent")[i] = "absent"
      /\ Blank("pending") \in [Plan -> Statuses] /\ \A i \in Plan : Blank("pending")[i] = "pending"
  BY BlankType DEF Statuses
<1>3. Rows /\ Records /\ Panel /\ sheet \in Sheet /\ row \in [Attempts -> Row] /\ sheet.running = FALSE
  BY DEF IInv, Records, Rows, Panel, Start, CanStart, ShowsFailed, Sheet
<1>4. Begun(r) \in Sheet /\ Begun(r).of = r /\ Begun(r).running = TRUE /\ Begun(r).error = FALSE
      /\ Begun(r).steps = Blank("pending") /\ Begun(r).last = sheet.last
  BY <1>2, <1>3 DEF Begun, Sheet
<1>5. r # "none" /\ 1 \in Plan
  BY ScaffoldBounds, PlanFacts
<1>6. row[r].outcome = "none" /\ fixer' = fixer /\ torn' = torn
  BY DEF Start
<1> HIDE DEF n
<1>7. CASE /\ row' = [row EXCEPT ![r] = StartStep(n, 1)]
           /\ sheet' = [Begun(r) EXCEPT !.steps[1] = "running"]
           /\ UNCHANGED <<history, pushedOut>>
  <2>1. Rows'
    BY <1>1, <1>3, <1>7 DEF Rows
  <2>2. row'[r] = StartStep(n, 1) /\ \A s \in Attempts : s # r => row'[s] = row[s]
    BY <1>3, <1>7
  <2>3. Records'
    BY <2>1, <2>2, <1>1, <1>3, <1>6, <1>7, CarryOn DEF Busy
  <2>4. /\ sheet' \in Sheet /\ sheet'.of = r /\ sheet'.running = TRUE /\ sheet'.error = FALSE
        /\ sheet'.last = sheet.last /\ sheet'.steps = [Blank("pending") EXCEPT ![1] = "running"]
    BY <1>2, <1>4, <1>5, <1>7 DEF Sheet, Statuses
  <2>5. sheet'.last.outcome # "none" => Settled(sheet'.last, row')
    <3>1. \A s \in Attempts : Busy(s) \/ row[s].outcome = "none" \/ row'[s] = row[s]
      BY <1>6, <2>2
    <3> QED BY <2>4, <3>1, <2>1, <1>3, SettledStays DEF Panel
  <2>6. \A i \in Plan : sheet'.steps[i] =
            IF row'[r].steps[i] = "absent" THEN "pending" ELSE row'[r].steps[i]
    BY <2>2, <2>4, <1>1, <1>2, <1>5
  <2>7. Shown'
    BY <2>4, <2>6 DEF Shown
  <2>8. Busy(r)'
    BY <2>2, <1>1 DEF Busy
  <2>9. Panel'
    BY <2>4, <2>5, <2>7, <2>8, <1>5 DEF Panel
  <2> QED BY <2>3, <2>9, <1>6 DEF IInv
<1>8. CASE /\ row' = [row EXCEPT ![r] = Error(n)]
           /\ sheet' = [Begun(r) EXCEPT !.running = FALSE, !.done = TRUE, !.error = TRUE]
           /\ \/ UNCHANGED <<history, pushedOut>>
              \/ /\ history' = Kept(history, Error(n))
                 /\ pushedOut' = pushedOut \cup (Ids(history) \ Ids(history'))
  <2>1. Rows'
    BY <1>1, <1>3, <1>8 DEF Rows
  <2>2. row'[r] = Error(n) /\ \A s \in Attempts : s # r => row'[s] = row[s]
    BY <1>3, <1>8
  <2>3. ASSUME UNCHANGED <<history, pushedOut>> PROVE Records'
    BY <2>1, <2>2, <2>3, <1>1, <1>3, <1>6, <1>8, CarryOn
  <2>4. ASSUME history' = Kept(history, Error(n)), pushedOut' = pushedOut \cup (Ids(history) \ Ids(history'))
        PROVE  Records'
    BY <2>4, <1>1, <1>3, <1>6, <1>8, WriteDown DEF Final
  <2>5. Records'
    BY <2>3, <2>4, <1>8
  <2>6. /\ sheet' \in Sheet /\ sheet'.of = r /\ sheet'.running = FALSE /\ sheet'.error = TRUE
        /\ sheet'.last = sheet.last
    BY <1>4, <1>8 DEF Sheet
  <2>7. sheet'.last.outcome # "none" => Settled(sheet'.last, row')
    <3>1. \A s \in Attempts : Busy(s) \/ row[s].outcome = "none" \/ row'[s] = row[s]
      BY <1>6, <2>2
    <3> QED BY <2>6, <3>1, <2>1, <1>3, SettledStays DEF Panel
  <2>8. ~Busy(r)' /\ row'[r].outcome = "failed"
    BY <2>2, <1>1 DEF Busy
  <2>9. Shown'
    BY <2>6, <2>8 DEF Shown, HasFailure
  <2>10. Panel'
    BY <2>6, <2>7, <2>8, <2>9, <1>5 DEF Panel
  <2> QED BY <2>5, <2>10, <1>6 DEF IInv
<1> QED BY <1>7, <1>8 DEF Start, n

(* What a child that ends does to the panel, when the run goes on and when *)
(* it is over.                                                             *)
LEMMA FollowOn ==
  ASSUME Panel, Rows, Rows', NEW r \in Attempts, Busy(r), NEW i \in Plan, i = row[r].at, NEW ok \in BOOLEAN,
         i + 1 \in Plan, NEW w \in Row, w.at = i + 1, row' = [row EXCEPT ![r] = w],
         w.steps = Went(Ended(row[r].steps, i, ok), i), Follows(r), sheet' = Carried(w)
  PROVE  Panel'
<1>1. /\ sheet \in Sheet /\ sheet.of = r /\ sheet.running = TRUE
      /\ row \in [Attempts -> Row] /\ row[r].steps \in [Plan -> Statuses] /\ w.steps \in [Plan -> Statuses]
  BY DEF Panel, Follows, Sheet, Rows, Row
<1> USE DEF Ended, Went, Carried
<1>2. i \in Nat /\ i + 1 - 1 = i /\ i + 1 # i /\ i + 1 # 0 /\ r # "none"
  BY PlanFacts, ScaffoldBounds
<1>3. /\ sheet' \in Sheet /\ sheet'.of = r /\ sheet'.running = TRUE /\ sheet'.error = sheet.error
      /\ sheet'.last = sheet.last /\ sheet'.mixed = sheet.mixed /\ sheet'.cleared = sheet.cleared
      /\ sheet'.steps = [j \in Plan |-> IF j = i + 1 \/ j = i THEN w.steps[j] ELSE sheet.steps[j]]
  <2>1. [j \in Plan |-> IF j = i + 1 \/ j = i THEN w.steps[j] ELSE sheet.steps[j]] \in [Plan -> Statuses]
    BY <1>1 DEF Sheet
  <2>2. sheet' = [sheet EXCEPT !.steps = [j \in Plan |-> IF j = i + 1 \/ j = i THEN w.steps[j] ELSE sheet.steps[j]]]
    BY <1>2
  <2> QED BY <2>1, <2>2, <1>1 DEF Sheet
<1>4. row'[r] = w /\ \A s \in Attempts : s # r => row'[s] = row[s]
  BY <1>1
<1>5. sheet'.last.outcome # "none" => Settled(sheet'.last, row')
  <2>1. \A s \in Attempts : Busy(s) \/ row[s].outcome = "none" \/ row'[s] = row[s]
    BY <1>4
  <2> QED BY <2>1, <1>3, SettledStays DEF Panel
<1>6. Shown => Shown'
  <2> SUFFICES ASSUME Shown PROVE Shown'
    OBVIOUS
  <2>1. /\ sheet.error = FALSE
        /\ \A j \in Plan : sheet.steps[j] = IF row[r].steps[j] = "absent" THEN "pending" ELSE row[r].steps[j]
    BY <1>1 DEF Shown, Sheet
  <2>2. \A j \in Plan : sheet'.steps[j] = IF w.steps[j] = "absent" THEN "pending" ELSE w.steps[j]
    <3>1. w.steps[i] \in {"done", "failed"} /\ w.steps[i + 1] = "running"
      BY <1>1, <1>2
    <3>2. \A j \in Plan : j # i /\ j # i + 1 => w.steps[j] = row[r].steps[j]
      BY <1>1
    <3> QED BY <3>1, <3>2, <2>1, <1>3
  <2>3. sheet'.error = FALSE /\ sheet'.running = TRUE /\ row'[sheet'.of] = w
    BY <2>1, <1>3, <1>4
  <2> QED BY ONLY <2>2, <2>3 DEF Shown
<1>7. Busy(r)'
  BY <1>2, <1>4 DEF Busy
<1> QED BY <1>2, <1>3, <1>5, <1>6, <1>7 DEF Panel

LEMMA FollowEnd ==
  ASSUME Panel, Rows, Rows', NEW r \in Attempts, Busy(r), NEW i \in Plan, i = row[r].at, NEW ok \in BOOLEAN,
         NEW w \in Row, w.outcome \in Final, row' = [row EXCEPT ![r] = [w EXCEPT !.at = 0]],
         w.steps = Ended(row[r].steps, i, ok),
         Follows(r), sheet' = Over(w)
  PROVE  Panel'
<1> DEFINE v == [w EXCEPT !.at = 0]
<1>1. /\ sheet \in Sheet /\ sheet.of = r /\ sheet.running = TRUE
      /\ row \in [Attempts -> Row] /\ row[r].steps \in [Plan -> Statuses] /\ w.steps \in [Plan -> Statuses]
  <2>1. [row[r].steps EXCEPT ![i] = IF ok THEN "done" ELSE "failed"] \in [Plan -> Statuses]
    BY DEF Rows, Row, Statuses
  <2> QED BY <2>1 DEF Panel, Follows, Sheet, Rows, Row, Ended
<1>2. r # "none"
  BY ScaffoldBounds
<1>3. v \in Row /\ v.at = 0 /\ v.steps = w.steps /\ v.error = w.error /\ v.outcome = w.outcome
      /\ w.error \in BOOLEAN
  BY OverRow DEF Row
<1>4. row'[r] = v /\ \A s \in Attempts : s # r => row'[s] = row[s]
  BY <1>1
<1> HIDE DEF v
<1>5. v.at = 0 /\ v.steps = w.steps /\ v.error = w.error /\ v.outcome = w.outcome /\ Sound(v)
  BY <1>4, <1>3 DEF Rows
<1>6. /\ sheet' \in Sheet /\ sheet'.of = r /\ sheet'.running = FALSE /\ sheet'.error = (sheet.error \/ w.error)
      /\ sheet'.last = sheet.last /\ sheet'.mixed = sheet.mixed /\ sheet'.cleared = sheet.cleared
      /\ sheet'.steps = [j \in Plan |-> IF w.steps[j] = "absent" THEN sheet.steps[j] ELSE w.steps[j]]
  <2>1. [j \in Plan |-> IF w.steps[j] = "absent" THEN sheet.steps[j] ELSE w.steps[j]] \in [Plan -> Statuses]
    BY <1>1 DEF Sheet
  <2>2. (sheet.error \/ w.error) \in BOOLEAN
    BY <1>3
  <2> QED BY <2>1, <2>2, <1>1 DEF Sheet, Over
<1>7. sheet'.last.outcome # "none" => Settled(sheet'.last, row')
  <2>1. \A s \in Attempts : Busy(s) \/ row[s].outcome = "none" \/ row'[s] = row[s]
    BY <1>4
  <2> QED BY <2>1, <1>6, SettledStays DEF Panel
<1>8. Shown => Shown'
  <2> SUFFICES ASSUME Shown PROVE Shown'
    OBVIOUS
  <2>1. /\ sheet.error = FALSE
        /\ \A j \in Plan : sheet.steps[j] = IF row[r].steps[j] = "absent" THEN "pending" ELSE row[r].steps[j]
    BY <1>1 DEF Shown, Sheet
  <2>2. \A j \in Plan : w.steps[j] = "absent" => sheet.steps[j] = "pending"
    BY <2>1, <1>1 DEF Ended
  <2>3. \A j \in Plan : sheet'.steps[j] = "failed" <=> w.steps[j] = "failed"
    <3>1. \A j \in Plan : sheet'.steps[j] = IF w.steps[j] = "absent" THEN sheet.steps[j] ELSE w.steps[j]
      BY <1>6
    <3> QED BY ONLY <2>2, <3>1
  <2>4. sheet'.error = w.error
    BY ONLY <2>1, <1>6, <1>3
  <2>5. HasFailure(sheet)' <=> w.error \/ \E j \in Plan : w.steps[j] = "failed"
    BY <2>3, <2>4 DEF HasFailure
  <2>6. CASE w.outcome = "failed"
    BY <2>5, <2>6, <1>4, <1>5, <1>6 DEF Shown, Sound
  <2>7. CASE w.outcome = "succeeded"
    <3>1. ~w.error /\ w.steps = Blank("done")
      BY <2>7, <1>5 DEF Sound
    <3>2. ~HasFailure(sheet)'
      BY <3>1, <2>5 DEF Blank
    <3> QED BY <2>7, <3>2, <1>4, <1>5, <1>6 DEF Shown
  <2> QED BY <2>6, <2>7 DEF Final
<1>9. ~Busy(r)' /\ row'[r].outcome # "none"
  BY <1>4, <1>5 DEF Busy, Final
<1> QED BY <1>2, <1>6, <1>7, <1>8, <1>9 DEF Panel

LEMMA ChildEndsKeeps ==
  ASSUME IInv, NEW r \in Attempts, ChildEnds(r)
  PROVE  IInv'
<1>1. PICK ok \in BOOLEAN, writable \in BOOLEAN :
        LET i == row[r].at
            seen == EndStep(row[r], i, ok)
            new == IF i = SetUps /\ ok THEN [seen EXCEPT !.written = writable] ELSE seen
        IN  \/ i <= SetUps /\ ~ok /\ End(r, Error(new))
            \/ i = SetUps /\ ok /\ ~writable /\ End(r, Error(new))
            \/ i = SetUps + Verifies /\ End(r, new)
            \/ /\ i # SetUps + Verifies /\ (ok \/ i > SetUps) /\ (i # SetUps \/ writable)
               /\ GoOn(r, StartStep(new, i + 1))
  BY DEF ChildEnds
<1> DEFINE i == row[r].at
           n == IF i = SetUps /\ ok THEN [EndStep(row[r], i, ok) EXCEPT !.written = writable]
                ELSE EndStep(row[r], i, ok)
<1>2. /\ Busy(r) /\ fixer' = fixer /\ torn' = torn
      /\ Rows /\ Records /\ Panel /\ row \in [Attempts -> Row] /\ row[r] \in Row
      /\ Sound(row[r]) /\ row[r].id = r /\ i # 0
  <2>1. Busy(r) /\ Rows /\ Records /\ Panel /\ fixer' = fixer /\ torn' = torn
    BY DEF IInv, Records, ChildEnds
  <2>2. row[r].outcome # "none"
    BY <2>1 DEF Rows, Sound, Busy, Final
  <2> QED BY <2>1, <2>2 DEF Rows, Busy
<1>3. \/ ((i <= SetUps /\ ~ok) \/ (i = SetUps /\ ok /\ ~writable)) /\ End(r, Error(n))
      \/ i = SetUps + Verifies /\ End(r, n)
      \/ /\ i # SetUps + Verifies /\ (ok \/ i > SetUps) /\ (i # SetUps \/ writable)
         /\ GoOn(r, StartStep(n, i + 1))
  BY <1>1
<1>4. ChildOut(n, r, row[r], i, ok, writable)
  <2> HIDE DEF i, n
  <2>1. i = row[r].at /\ n = IF i = SetUps /\ ok THEN [EndStep(row[r], i, ok) EXCEPT !.written = writable]
                             ELSE EndStep(row[r], i, ok)
    BY DEF i, n
  <2>2. row[r].at # 0
    BY <1>2 DEF i
  <2> QED BY ONLY <2>1, <2>2, <1>2, r \in Attempts, ok \in BOOLEAN, writable \in BOOLEAN, ChildRows
<1>5. Error(n) \in Row
  BY <1>4, ErrorRow DEF ChildOut
<1> HIDE DEF n
(* The run is over with w.                                                 *)
<1>6. ASSUME NEW w \in Row, w.id = r, w.outcome \in Final, End(r, w),
             Sound([w EXCEPT !.at = 0]),
             w.steps = Ended(row[r].steps, i, ok)
      PROVE  IInv'
  <2> DEFINE v == [w EXCEPT !.at = 0]
  <2>1. /\ v \in Row /\ v.id = r /\ v.at = 0 /\ v.steps = w.steps /\ v.error = w.error
        /\ v.outcome = w.outcome /\ w.error \in BOOLEAN
    BY <1>6, OverRow DEF Row
  <2>2. /\ row' = [row EXCEPT ![r] = v] /\ history' = Kept(history, v)
        /\ pushedOut' = pushedOut \cup (Ids(history) \ Ids(history'))
        /\ sheet' = IF Follows(r) THEN Over(w) ELSE sheet
    BY <1>6 DEF End
  <2>3. Records'
    <3> HIDE DEF v
    <3>1. Sound(v)
      BY <1>6 DEF v
    <3> QED BY <2>1, <2>2, <3>1, <1>2, <1>6, WriteDown
  <2>4. Rows'
    BY <2>3 DEF Records
  <2>5. Panel'
    <3>1. CASE Follows(r)
      <4>1. sheet' = Over(w) /\ row' = [row EXCEPT ![r] = [w EXCEPT !.at = 0]] /\ i \in Plan /\ i = row[r].at
        BY <3>1, <2>2, <1>4 DEF ChildOut
      <4> HIDE DEF v, i
      <4> QED BY ONLY <4>1, <3>1, <2>4, <1>2, <1>6, r \in Attempts, ok \in BOOLEAN, FollowEnd
    <3>2. CASE ~Follows(r)
      <4>1. \A s \in Attempts : s # r => row'[s] = row[s]
        BY <2>2, <1>2
      <4>2. ~(sheet.running /\ sheet.of = r) /\ sheet' = sheet
        BY <3>2, <2>2 DEF Follows
      <4> QED BY <4>1, <4>2, <2>4, <1>2, PanelStays
    <3> QED BY <3>1, <3>2
  <2> QED BY <2>3, <2>5, <1>2 DEF IInv
<1>7. CASE ((i <= SetUps /\ ~ok) \/ (i = SetUps /\ ok /\ ~writable)) /\ End(r, Error(n))
  BY <1>4, <1>5, <1>6, <1>7 DEF Final, ChildOut
<1>8. CASE i = SetUps + Verifies /\ End(r, n)
  BY <1>4, <1>6, <1>8 DEF ChildOut
<1>9. CASE /\ i # SetUps + Verifies /\ (ok \/ i > SetUps) /\ (i # SetUps \/ writable)
           /\ GoOn(r, StartStep(n, i + 1))
  <2> DEFINE w == StartStep(n, i + 1)
  <2>1. /\ w \in Row /\ Sound(w) /\ w.at = i + 1 /\ w.id = r /\ w.outcome \in Final
        /\ w.steps = Went(Ended(row[r].steps, i, ok), i)
    BY <1>4, <1>9 DEF ChildOut
  <2>2. /\ row' = [row EXCEPT ![r] = w] /\ UNCHANGED <<history, pushedOut>>
        /\ sheet' = IF Follows(r) THEN Carried(w) ELSE sheet
    BY <1>9 DEF GoOn, Carried
  <2> HIDE DEF w
  <2>3. /\ row'[r] = w /\ w.at # 0 /\ i + 1 \in Plan
        /\ \A s \in Attempts : s # r => row'[s] = row[s]
    <3>1. i + 1 \in Plan /\ i + 1 # 0
      BY <1>4, <1>9, PlanFacts DEF ChildOut
    <3> QED BY <3>1, <2>1, <2>2, <1>2
  <2>4. Rows'
    BY <2>1, <2>2, <2>3, <1>2 DEF Rows, Final
  <2>5. Records'
    BY <2>2, <2>3, <2>4, <1>2, CarryOn
  <2>6. Panel'
    <3>1. CASE Follows(r)
      <4>1. sheet' = Carried(w) /\ i \in Plan /\ i = row[r].at
        BY <3>1, <2>2, <1>4 DEF ChildOut
      <4> HIDE DEF i
      <4> QED BY ONLY <4>1, <3>1, <2>1, <2>2, <2>3, <2>4, <1>2, r \in Attempts, ok \in BOOLEAN, FollowOn
    <3>2. CASE ~Follows(r)
      <4>1. ~(sheet.running /\ sheet.of = r) /\ sheet' = sheet
        BY <3>2, <2>2 DEF Follows
      <4> QED BY <4>1, <2>3, <2>4, <1>2, PanelStays
    <3> QED BY <3>1, <3>2
  <2> QED BY <2>5, <2>6, <1>2 DEF IInv
<1> QED BY <1>3, <1>7, <1>8, <1>9

LEMMA ScaffoldDiesKeeps ==
  ASSUME IInv, ScaffoldDies
  PROVE  IInv'
<1>1. /\ Rows /\ Records /\ Panel /\ sheet \in Sheet /\ row \in [Attempts -> Row] /\ pushedOut' = pushedOut
      /\ row' = [r \in Attempts |-> IF Busy(r) THEN [row[r] EXCEPT !.at = 0, !.outcome = "lost"] ELSE row[r]]
      /\ sheet' = IF sheet.running THEN [sheet EXCEPT !.running = FALSE, !.error = TRUE] ELSE sheet
      /\ fixer' \in {"none", "working", "ok", "gave up"}
  BY DEF IInv, Records, Rows, Panel, ScaffoldDies
<1>2. \A r \in Attempts : LET v == [row[r] EXCEPT !.at = 0, !.outcome = "lost"]
                          IN  /\ v \in Row /\ v.id = row[r].id /\ v.at = 0 /\ v.outcome = "lost"
  BY <1>1, PlanFacts DEF Row
<1>3. Rows'
  <2>1. row' \in [Attempts -> Row]
    BY <1>1, <1>2
  <2> SUFFICES ASSUME NEW r \in Attempts
               PROVE  /\ Sound(row'[r])
                      /\ row'[r].outcome = "none" => row'[r] = NoRow
                      /\ row'[r].outcome # "none" => row'[r].id = r
    BY <2>1 DEF Rows
  <2>2. CASE Busy(r)
    <3>1. row'[r].at = 0 /\ row'[r].outcome = "lost" /\ row'[r].id = row[r].id
      BY <2>2, <1>1, <1>2
    <3>2. row[r].outcome # "none"
      BY <2>2, <1>1 DEF Rows, Sound, Busy, Final
    <3>3. Sound(row'[r])
      BY <3>1 DEF Sound
    <3> QED BY <3>1, <3>2, <3>3, <1>1 DEF Rows
  <2>3. CASE ~Busy(r)
    BY <2>3, <1>1 DEF Rows
  <2> QED BY <2>2, <2>3
<1>4. \A r \in Attempts : row'[r] = row[r] \/ (Busy(r) /\ row'[r].outcome = "lost")
  BY <1>1, <1>2
<1>5. Records'
  <2>1. CASE UNCHANGED <<history, torn>>
    BY <2>1, <1>1, <1>3, <1>4, CarryOn
  <2>2. CASE history' = <<>> /\ torn' = torn \cup Ids(history)
    <3>1. history' \in Seq(Row) /\ Len(history') = 0 /\ Len(history') <= MaxKept /\ 1 .. Len(history') = {}
      BY <2>2, ScaffoldBounds
    <3>2. Ids(history') = {}
      BY <3>1 DEF Ids
    <3>3. \A r \in pushedOut : r \in Attempts /\ Settled(row'[r], row') /\ row'[r].id = r
      <4> SUFFICES ASSUME NEW r \in pushedOut
                   PROVE  r \in Attempts /\ Settled(row'[r], row') /\ row'[r].id = r
        OBVIOUS
      <4>1. r \in Attempts /\ Settled(row[r], row) /\ row[r].id = r
        BY <1>1 DEF Records
      <4>2. row'[r] = row[r]
        BY <4>1, <1>1 DEF Settled, Busy
      <4> QED BY <4>1, <4>2 DEF Settled
    <3>4. NothingLost'
      <4>1. \A r \in Attempts :
               row'[r].outcome \in {"succeeded", "failed"} /\ row'[r].at = 0 /\ row'[r].steps # Blank("absent")
                   => r \in Ids(history') \cup pushedOut' \cup torn'
        BY <2>2, <1>1, <1>4 DEF Records, NothingLost
      <4> QED BY <4>1, <3>1 DEF NothingLost
    <3> QED BY <3>1, <3>2, <3>3, <3>4, <1>1, <1>3 DEF Records
  <2> QED BY <2>1, <2>2 DEF ScaffoldDies
<1>6. sheet.last.outcome # "none" => Settled(sheet.last, row')
  BY <1>1, <1>3, <1>4, SettledStays DEF Panel
<1>7. Panel'
  <2>1. CASE sheet.running
    <3>1. sheet' = [sheet EXCEPT !.running = FALSE, !.error = TRUE]
      BY <2>1, <1>1
    <3>2. /\ sheet' \in Sheet /\ sheet'.running = FALSE /\ sheet'.error = TRUE /\ sheet'.of = sheet.of
          /\ sheet'.last = sheet.last
      BY <3>1, <1>1 DEF Sheet
    <3>3. sheet.of \in Attempts /\ Busy(sheet.of) /\ sheet.of # "none"
      BY <2>1, ScaffoldBounds, <1>1 DEF Panel
    <3>4. row'[sheet.of].at = 0 /\ row'[sheet.of].outcome = "lost"
      BY <3>3, <1>1, <1>2
    <3>5. Shown'
      BY <3>2, <3>3, <3>4 DEF Shown, HasFailure
    <3> QED BY <3>2, <3>3, <3>4, <3>5, <1>6 DEF Panel, Busy
  <2>2. CASE ~sheet.running
    BY <2>2, <1>1, <1>3, <1>4, PanelStays
  <2> QED BY <2>1, <2>2
<1> QED BY <1>1, <1>5, <1>7 DEF IInv

LEMMA RecordsStay ==
  ASSUME Records, UNCHANGED <<row, history, pushedOut, torn>>
  PROVE  Records'
<1>1. Rows'
  BY DEF Records, Rows
<1>2. NothingLost'
  BY DEF Records, NothingLost, Ids
<1> QED BY <1>1, <1>2 DEF Records, Ids

LEMMA OpenScaffoldKeeps ==
  ASSUME IInv, OpenScaffold
  PROVE  IInv'
<1>1. /\ UNCHANGED <<row, history, pushedOut, torn, fixer>> /\ sheet' = Opened(LastSeen)
      /\ Records /\ Panel /\ sheet \in Sheet
  BY DEF IInv, Panel, OpenScaffold
<1>2. Records'
  BY <1>1, RecordsStay
<1>3. LastSeen \in Row /\ (LastSeen.outcome # "none" => Settled(LastSeen, row))
  <2>1. CASE elsewhere \/ history = <<>>
    BY <2>1, NoRowType DEF LastSeen, NoRow
  <2>2. CASE ~(elsewhere \/ history = <<>>)
    <3>1. history \in Seq(Row) /\ Len(history) \in 1 .. Len(history)
      BY <2>2, <1>1, EmptySeq DEF Records
    <3>2. LastSeen = history[Len(history)]
      BY <2>2 DEF LastSeen
    <3> QED BY <3>1, <3>2, <1>1, ElementOfSeq DEF Records
  <2> QED BY <2>1, <2>2
<1>4. /\ sheet' \in Sheet /\ sheet'.of = "none" /\ sheet'.running = FALSE /\ sheet'.error = FALSE
      /\ sheet'.steps = Blank("absent") /\ sheet'.last = LastSeen
  <2>1. Blank("absent") \in [Plan -> Statuses]
    BY BlankType DEF Statuses
  <2> QED BY <2>1, <1>1, <1>3 DEF Opened, Sheet
<1>5. ~Listed(sheet)'
  BY <1>4, BlankType DEF Listed, Statuses
<1>6. Panel'
  BY <1>1, <1>3, <1>4, <1>5, ScaffoldBounds DEF Panel, Shown
<1> QED BY <1>1, <1>2, <1>6 DEF IInv

LEMMA LoadHistoryKeeps ==
  ASSUME IInv, LoadHistory
  PROVE  IInv'
<1>1. /\ UNCHANGED <<row, history, pushedOut, torn, fixer>> /\ Records /\ Panel /\ sheet \in Sheet
      /\ sheet.last \in Row
  BY DEF IInv, Panel, LoadHistory, Sheet
<1>2. Records'
  BY <1>1, RecordsStay
<1>3. CASE sheet.last.outcome = "none"
  <2>1. sheet' = [sheet EXCEPT !.asked = FALSE]
    BY <1>3 DEF LoadHistory
  <2>2. /\ sheet' \in Sheet /\ sheet'.of = sheet.of /\ sheet'.running = sheet.running
        /\ sheet'.error = sheet.error /\ sheet'.steps = sheet.steps /\ sheet'.last = sheet.last
        /\ sheet'.mixed = sheet.mixed /\ sheet'.cleared = sheet.cleared
    BY <2>1, <1>1 DEF Sheet
  <2>3. Panel'
    BY <2>2, <1>1, <1>3 DEF Panel, Shown, Listed, HasFailure, Busy
  <2> QED BY <2>3, <1>1, <1>2 DEF IInv
<1>4. CASE sheet.last.outcome # "none"
  <2> DEFINE w == sheet.last
             f == IF sheet.of = "none" THEN w.id ELSE sheet.of
  <2>1. sheet' = [sheet EXCEPT !.asked = FALSE, !.last = NoRow,
                               !.of = IF sheet.of = "none" THEN sheet.last.id ELSE @,
                               !.mixed = sheet.of # "none",
                               !.steps = sheet.last.steps, !.error = sheet.last.error,
                               !.done = sheet.last.outcome = "succeeded"]
    BY <1>4 DEF LoadHistory
  <2>2. Settled(w, row) /\ w.outcome \in Final /\ w.id \in Attempts /\ w = row[w.id] /\ Sound(w) /\ w.at = 0
    BY <1>1, <1>4 DEF Panel, Settled, Records, Rows
  <2>3. NoRow \in Row /\ NoRow.outcome = "none"
    BY NoRowType DEF NoRow
  <2>4. /\ sheet' \in Sheet /\ sheet'.of = f /\ sheet'.running = sheet.running
        /\ sheet'.error = w.error /\ sheet'.steps = w.steps /\ sheet'.last = NoRow
        /\ sheet'.mixed = (sheet.of # "none")
    <3>1. /\ (sheet.of # "none") \in BOOLEAN /\ (w.outcome = "succeeded") \in BOOLEAN
          /\ f \in Attempts \cup {"none"} /\ w.steps \in [Plan -> Statuses] /\ w.error \in BOOLEAN
      BY <2>2, <1>1 DEF Sheet, Row
    <3> QED BY <2>1, <2>3, <3>1, <1>1, ZenonT(60) DEF Sheet
  <2>5. f \in Attempts /\ f # "none"
    BY <2>2, <1>1, ScaffoldBounds DEF Sheet
  <2>6. sheet.running => Busy(f)
    BY <1>1, ScaffoldBounds DEF Panel
  <2>7. ~sheet.running => ~Busy(f) /\ row[f].outcome # "none"
    BY <2>2, <2>5, <1>1, <1>4 DEF Panel, Busy
  <2>8. sheet'.mixed \/ Shown'
    <3> SUFFICES ASSUME sheet.of = "none" PROVE Shown'
      BY <2>4
    <3>1. sheet'.running = FALSE /\ sheet'.of = w.id /\ row'[sheet'.of] = w
      BY <2>2, <2>4, <1>1 DEF Panel, Sheet
    <3>2. HasFailure(sheet)' <=> w.error \/ \E i \in Plan : w.steps[i] = "failed"
      BY <2>4 DEF HasFailure
    <3>3. CASE w.outcome = "failed"
      BY <3>1, <3>2, <3>3, <2>2 DEF Shown, Sound
    <3>4. CASE w.outcome = "succeeded"
      <4>1. ~w.error /\ w.steps = Blank("done")
        BY <3>4, <2>2 DEF Sound
      <4>2. ~HasFailure(sheet)'
        BY <4>1, <3>2 DEF Blank
      <4> QED BY <4>2, <3>1, <3>4, <2>2 DEF Shown
    <3> QED BY <3>3, <3>4, <2>2 DEF Final
  <2> HIDE DEF f, w
  <2>9. Panel'
    BY <2>3, <2>4, <2>5, <2>6, <2>7, <2>8, <1>1 DEF Panel, Busy
  <2> QED BY <2>9, <1>1, <1>2 DEF IInv
<1> QED BY <1>3, <1>4

LEMMA RepairKeeps ==
  ASSUME IInv, Repair
  PROVE  IInv'
<1>1. /\ UNCHANGED <<row, history, pushedOut, torn>> /\ Records /\ Panel /\ sheet \in Sheet
      /\ fixer' \in {"none", "working", "ok", "gave up"}
      /\ sheet.running = FALSE /\ Listed(sheet) /\ HasFailure(sheet)
  BY DEF IInv, Panel, Repair, ShowsFailed, Sheet
<1>2. Records'
  BY <1>1, RecordsStay
<1>3. sheet.of # "none"
  <2>1. \A i \in Plan : Blank("absent")[i] = "absent"
    BY BlankType DEF Statuses
  <2> QED BY <1>1, <2>1 DEF Panel, Listed
<1>4. CASE sheet' = [sheet EXCEPT !.error = FALSE, !.cow = TRUE,
                                  !.cleared = @ \/ \A i \in Plan : sheet.steps[i] # "failed"]
  <2>1. /\ sheet' \in Sheet /\ sheet'.of = sheet.of /\ sheet'.running = FALSE
        /\ sheet'.steps = sheet.steps /\ sheet'.last = sheet.last /\ sheet'.mixed = sheet.mixed
        /\ sheet'.cleared = (sheet.cleared \/ \A i \in Plan : sheet.steps[i] # "failed")
    <3>1. (sheet.cleared \/ \A i \in Plan : sheet.steps[i] # "failed") \in BOOLEAN
      OBVIOUS
    <3> QED BY <3>1, <1>1, <1>4 DEF Sheet
  <2>2. ~sheet'.cleared => HasFailure(sheet)'
    BY <2>1 DEF HasFailure
  <2>3. Panel'
    BY <2>1, <2>2, <1>1, <1>3 DEF Panel, Shown, Listed, Busy
  <2> QED BY <2>3, <1>1, <1>2 DEF IInv
<1>5. CASE sheet' = [sheet EXCEPT !.error = TRUE]
  <2>1. /\ sheet' \in Sheet /\ sheet'.of = sheet.of /\ sheet'.running = FALSE /\ sheet'.error = TRUE
        /\ sheet'.steps = sheet.steps /\ sheet'.last = sheet.last /\ sheet'.mixed = sheet.mixed
        /\ sheet'.cleared = sheet.cleared
    BY <1>1, <1>5 DEF Sheet
  <2>2. HasFailure(sheet)'
    BY <2>1 DEF HasFailure
  <2>3. Panel'
    BY <2>1, <2>2, <1>1, <1>3 DEF Panel, Shown, Listed, Busy
  <2> QED BY <2>3, <1>1, <1>2 DEF IInv
<1> QED BY <1>4, <1>5 DEF Repair

LEMMA SeeFixerKeeps ==
  ASSUME IInv, SeeFixer
  PROVE  IInv'
<1>1. /\ UNCHANGED <<row, history, pushedOut, torn, fixer>> /\ Records /\ Panel /\ sheet \in Sheet
      /\ sheet.running = FALSE
      /\ sheet' = [sheet EXCEPT !.cow = FALSE, !.error = FALSE, !.done = TRUE, !.steps = Blank("absent")]
  BY DEF IInv, Panel, SeeFixer, ShowsFailed, Sheet
<1>2. Records'
  BY <1>1, RecordsStay
<1>3. Blank("absent") \in [Plan -> Statuses] /\ \A i \in Plan : Blank("absent")[i] = "absent"
  BY BlankType DEF Statuses
<1>4. /\ sheet' \in Sheet /\ sheet'.of = sheet.of /\ sheet'.running = FALSE /\ sheet'.error = FALSE
      /\ sheet'.steps = Blank("absent") /\ sheet'.last = sheet.last
  BY <1>1, <1>3 DEF Sheet
<1>5. ~Listed(sheet)'
  BY <1>3, <1>4 DEF Listed
<1>6. Panel'
  BY <1>1, <1>4, <1>5 DEF Panel, Shown, Busy
<1> QED BY <1>1, <1>2, <1>6 DEF IInv

LEMMA FixerEndsKeeps ==
  ASSUME IInv, UNCHANGED <<row, history, sheet, pushedOut, torn>>,
         fixer' \in {"none", "working", "ok", "gave up"}
  PROVE  IInv'
<1>1. Records'
  BY RecordsStay DEF IInv
<1>2. Panel'
  BY DEF IInv, Panel, Shown, Listed, HasFailure, Busy
<1> QED BY <1>1, <1>2 DEF IInv

-----------------------------------------------------------------------------
(* Every step keeps the invariant, and the invariant has what the runs     *)
(* check.                                                                  *)
LEMMA StepInv == IInv /\ [ScaffoldNext]_scaffoldVars => IInv'
<1> SUFFICES ASSUME IInv, [ScaffoldNext]_scaffoldVars PROVE IInv'
  OBVIOUS
<1>1. ASSUME NEW r \in Attempts, Start(r) PROVE IInv'
  BY <1>1, StartKeeps
<1>2. ASSUME NEW r \in Attempts, ChildEnds(r) PROVE IInv'
  BY <1>2, ChildEndsKeeps
<1>3. CASE ScaffoldDies
  BY <1>3, ScaffoldDiesKeeps
<1>4. CASE OpenScaffold
  BY <1>4, OpenScaffoldKeeps
<1>5. CASE LoadHistory
  BY <1>5, LoadHistoryKeeps
<1>6. CASE Repair
  BY <1>6, RepairKeeps
<1>7. CASE FixerEnds
  BY <1>7, FixerEndsKeeps DEF FixerEnds
<1>8. CASE SeeFixer
  BY <1>8, SeeFixerKeeps
<1>9. CASE UNCHANGED scaffoldVars
  BY <1>9, FixerEndsKeeps DEF scaffoldVars, IInv
<1> QED BY <1>1, <1>2, <1>3, <1>4, <1>5, <1>6, <1>7, <1>8, <1>9 DEF ScaffoldNext

LEMMA InvImplies == IInv => ScaffoldTypeOK /\ HistoryTruthful /\ NothingLost /\ ShownOutcome
<1> SUFFICES ASSUME IInv PROVE ScaffoldTypeOK /\ HistoryTruthful /\ NothingLost /\ ShownOutcome
  OBVIOUS
<1>1. Records /\ Panel /\ Rows /\ NothingLost
  BY DEF IInv, Records
<1>2. ScaffoldTypeOK
  <2>1. \A r \in Attempts : /\ row[r].id \in {r, "none"} /\ row[r].at \in {0} \cup Plan
                            /\ row[r].steps \in [Plan -> Statuses]
                            /\ row[r].outcome \in {"none", "succeeded", "failed", "lost"}
    <3>1. NoRow.id = "none"
      BY DEF NoRow
    <3> QED BY <1>1, <3>1 DEF Rows, Row
  <2>2. sheet.of \in Attempts \cup {"none"} /\ sheet.steps \in [Plan -> Statuses]
    BY <1>1 DEF Panel, Sheet
  <2>3. sheet.running => sheet.of # "none" /\ Busy(sheet.of)
    BY <1>1, ScaffoldBounds DEF Panel
  <2> QED BY <1>1, <2>1, <2>2, <2>3 DEF IInv, Records, ScaffoldTypeOK
<1>3. HistoryTruthful
  BY <1>1 DEF Records, Rows, Settled, Sound, HistoryTruthful
<1>4. ShownOutcome
  <2> SUFFICES ASSUME Shown
               PROVE  /\ ShowsComplete => row[sheet.of].outcome = "succeeded"
                      /\ ShowsFailed => row[sheet.of].outcome # "succeeded"
    BY <1>1 DEF Panel, ShownOutcome
  <2> QED BY DEF Shown, ShowsComplete, ShowsFailed
<1> QED BY <1>1, <1>2, <1>3, <1>4

THEOREM Invariance == ScaffoldSpec => []IInv
BY InitInv, StepInv, PTL DEF ScaffoldSpec

(* The state of the scaffold and of its panel is well formed, and a panel  *)
(* that follows a stream follows a run that is under way.                  *)
THEOREM ScaffoldTypeCorrect == ScaffoldSpec => []ScaffoldTypeOK
BY Invariance, InvImplies, PTL

(* The history never calls a run succeeded that left out a child or a file *)
(* or had one that failed, for every manifest and every length of it.      *)
THEOREM HistoryIsTruthful == ScaffoldSpec => []HistoryTruthful
BY Invariance, InvImplies, PTL

(* Runs that end side by side do not lose each other from the history,     *)
(* however many there are and however short the history is.                *)
THEOREM NothingIsLost == ScaffoldSpec => []NothingLost
BY Invariance, InvImplies, PTL

(* The panel's word on the run it shows is the run's outcome, but for the  *)
(* two ways the panel mixes it up by itself.                               *)
THEOREM OutcomeIsShown == ScaffoldSpec => []ShownOutcome
BY Invariance, InvImplies, PTL

(* History and panel say what became of a run.                             *)
THEOREM ScaffoldIsHonest == ScaffoldSpec => []ScaffoldHonest
<1>1. HistoryTruthful /\ NothingLost /\ ShownOutcome => ScaffoldHonest
  BY DEF ScaffoldHonest
<1> QED BY <1>1, HistoryIsTruthful, NothingIsLost, OutcomeIsShown, PTL
====
