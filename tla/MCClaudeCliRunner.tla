---- MODULE MCClaudeCliRunner ----
(***************************************************************************)
(* One call of the runner for TLC.  A behaviour is about one side of it,   *)
(* chosen at the start: the tool calls, with answers of one piece that are *)
(* decoded as they were printed, or the text of the answer, with no calls  *)
(* and no noise.                                                           *)
(***************************************************************************)
EXTENDS ClaudeCliRunner

CONSTANTS c1, c2, Sides

VARIABLE side

TwoCalls == {c1, c2}
BothSides == {"calls", "text"}
CallSide == {"calls"}
NoCalls == {}

Whole(piece) == piece[2] \in {0, 1}

MCInit == Init /\ side \in Sides

MCNext ==
    /\ Next
    /\ \/ /\ side = "calls"
          /\ \A i \in DOMAIN told' : Whole(told'[i])
          /\ \A i \in DOMAIN output' : Whole(output'[i])
       \/ side = "text" /\ cli'.used = {} /\ cli'.noise = 0
    /\ UNCHANGED side

MCSpec == MCInit /\ [][MCNext]_<<vars, side>>
MCFairSpec == MCSpec /\ Fairness
====
