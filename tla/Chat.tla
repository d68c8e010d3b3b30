---- MODULE Chat ----
(***************************************************************************)
(* CoworkerChat: the panel of a task's conversation with its agent.  The   *)
(* conversation and the runs live on the server (AgentRuns has the turns   *)
(* from its side); the panel keeps a copy of the messages that four kinds  *)
(* of answers overwrite: the load when it opens, the load after a turn,    *)
(* the refresh every five seconds and the answer to a change of phase.     *)
(***************************************************************************)
EXTENDS Integers, Sequences, SequencesExt

CONSTANTS
    MaxTurns,      \* bound on turns
    LastPhase      \* TASK_COWORKER_PHASES, by number

ASSUME ChatBounds == MaxTurns \in Nat /\ LastPhase \in Nat \ {0}

VARIABLES
    messages,      \* the messages of the conversation, in order
    talkPhase,     \* its phase
    turnRun,       \* the run of each turn that was started
    cowork,        \* the panel
    refresh,       \* a refresh the server has answered
    advance        \* a change of phase, and its answer

chatVars == <<messages, talkPhase, turnRun, cowork, refresh, advance>>

User(k) == [turn |-> k, who |-> "user", filled |-> TRUE]
Placeholder(k) == [turn |-> k, who |-> "agent", filled |-> FALSE]

NoMail == [list |-> <<>>, phase |-> 0]
Mail == [list |-> messages, phase |-> talkPhase]
NoAdvance == [at |-> "none", to |-> 0, heard |-> FALSE, mail |-> NoMail]

Away == [open |-> FALSE, loaded |-> FALSE, list |-> <<>>, phase |-> 0, sending |-> "no",
         reattaching |-> FALSE]

ChatInit ==
    /\ messages = <<>> /\ talkPhase = 1 /\ turnRun = <<>>
    /\ cowork = Away /\ refresh = NoMail /\ advance = NoAdvance
----------------------------------------------------------------------------
(* The server.                                                             *)

Fill(k) ==
    [i \in 1 .. Len(messages) |->
        IF messages[i].turn = k THEN [messages[i] EXCEPT !.filled = TRUE] ELSE messages[i]]

(* A turn ends and its placeholder is filled; or the sidecar died under    *)
(* it, and the pass at the next start closes the run alone.                *)
TurnEnds(k) ==
    /\ turnRun[k] = "open"
    /\ \/ turnRun' = [turnRun EXCEPT ![k] = "ended"] /\ messages' = Fill(k)
       \/ turnRun' = [turnRun EXCEPT ![k] = "reaped"] /\ UNCHANGED messages
    /\ UNCHANGED <<talkPhase, cowork, refresh, advance>>
----------------------------------------------------------------------------
(* The panel.                                                              *)

Trailing(list) ==
    list # <<>> /\ list[Len(list)].who = "agent" /\ ~list[Len(list)].filled

(* Mutant: the panel looks for an unfinished turn when it opens only.      *)
SettleOnce(c) ==
    IF c.open /\ ~cowork.loaded /\ c.sending = "no" /\ Trailing(c.list)
    THEN [c EXCEPT !.reattaching = TRUE] ELSE c

(* The effect that takes up an unfinished turn.  Its own setReattaching    *)
(* runs it again and ends the poll it has just started, so nothing resets  *)
(* the flag: it stays until the panel is left.                             *)
Settle(c) ==
    IF c.open /\ c.sending = "no" /\ Trailing(c.list) THEN [c EXCEPT !.reattaching = TRUE] ELSE c

(* Mutant: an answer that is on its way is taken whenever it comes.        *)
DropRefreshLate == UNCHANGED refresh

(* The refresh effect starts anew with every other conversation and every  *)
(* turn; the answer of an older one is not taken.                          *)
DropRefresh == refresh' = NoMail

OpenChat ==
    /\ ~cowork.open /\ cowork' = [Away EXCEPT !.open = TRUE]
    /\ UNCHANGED <<messages, talkPhase, turnRun, refresh, advance>>

(* What is still asked of the server is served, and answered to nobody.    *)
(* A turn that is being asked for is waited for.                           *)
LeaveChat ==
    /\ cowork.open /\ cowork.sending # "asking"
    /\ cowork' = Away /\ refresh' = NoMail
    /\ advance' = IF advance.at = "answered" THEN NoAdvance ELSE [advance EXCEPT !.heard = FALSE]
    /\ UNCHANGED <<messages, talkPhase, turnRun>>

Loaded == [cowork EXCEPT !.loaded = TRUE, !.list = messages, !.phase = talkPhase]

ChatLoads ==
    /\ cowork.open /\ ~cowork.loaded
    /\ cowork' = Settle(Loaded)
    /\ UNCHANGED <<messages, talkPhase, turnRun, refresh, advance>>

(* send: the message is shown before it is saved.                          *)
Say ==
    /\ cowork.loaded /\ cowork.sending = "no" /\ Len(turnRun) < MaxTurns
    /\ cowork' = [cowork EXCEPT !.sending = "asking", !.list = Append(@, User(0))]
    /\ DropRefresh
    /\ UNCHANGED <<messages, talkPhase, turnRun, advance>>

(* startTurn: the message is saved even when no run can be queued.         *)
Say_Started ==
    /\ cowork.sending = "asking"
    /\ cowork' = [cowork EXCEPT !.sending = "started"]
    /\ LET k == Len(turnRun) + 1
       IN  \/ /\ messages' = messages \o <<User(k), Placeholder(k)>>
              /\ turnRun' = Append(turnRun, "open")
           \/ /\ messages' = Append(messages, User(k))
              /\ turnRun' = Append(turnRun, "refused")
    /\ UNCHANGED <<talkPhase, refresh, advance>>

Saved(list) == FoldLeft(LAMBDA kept, m : IF m.turn = 0 THEN kept ELSE Append(kept, m), <<>>, list)

(* onUserSaved: the saved message takes the place of the one shown early.  *)
Say_Saved ==
    /\ cowork.sending = "started" /\ turnRun[Len(turnRun)] # "refused"
    /\ cowork' = [cowork EXCEPT !.sending = "live", !.list = Append(Saved(@), User(Len(turnRun)))]
    /\ UNCHANGED <<messages, talkPhase, turnRun, refresh, advance>>

(* The stream ends, and the conversation is loaded; or it breaks, before   *)
(* the turn was started or after.                                          *)
Say_Ends ==
    /\ \/ cowork.sending = "live" /\ turnRun[Len(turnRun)] # "open"
       \/ cowork.sending = "started" /\ turnRun[Len(turnRun)] = "refused"
    /\ cowork' = Settle([Loaded EXCEPT !.sending = "no"])
    /\ DropRefresh
    /\ UNCHANGED <<messages, talkPhase, turnRun, advance>>

Say_Breaks ==
    /\ cowork.sending # "no"
    /\ cowork' = Settle([cowork EXCEPT !.sending = "no", !.list = Saved(@)])
    /\ DropRefresh
    /\ UNCHANGED <<messages, talkPhase, turnRun, advance>>

(* The refresh: every five seconds, and when the window is shown again.    *)
AskRefresh ==
    /\ cowork.loaded /\ cowork.sending = "no" /\ refresh = NoMail
    /\ refresh' = Mail
    /\ UNCHANGED <<messages, talkPhase, turnRun, cowork, advance>>

RefreshArrives ==
    /\ cowork.loaded /\ refresh # NoMail
    /\ cowork' = Settle([cowork EXCEPT !.list = refresh.list, !.phase = refresh.phase])
    /\ refresh' = NoMail
    /\ UNCHANGED <<messages, talkPhase, turnRun, advance>>

(* Mutant: the last phase has a next one.                                  *)
ClickAdvanceBeyond ==
    /\ cowork.loaded /\ cowork.sending = "no" /\ advance.at = "none" /\ cowork.phase <= LastPhase
    /\ advance' = [NoAdvance EXCEPT !.at = "asked", !.heard = TRUE, !.to = cowork.phase + 1]
    /\ UNCHANGED <<messages, talkPhase, turnRun, cowork, refresh>>

(* advancePhase, from the phase that is shown; it does not keep a turn     *)
(* from being sent.  Requests of the panel reach the sidecar in the order  *)
(* they are sent, so the one before was served when this one is sent.      *)
ClickAdvance ==
    /\ cowork.loaded /\ cowork.sending = "no" /\ advance.at = "none" /\ cowork.phase < LastPhase
    /\ advance' = [NoAdvance EXCEPT !.at = "asked", !.heard = TRUE, !.to = cowork.phase + 1]
    /\ UNCHANGED <<messages, talkPhase, turnRun, cowork, refresh>>

SetPhase ==
    /\ advance.at = "asked"
    /\ talkPhase' = advance.to
    /\ advance' = IF advance.heard
                  THEN [advance EXCEPT !.at = "answered", !.mail = [list |-> messages, phase |-> advance.to]]
                  ELSE NoAdvance
    /\ UNCHANGED <<messages, turnRun, cowork, refresh>>

AdvanceArrives ==
    /\ advance.at = "answered" /\ cowork.loaded
    /\ cowork' = Settle([cowork EXCEPT !.list = advance.mail.list, !.phase = advance.mail.phase])
    /\ advance' = NoAdvance
    /\ DropRefresh
    /\ UNCHANGED <<messages, talkPhase, turnRun>>

ChatNext ==
    \/ OpenChat \/ LeaveChat \/ ChatLoads
    \/ Say \/ Say_Started \/ Say_Saved \/ Say_Ends \/ Say_Breaks
    \/ AskRefresh \/ RefreshArrives \/ ClickAdvance \/ SetPhase \/ AdvanceArrives
    \/ \E k \in 1 .. Len(turnRun) : TurnEnds(k)

ChatSpec == ChatInit /\ [][ChatNext]_chatVars
----------------------------------------------------------------------------
ShownMessages(c) == {c.list[i] : i \in 1 .. Len(c.list)}

ChatTypeOK ==
    /\ talkPhase \in 1 .. LastPhase /\ Len(turnRun) <= MaxTurns
    /\ cowork.phase \in 0 .. LastPhase /\ cowork.sending \in {"no", "asking", "started", "live"}
    /\ \A m \in ShownMessages(cowork) : m.turn \in 0 .. Len(turnRun)
    /\ cowork.loaded => cowork.open

(* What the panel has shown of the conversation stays on it: no answer to  *)
(* an older question takes a message back, or the text of a message that   *)
(* was filled, whatever order the answers come in.  Only the answer to a   *)
(* change of phase may, which nothing keeps from being overtaken.          *)
NeverForgets ==
    [][cowork.loaded /\ cowork'.loaded /\ ~AdvanceArrives =>
           \A m \in ShownMessages(cowork) :
               m.turn = 0 \/ m \in ShownMessages(cowork') \/ [m EXCEPT !.filled = TRUE] \in ShownMessages(cowork')]_chatVars

(* The panel hides the placeholder of an unfinished turn because it shows  *)
(* the run instead; so a hidden placeholder is never without a live run on *)
(* the panel, however the stream of its turn came to an end.               *)
NoSilentTurn ==
    cowork.loaded /\ Trailing(cowork.list) => cowork.sending # "no" \/ cowork.reattaching

(* The phase of a conversation never goes back, although the button sends  *)
(* the number after the one the panel shows, and shows it from a copy.     *)
PhaseOnward == [][talkPhase' >= talkPhase]_chatVars

(* The panel follows the conversation, whichever of its four answers comes *)
(* first and however a turn ends.                                          *)
ChatFaithful == [](ChatTypeOK /\ NoSilentTurn) /\ NeverForgets /\ PhaseOnward
====
