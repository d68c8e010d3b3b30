---- MODULE Scope ----
(***************************************************************************)
(* What a quote is made of: stories written by hand, seeded from a kit     *)
(* (core/use-cases/kit-templates.ts) or materialized from a conversation   *)
(* with the sales agent (sidecar/modules/discovery), and the window in     *)
(* which the operator holds that conversation (DiscoveryChat.tsx).         *)
(*                                                                         *)
(* A turn waits for the agent, and the operator goes on meanwhile.  The    *)
(* steps of a handler between two such waits are one action, except that   *)
(* the process may die between the commits of a kit or a materialization,  *)
(* and that both stop at the first story whose code exists anywhere        *)
(* (stories.code is unique in the whole database).                         *)
(***************************************************************************)
EXTENDS Quotes

CONSTANTS
    Proposals,   \* numbers of stories the agent proposes, 0 for an empty list
    KitSize,     \* stories of the kit
    ByHand,      \* numbers of the stories the operator writes
    MaxNumber,   \* bound on the number of a story
    MaxAsks,     \* bound on the messages of a conversation
    MaxConvs     \* bound on conversations

(* A module to which neither the kit nor the hand gives a margin has 0.    *)
ASSUME ScopeBounds ==
    /\ 0 \in Margins
    /\ Proposals \cup ByHand \subseteq Nat /\ KitSize \in Nat
    /\ MaxNumber \in Nat /\ MaxAsks \in Nat /\ MaxConvs \in Nat

VARIABLES
    stories,     \* rows: code and version of the quote
    tasked,      \* codes of the stories whose first task exists
    convs,       \* conversations, in the order they were started
    turns,       \* turns the agent is answering; heard while the window is there
    chat,        \* the window: what it shows and the calls it waits for
    (* observers *)
    crossed,     \* conversations in which two turns were under way at once
    unheard,     \* conversations with a turn whose window was closed
    blind,       \* conversations with a turn under way when they were
                 \* approved, or sent before the approval arrived
    clicked,     \* the draft that was shown when it was approved last
    taken,       \* what the operator approved and what was materialized
    halved       \* a kit or a materialization stopped in the middle

talk == <<convs, turns, crossed, unheard>>
sight == <<blind, clicked>>
scopeVars == <<stories, tasked, convs, turns, chat, crossed, unheard, sight, taken, halved>>
pricing == <<deal, rows, panel, quotes, adrift>>

NoDraft == [of |-> 0, size |-> 0]
NoView == [conv |-> 0, status |-> "none", draft |-> NoDraft,
           sending |-> FALSE, approving |-> FALSE]
Number(n) == <<"P", n>>
KitCode(i, s) == <<"K", i, s>>

ScopeInit ==
    /\ stories = {} /\ tasked = {}
    /\ convs = <<>> /\ turns = {}
    /\ chat = NoView
    /\ crossed = {} /\ unheard = {} /\ blind = {} /\ clicked = NoDraft
    /\ taken = <<>> /\ halved = FALSE
----------------------------------------------------------------------------
(* Stories and their first task.                                           *)

CodesOf(v) == {s.code : s \in {r \in stories : r.quote = v}}
Exists(code) == \E s \in stories : s.code = code

(* Mutant: codes are unique within a quote.                                *)
CreateStoryPerQuote(code, v) ==
    /\ v \in 1 .. Latest /\ code \notin CodesOf(v)
    /\ stories' = stories \cup {[code |-> code, quote |-> v]}
    /\ UNCHANGED <<tasked, talk, chat, sight, taken, halved, pricing, died>>

(* Mutant: the quote is not looked up.                                     *)
CreateStoryAnywhere(code, v) ==
    /\ ~Exists(code)
    /\ stories' = stories \cup {[code |-> code, quote |-> v]}
    /\ UNCHANGED <<tasked, talk, chat, sight, taken, halved, pricing, died>>

(* createStory asks nothing of the quote but that it exists.               *)
CreateStory(code, v) ==
    /\ v \in 1 .. Latest /\ ~Exists(code)
    /\ stories' = stories \cup {[code |-> code, quote |-> v]}
    /\ UNCHANGED <<tasked, talk, chat, sight, taken, halved, pricing, died>>

CreateTask(code) ==
    /\ Exists(code) /\ code \notin tasked
    /\ tasked' = tasked \cup {code}
    /\ UNCHANGED <<stories, talk, chat, sight, taken, halved, pricing, died>>

(* How many of the codes a handler can create before one exists already.   *)
Room(codes) == Max({n \in 0 .. Len(codes) : \A i \in 1 .. n : ~Exists(codes[i])})

(* The rows of version v once the first n codes are stories and the first  *)
(* t of them have a task.                                                  *)
Commit(codes, n, t, v) ==
    /\ stories' = stories \cup {[code |-> codes[i], quote |-> v] : i \in 1 .. n}
    /\ tasked' = tasked \cup {codes[i] : i \in 1 .. t}

DieInHandler == Die /\ turns' = {} /\ halved' = TRUE
----------------------------------------------------------------------------
(* Kits.                                                                   *)

(* nextStoryCode: a suffix is looked for among the stories of this quote.  *)
KitCodes(v) ==
    [i \in 1 .. KitSize |->
        KitCode(i, Min({s \in 1 .. Cardinality(stories) + 1 :
                            KitCode(i, s) \notin CodesOf(v)}))]

(* The modules and milestones of the snapshot, one row each, come first.   *)
Seeded(mod, ms, v) ==
    /\ palette' = IF mod = {} THEN palette
                  ELSE [palette EXCEPT ![CHOOSE m \in mod : TRUE] = 0]
    /\ milestones' = IF ms = {} THEN milestones
                     ELSE [milestones EXCEPT ![CHOOSE m \in ms : TRUE] =
                               [quote |-> v, share |-> 0, sort |-> Bottom(milestones, v)]]

SnapshotRows(v) ==
    \E mod \in SUBSET {m \in Modules : palette[m] = Absent},
       ms \in SUBSET {m \in Milestones : milestones[m] = NoMilestone} :
        /\ Cardinality(mod) = 1 /\ Cardinality(ms) = 1
        /\ Bottom(milestones, v) <= MaxPlace
        /\ Seeded(mod, ms, v)

(* instantiateKit seeds the latest version, which must be a draft, and     *)
(* derives its totals at the end.                                          *)
InstantiateKit ==
    LET codes == KitCodes(Latest)
    IN  /\ IsDraft(Latest)
        /\ SnapshotRows(Latest)
        /\ UNCHANGED <<deal, items, panel, talk, chat, sight, taken>>
        /\ \/ /\ Room(codes) = KitSize
              /\ Commit(codes, KitSize, 0, Latest)
              /\ Recompute(items, Latest)
              /\ UNCHANGED <<halved, died>>
           \/ /\ Room(codes) < KitSize
              /\ Commit(codes, Room(codes), 0, Latest)
              /\ halved' = TRUE
              /\ UNCHANGED <<quotes, adrift, died>>

CutKit ==
    LET codes == KitCodes(Latest)
    IN  /\ IsDraft(Latest)
        /\ SnapshotRows(Latest)
        /\ \E n \in 0 .. Room(codes) : Commit(codes, n, 0, Latest)
        /\ DieInHandler
        /\ chat' = [chat EXCEPT !.sending = FALSE, !.approving = FALSE]
        /\ UNCHANGED <<deal, items, shown, quotes, adrift, convs, crossed, unheard, sight, taken>>
----------------------------------------------------------------------------
(* The conversation.                                                       *)

Open(c) == c \in 1 .. Len(convs) /\ convs[c].status # "archived"
View(c) == [NoView EXCEPT !.conv = c, !.status = convs'[c].status,
                          !.draft = convs'[c].draft]
Deaf == {[t EXCEPT !.heard = FALSE] : t \in turns}

(* The window mounts: getOrStartConversation resumes the one that is not   *)
(* archived.  The window before it hears nothing more.                     *)
Mount ==
    /\ ~chat.approving
    /\ LET open == {c \in 1 .. Len(convs) : Open(c)}
       IN  \/ /\ open # {}
              /\ UNCHANGED convs
              /\ chat' = View(Max(open))
           \/ /\ open = {} /\ Len(convs) < MaxConvs
              /\ convs' = Append(convs, [status |-> "active", asks |-> 0, draft |-> NoDraft])
              /\ chat' = View(Len(convs'))
    /\ turns' = Deaf
    /\ unheard' = unheard \cup {t.conv : t \in turns}
    /\ UNCHANGED <<stories, tasked, crossed, sight, taken, halved, pricing, died>>

(* Mutant: a message does not reopen the conversation.                     *)
SendKeepsStatus ==
    LET c == chat.conv
    IN  /\ chat.status = "active" /\ ~chat.sending
        /\ Open(c) /\ convs[c].asks < MaxAsks
        /\ convs' = [convs EXCEPT ![c].asks = @ + 1]
        /\ turns' = turns \cup {[conv |-> c, ask |-> convs[c].asks + 1, heard |-> TRUE]}
        /\ chat' = [chat EXCEPT !.sending = TRUE]
        /\ crossed' = IF \E t \in turns : t.conv = c THEN crossed \cup {c} ELSE crossed
        /\ blind' = IF chat.approving THEN blind \cup {c} ELSE blind
        /\ UNCHANGED <<stories, tasked, unheard, clicked, taken, halved, pricing, died>>

(* send: the input is there unless the window believes the conversation    *)
(* converged or archived.  appendUserMessage reopens a converged one; the  *)
(* agent is then called with the transcript.                               *)
Send ==
    LET c == chat.conv
    IN  /\ chat.status = "active" /\ ~chat.sending
        /\ Open(c) /\ convs[c].asks < MaxAsks
        /\ convs' = [convs EXCEPT ![c].asks = @ + 1, ![c].status = "active"]
        /\ turns' = turns \cup {[conv |-> c, ask |-> convs[c].asks + 1, heard |-> TRUE]}
        /\ chat' = [chat EXCEPT !.sending = TRUE]
        /\ crossed' = IF \E t \in turns : t.conv = c THEN crossed \cup {c} ELSE crossed
        /\ blind' = IF chat.approving THEN blind \cup {c} ELSE blind
        /\ UNCHANGED <<stories, tasked, unheard, clicked, taken, halved, pricing, died>>

(* An archived conversation refuses the message: the window reads it anew. *)
SendRefused ==
    /\ chat.status = "active" /\ ~chat.sending
    /\ chat.conv # 0 /\ ~Open(chat.conv)
    /\ UNCHANGED convs
    /\ chat' = [View(chat.conv) EXCEPT !.approving = chat.approving]
    /\ UNCHANGED <<stories, tasked, turns, crossed, unheard, sight, taken, halved, pricing, died>>

(* Mutant: the window takes over the status and keeps the draft it shows.  *)
HearStatus(t, view) ==
    chat' = IF t.heard
            THEN [view EXCEPT !.approving = chat.approving,
                              !.draft = IF chat.draft = NoDraft THEN @ ELSE chat.draft]
            ELSE chat

(* The window hears the end of turn t: with the draft it carries (done),   *)
(* or by reading the conversation anew (error, or a stream without done).  *)
Hear(t, view) ==
    chat' = IF t.heard THEN [view EXCEPT !.approving = chat.approving] ELSE chat

(* Mutant: the draft is stored whatever has become of the conversation.    *)
ProposeLate(t, size) ==
    LET c == t.conv
    IN  /\ turns' = turns \ {t}
        /\ convs' = [convs EXCEPT ![c].status = "converged",
                                  ![c].draft = [of |-> t.ask, size |-> size]]
        /\ Hear(t, View(c))
        /\ UNCHANGED <<stories, tasked, crossed, unheard, sight, taken, halved, pricing, died>>

(* The agent proposes a list of stories: the draft is replaced and the     *)
(* conversation converges.  The message is stored even if the conversation *)
(* was archived meanwhile, but then the draft is refused.                  *)
Propose(t, size) ==
    LET c == t.conv
    IN  /\ turns' = turns \ {t}
        /\ convs' = IF Open(c) THEN [convs EXCEPT ![c].status = "converged",
                                                  ![c].draft = [of |-> t.ask, size |-> size]]
                               ELSE convs
        /\ Hear(t, View(c))
        /\ UNCHANGED <<stories, tasked, crossed, unheard, sight, taken, halved, pricing, died>>

(* The agent answers with a question: nothing but the message is stored,   *)
(* and the window keeps the status and the draft it showed.                *)
Reply(t) ==
    /\ turns' = turns \ {t}
    /\ UNCHANGED convs
    /\ Hear(t, [chat EXCEPT !.sending = FALSE])
    /\ UNCHANGED <<stories, tasked, crossed, unheard, sight, taken, halved, pricing, died>>

(* The call fails or runs into CLI_TIMEOUT_MS.                             *)
TurnFails(t) ==
    /\ turns' = turns \ {t}
    /\ UNCHANGED convs
    /\ Hear(t, View(t.conv))
    /\ UNCHANGED <<stories, tasked, crossed, unheard, sight, taken, halved, pricing, died>>

(* "Pedir ajustes" brings the input back; the server is not told.          *)
RequestAdjustments ==
    /\ chat.status = "converged" /\ chat.draft.size > 0 /\ ~chat.approving
    /\ chat' = [chat EXCEPT !.status = "active"]
    /\ UNCHANGED <<stories, tasked, talk, sight, taken, halved, pricing, died>>

(* "Aprobar" is offered whenever a draft is shown.                         *)
ClickApprove ==
    /\ chat.draft.size > 0 /\ chat.status # "archived" /\ ~chat.approving
    /\ chat' = [chat EXCEPT !.approving = TRUE]
    /\ clicked' = chat.draft
    /\ blind' = IF \E t \in turns : t.conv = chat.conv THEN blind \cup {chat.conv} ELSE blind
    /\ UNCHANGED <<stories, tasked, talk, taken, halved, pricing, died>>

(* approveDraftAndMaterialize: the architecture story unless the version   *)
(* has it, then a story per entry under the next numbers.                  *)
Numbers(v) == {n \in 0 .. MaxNumber : Number(n) \in CodesOf(v)}
Fresh(c, v) ==
    LET top == Max({0} \cup Numbers(v))
        entries == [i \in 1 .. convs[c].draft.size |-> Number(top + i)]
    IN  IF 0 \in Numbers(v) THEN entries ELSE <<Number(0)>> \o entries

Approvable(c) ==
    /\ convs[c].status = "converged" /\ convs[c].draft.size > 0
    /\ \A i \in DOMAIN Fresh(c, Latest) : Fresh(c, Latest)[i][2] <= MaxNumber

(* Mutant: a story that cannot be created is passed over.                  *)
MaterializeRegardless ==
    LET c == chat.conv
        codes == Fresh(c, Latest)
    IN  /\ chat.approving /\ Approvable(c)
        /\ Commit(codes, Room(codes), Room(codes), Latest)
        /\ convs' = [convs EXCEPT ![c].status = "archived"]
        /\ taken' = Append(taken, [conv |-> c, shown |-> clicked, quote |-> Latest,
                                   codes |-> {codes[i] : i \in DOMAIN codes}])
        /\ chat' = [chat EXCEPT !.approving = FALSE, !.status = "archived"]
        /\ UNCHANGED <<turns, crossed, unheard, sight, halved, pricing, died>>

(* Mutant: only the window closes the conversation.                        *)
MaterializeKeepsOpen ==
    LET c == chat.conv
        codes == Fresh(c, Latest)
    IN  /\ chat.approving /\ Approvable(c) /\ Room(codes) = Len(codes)
        /\ Commit(codes, Len(codes), Len(codes), Latest)
        /\ taken' = Append(taken, [conv |-> c, shown |-> clicked, quote |-> Latest,
                                   codes |-> {codes[i] : i \in DOMAIN codes}])
        /\ chat' = [chat EXCEPT !.approving = FALSE, !.status = "archived"]
        /\ UNCHANGED <<convs, turns, crossed, unheard, sight, halved, pricing, died>>

Materialize ==
    LET c == chat.conv
        codes == Fresh(c, Latest)
    IN  /\ chat.approving /\ Approvable(c)
        /\ UNCHANGED <<turns, crossed, unheard, sight, pricing, died>>
        /\ \/ /\ Room(codes) = Len(codes)
              /\ Commit(codes, Len(codes), Len(codes), Latest)
              /\ convs' = [convs EXCEPT ![c].status = "archived"]
              /\ taken' = Append(taken, [conv |-> c, shown |-> clicked, quote |-> Latest,
                                         codes |-> {codes[i] : i \in DOMAIN codes}])
              /\ chat' = [chat EXCEPT !.approving = FALSE, !.status = "archived"]
              /\ UNCHANGED halved
           \/ /\ Room(codes) < Len(codes)
              /\ Commit(codes, Room(codes), Room(codes), Latest)
              /\ chat' = [chat EXCEPT !.approving = FALSE]
              /\ halved' = TRUE
              /\ UNCHANGED <<convs, taken>>

(* Without a draft to approve the request is refused; an archived          *)
(* conversation answers with what the quote has.                           *)
ApproveRefused ==
    LET c == chat.conv
    IN  /\ chat.approving
        /\ convs[c].status # "converged" \/ convs[c].draft.size = 0
        /\ chat' = [chat EXCEPT !.approving = FALSE,
                        !.status = IF Open(c) THEN @ ELSE "archived"]
        /\ UNCHANGED <<stories, tasked, talk, sight, taken, halved, pricing, died>>

CutMaterialize ==
    LET c == chat.conv
        codes == Fresh(c, Latest)
    IN  /\ chat.approving /\ Approvable(c)
        /\ \E n \in 0 .. Room(codes), t \in {0, 1} :
               t <= n /\ Commit(codes, n, n - t, Latest)
        /\ DieInHandler
        /\ chat' = [chat EXCEPT !.approving = FALSE, !.sending = FALSE]
        /\ UNCHANGED <<deal, rows, shown, quotes, adrift, convs, crossed, unheard, sight, taken>>

KitNext == \/ \E s \in stories : CreateTask(s.code)
           \/ InstantiateKit \/ CutKit

TalkNext ==
    \/ \E n \in ByHand, v \in 1 .. MaxVersions : CreateStory(Number(n), v)
    \/ Mount \/ Send \/ SendRefused
    \/ \E t \in turns : \/ \E size \in Proposals : Propose(t, size)
                        \/ Reply(t) \/ TurnFails(t)
    \/ RequestAdjustments \/ ClickApprove
    \/ Materialize \/ ApproveRefused \/ CutMaterialize

ScopeNext == KitNext \/ TalkNext \/ (LifeNext /\ UNCHANGED scopeVars)

ScopeSpec == QuoteInit /\ ScopeInit /\ [][ScopeNext]_<<quoteVars, scopeVars>>
----------------------------------------------------------------------------
ScopeTypeOK ==
    /\ \A s \in stories : s.quote \in 1 .. Latest
    /\ \A c \in 1 .. Len(convs) :
           /\ convs[c].status \in {"active", "converged", "archived"}
           /\ convs[c].draft.of \in 0 .. convs[c].asks
           /\ convs[c].draft.size \in Proposals \cup {0}
    /\ chat.conv \in 0 .. Len(convs)
    /\ \A t \in turns : t.conv \in 1 .. Len(convs) /\ t.ask \in 1 .. convs[t.conv].asks
    /\ halved \in BOOLEAN

(* stories.code is the name of a story everywhere (evidence, workspaces,   *)
(* commits): no two stories, of whatever version, share one, and a task    *)
(* always belongs to a story that is there.                                *)
CodesNameOneStory ==
    /\ \A s, r \in stories : s.code = r.code => s = r
    /\ \A code \in tasked : Exists(code)

(* core/discovery.ts: a message reopens a converged conversation, so one   *)
(* that is converged holds the proposal made for its last message, unless  *)
(* two turns overlapped (a window that was closed does not stop its turn). *)
ConvergedOnLastMessage ==
    \A c \in (1 .. Len(convs)) \ crossed :
        convs[c].status = "converged" => convs[c].draft.of = convs[c].asks

(* Approving materializes the draft the operator read when they clicked,   *)
(* unless a turn was under way then, was sent before the request arrived,  *)
(* or had lost its window: the request carries no draft, the server takes  *)
(* whatever it holds when it arrives.                                      *)
ApprovedAsShown ==
    \A i \in DOMAIN taken :
        taken[i].conv \notin blind \cup unheard => taken[i].shown = convs[taken[i].conv].draft

(* An archived conversation left a story with a task for each entry, and   *)
(* the architecture story with its task, all in one version, unless a kit  *)
(* or a materialization was stopped half-way, by a code that existed or by *)
(* the death of the process.                                               *)
MaterializedWhole ==
    \A i \in DOMAIN taken :
        /\ Cardinality(taken[i].codes) >= convs[taken[i].conv].draft.size
        /\ taken[i].codes \subseteq CodesOf(taken[i].quote) \cap tasked

(* What an approval leaves behind is what the operator read, whole, under  *)
(* codes of its own, whatever turns, crashes and taken codes came between. *)
MaterializedAsApproved == CodesNameOneStory /\ ApprovedAsShown /\ MaterializedWhole

(* One approval per conversation: it is archived by it, and from then on   *)
(* no late answer changes its draft or takes it back, and no second click  *)
(* or window materializes it again.                                        *)
ArchivedIsClosed ==
    /\ \A i, j \in DOMAIN taken : taken[i].conv = taken[j].conv => i = j
    /\ \A c \in 1 .. Len(convs) :
           convs[c].status = "archived" <=> \E i \in DOMAIN taken : taken[i].conv = c

(* What was approved is never taken back nor altered.                      *)
DraftFrozen ==
    [][\A c \in 1 .. Len(convs) : ~Open(c) => convs'[c] = convs[c]]_<<quoteVars, scopeVars>>

(* A conversation goes from active to converged and back with its messages *)
(* and ends with its approval, also where turns overlap and answer late.   *)
ConversationInOrder ==
    [](ScopeTypeOK /\ ConvergedOnLastMessage /\ ArchivedIsClosed) /\ DraftFrozen
====
