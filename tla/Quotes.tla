---- MODULE Quotes ----
(***************************************************************************)
(* The quote of a project and the phases it opens: core/use-cases/         *)
(* quotes.ts over domain/state-machines/quote.ts and the SQLite storage,   *)
(* with the quote panel of the user interface as one of its clients.       *)
(*                                                                         *)
(* A request commits without waiting for anything but the database, so it  *)
(* is one action; the process may die between the row of an item and the   *)
(* totals derived from it (cut).  Moving an item is two requests of the    *)
(* panel, and other requests come between them.                            *)
(***************************************************************************)
EXTENDS Integers, Sequences, FiniteSetsExt, Functions

CONSTANTS
    Items,        \* quote_items rows
    Milestones,   \* quote_milestones rows
    Modules,      \* quote_modules rows, the palette of the project
    Moves,        \* moves the panel has under way (bound: how many at once)
    Patches,      \* statuses a PATCH of the project writes
    Hours,        \* minutes an item is given
    Rates,        \* cents an hour
    Margins,      \* basis points
    Shares,       \* basis points of a milestone
    Discounts,    \* basis points
    HandTotals,   \* totals written by a PATCH of the quote
    MaxPlace,     \* bound on sortOrder
    MaxVersions,  \* bound
    MaxCrashes    \* bound

ASSUME QuoteBounds ==
    /\ MaxPlace \in Nat /\ MaxVersions \in Nat \ {0} /\ MaxCrashes \in Nat
    /\ Patches \subseteq {"draft", "active", "paused", "closed_won", "closed_lost"}
    /\ Hours \cup Rates \cup Margins \cup Shares \cup Discounts \cup HandTotals
         \subseteq Nat

VARIABLES
    project,     \* projects.status
    phases,      \* status of the phases the code creates, "none" for no row
    quotes,      \* the versions of the quote, by version
    items, milestones, palette,
    shown,       \* the items as the panel last fetched them: their sortOrder
    moves,       \* the second request of a move, still to be sent
    (* observers *)
    adrift,      \* versions whose totals were not derived from their items
    tangled,     \* a move began on an old view or beside another move, an
                 \* item was added between its requests, or it was cut
    died         \* crashes so far

deal == <<project, phases>>
rows == <<items, milestones, palette>>
panel == <<shown, moves, tangled>>
quoteVars == <<deal, quotes, rows, panel, adrift, died>>

ProjectStatuses == {"draft", "active", "paused", "closed_won", "closed_lost"}
QuoteStatuses == {"draft", "sent", "changes_requested", "approved", "rejected"}
NoItem == [quote |-> 0, hours |-> 0, cents |-> 0, sort |-> 0]
NoMilestone == [quote |-> 0, share |-> 0, sort |-> 0]
NoMove == [item |-> "none", sort |-> 0]
Absent == -1

QuoteInit ==
    /\ project = "draft"
    /\ phases = [F1_SALES |-> "in_progress", F2_KICKOFF |-> "none"]
    /\ quotes = <<[status |-> "draft", hours |-> 0, cents |-> 0, discount |-> 0]>>
    /\ items = [i \in Items |-> NoItem]
    /\ milestones = [m \in Milestones |-> NoMilestone]
    /\ palette = [m \in Modules |-> Absent]
    /\ shown = [i \in Items |-> 0]
    /\ moves = [m \in Moves |-> NoMove]
    /\ adrift = {}
    /\ tangled = FALSE
    /\ died = 0

Latest == Len(quotes)
Of(table, v) == {r \in DOMAIN table : table[r].quote = v}
(* Mutant: the place after as many as there are.                           *)
BottomByCount(table, v) == 10 * Cardinality(Of(table, v)) + 10
Bottom(table, v) == Max({0} \cup {table[r].sort : r \in Of(table, v)}) + 10

(* computeItemSubtotalCents: Math.round of minutes at an hourly rate with   *)
(* the margin on top.                                                       *)
Subtotal(hours, rate, margin) ==
    (2 * hours * rate * (10000 + margin) + 600000) \div 1200000

SumOver(f) == FoldFunction(LAMBDA a, b : a + b, 0, f)
HoursOf(table, v) == SumOver([r \in Of(table, v) |-> table[r].hours])
CentsOf(table, v) == SumOver([r \in Of(table, v) |-> table[r].cents])

Moving == \E m \in Moves : moves[m] # NoMove

(* The process dies: the requests of the panel that were under way fail.   *)
Die ==
    /\ died < MaxCrashes
    /\ died' = died + 1
    /\ moves' = [m \in Moves |-> NoMove]
    /\ tangled' = (tangled \/ Moving)

(* recomputeQuoteTotals after the rows of version v became table.          *)
Recompute(table, v) ==
    /\ quotes' = [quotes EXCEPT ![v].hours = HoursOf(table, v),
                                ![v].cents = CentsOf(table, v)]
    /\ adrift' = adrift \ {v}

ItemRows(table, v) ==
    /\ items' = table
    /\ UNCHANGED <<deal, milestones, palette, shown>>
    /\ \/ /\ Recompute(table, v)
          /\ tangled' = (tangled \/ (Moving /\ ~(Of(table, v) \subseteq Of(items, v))))
          /\ UNCHANGED <<moves, died>>
       \/ Die /\ adrift' = adrift \cup {v} /\ UNCHANGED quotes

IsDraft(v) == v \in 1 .. Latest /\ quotes[v].status = "draft"

(* createQuoteItem, by hand or from a module of the palette (rate 0).  Its  *)
(* id is new: no view and no request under way knows it.                   *)
CreateItem(i, v, h, r, m) ==
    /\ items[i] = NoItem /\ shown[i] = 0 /\ \A k \in Moves : moves[k].item # i
    /\ IsDraft(v) /\ Bottom(items, v) \in 0 .. MaxPlace
    /\ ItemRows([items EXCEPT ![i] =
           [quote |-> v, hours |-> h, cents |-> Subtotal(h, r, m),
            sort |-> Bottom(items, v)]], v)

PatchItem(i, h, r, m) ==
    /\ IsDraft(items[i].quote)
    /\ ItemRows([items EXCEPT ![i].hours = h, ![i].cents = Subtotal(h, r, m)],
                items[i].quote)

(* Mutant: the totals are derived only where an item is written.           *)
DeleteItemAlone(i) ==
    /\ IsDraft(items[i].quote)
    /\ items' = [items EXCEPT ![i] = NoItem]
    /\ UNCHANGED <<deal, quotes, milestones, palette, panel, adrift, died>>

DeleteItem(i) ==
    /\ IsDraft(items[i].quote)
    /\ ItemRows([items EXCEPT ![i] = NoItem], items[i].quote)

(* Mutant: the status of the quote is not looked at.                       *)
MilestoneRowAnyStatus(m, v, row) ==
    /\ v \in 1 .. Latest
    /\ milestones' = [milestones EXCEPT ![m] = row]
    /\ UNCHANGED <<deal, quotes, items, palette, panel, adrift, died>>

MilestoneRow(m, v, row) ==
    /\ IsDraft(v)
    /\ milestones' = [milestones EXCEPT ![m] = row]
    /\ UNCHANGED <<deal, quotes, items, palette, panel, adrift, died>>

CreateMilestone(m, v, s) ==
    /\ milestones[m] = NoMilestone /\ Bottom(milestones, v) \in 0 .. MaxPlace
    /\ MilestoneRow(m, v, [quote |-> v, share |-> s, sort |-> Bottom(milestones, v)])
PatchMilestone(m, s) ==
    MilestoneRow(m, milestones[m].quote, [milestones[m] EXCEPT !.share = s])
DeleteMilestone(m) == MilestoneRow(m, milestones[m].quote, NoMilestone)

(* The palette belongs to the project: no status of a quote guards it.     *)
SetModule(m, margin) ==
    /\ palette' = [palette EXCEPT ![m] = margin]
    /\ UNCHANGED <<deal, quotes, items, milestones, panel, adrift, died>>
CreateModule(m, margin) == palette[m] = Absent /\ SetModule(m, margin)
PatchModule(m, margin) == palette[m] # Absent /\ SetModule(m, margin)
DeleteModule(m) == palette[m] # Absent /\ SetModule(m, Absent)

(* What the event does to the row, and that its status allows it.          *)
QuoteEvent(v, from, row) ==
    /\ v \in 1 .. Latest
    /\ quotes[v].status \in from
    /\ quotes' = [quotes EXCEPT ![v] = row]

PatchDiscount(v, d) ==
    /\ QuoteEvent(v, {"draft", "sent"}, [quotes[v] EXCEPT !.discount = d])
    /\ UNCHANGED <<deal, rows, panel, adrift, died>>

(* Mutant: any quote that was not turned down takes new totals.            *)
PatchTotalsLate(v, t) ==
    /\ QuoteEvent(v, {"draft", "sent", "approved"}, [quotes[v] EXCEPT !.hours = t, !.cents = t])
    /\ adrift' = adrift \cup {v}
    /\ UNCHANGED <<deal, rows, panel, died>>

PatchTotals(v, t) ==
    /\ QuoteEvent(v, {"draft", "sent"}, [quotes[v] EXCEPT !.hours = t, !.cents = t])
    /\ adrift' = adrift \cup {v}
    /\ UNCHANGED <<deal, rows, panel, died>>

SendQuote(v) ==
    /\ QuoteEvent(v, {"draft"}, [quotes[v] EXCEPT !.status = "sent"])
    /\ UNCHANGED <<deal, rows, panel, adrift, died>>

(* approveQuoteAndOpenKickoff, one transaction: it rolls back when the     *)
(* project has a kickoff phase (phases_project_type_uq).                   *)
ApproveQuote(v) ==
    /\ QuoteEvent(v, {"sent"}, [quotes[v] EXCEPT !.status = "approved"])
    /\ phases.F2_KICKOFF = "none"
    /\ phases' = [F1_SALES |-> "approved", F2_KICKOFF |-> "pending"]
    /\ project' = "active"
    /\ UNCHANGED <<rows, panel, adrift, died>>

(* Mutant: the version the client has is left as it was sent.              *)
RequestChangesLeavesSent(v) ==
    /\ v = Latest /\ v < MaxVersions
    /\ quotes[v].status = "sent"
    /\ quotes' = Append(quotes, [quotes[v] EXCEPT !.status = "draft", !.discount = 0])
    /\ adrift' = adrift \cup {v + 1}
    /\ UNCHANGED <<deal, rows, panel, died>>

(* Mutant: changes can be asked for after the approval.                    *)
RequestChangesLate(v) ==
    /\ v = Latest /\ v < MaxVersions
    /\ quotes[v].status \in {"sent", "approved"}
    /\ quotes' = Append([quotes EXCEPT ![v].status = "changes_requested"],
                        [quotes[v] EXCEPT !.status = "draft", !.discount = 0])
    /\ adrift' = adrift \cup {v + 1}
    /\ UNCHANGED <<deal, rows, panel, died>>

(* requestQuoteChanges: the next draft carries the totals but neither the  *)
(* items nor the discount; quotes_phase_version_uq refuses a version that  *)
(* exists.                                                                 *)
RequestChanges(v) ==
    /\ v = Latest /\ v < MaxVersions
    /\ quotes[v].status = "sent"
    /\ quotes' = Append([quotes EXCEPT ![v].status = "changes_requested"],
                        [quotes[v] EXCEPT !.status = "draft", !.discount = 0])
    /\ adrift' = adrift \cup {v + 1}
    /\ UNCHANGED <<deal, rows, panel, died>>

PatchProject(s) ==
    /\ project' = s
    /\ UNCHANGED <<phases, quotes, rows, panel, adrift, died>>

(* The panel fetches the items of the current quote.                       *)
InView == [i \in Items |-> IF items[i].quote = Latest THEN items[i].sort ELSE 0]
Refresh ==
    /\ shown # InView
    /\ shown' = InView
    /\ UNCHANGED <<deal, quotes, rows, moves, tangled, adrift, died>>

Sorted(i, s) ==
    /\ items' = [items EXCEPT ![i].sort = s]
    /\ UNCHANGED <<deal, milestones, palette, shown, died>>

(* onMoveUp, onMoveDown: item i takes the place its neighbour j has in the *)
(* view; then j is given the place i had.  Nothing disables the buttons    *)
(* meanwhile.                                                              *)
StartMove(m, i, j) ==
    /\ i # j /\ shown[i] # 0 /\ shown[j] # 0
    /\ \A k \in Items : shown[k] # 0 =>
           ~(shown[i] < shown[k] /\ shown[k] < shown[j])
           /\ ~(shown[j] < shown[k] /\ shown[k] < shown[i])
    /\ moves[m] = NoMove
    /\ IsDraft(items[i].quote)
    /\ Sorted(i, shown[j])
    /\ Recompute(items', items[i].quote)
    /\ moves' = [moves EXCEPT ![m] = [item |-> j, sort |-> shown[i]]]
    /\ tangled' = (tangled \/ shown # InView \/ Moving)

FinishMove(m) ==
    LET j == moves[m].item
    IN  /\ moves[m] # NoMove
        /\ moves' = [moves EXCEPT ![m] = NoMove]
        /\ \/ /\ IsDraft(items[j].quote)
              /\ Sorted(j, moves[m].sort)
              /\ Recompute(items', items[j].quote)
              /\ UNCHANGED tangled
           \/ /\ ~IsDraft(items[j].quote)
              /\ tangled' = TRUE
              /\ UNCHANGED <<deal, quotes, rows, shown, adrift, died>>

(* What the sections of the panel ask for.                                 *)
NewItem ==
    \E i \in Items, v \in 1 .. MaxVersions, h \in Hours, r \in Rates, m \in Margins :
        CreateItem(i, v, h, r, m)
InstanceModule ==
    \E i \in Items, v \in 1 .. MaxVersions, h \in Hours, m \in Modules :
        palette[m] # Absent /\ CreateItem(i, v, h, 0, palette[m])
ItemRow ==
    \E i \in Items : \/ \E h \in Hours, r \in Rates, m \in Margins : PatchItem(i, h, r, m)
                     \/ DeleteItem(i)
ItemNext == NewItem \/ InstanceModule \/ ItemRow

MilestoneNext ==
    \/ \E m \in Milestones, s \in Shares :
           \/ \E v \in 1 .. MaxVersions : CreateMilestone(m, v, s)
           \/ PatchMilestone(m, s)
    \/ \E m \in Milestones : DeleteMilestone(m)

PaletteNext ==
    \E m \in Modules :
        \/ \E margin \in Margins : CreateModule(m, margin) \/ PatchModule(m, margin)
        \/ DeleteModule(m)

HandNext ==
    \/ \E v \in 1 .. MaxVersions :
           \/ \E d \in Discounts : PatchDiscount(v, d)
           \/ \E t \in HandTotals : PatchTotals(v, t)
    \/ \E s \in Patches : PatchProject(s)

LifeNext == \E v \in 1 .. MaxVersions : SendQuote(v) \/ ApproveQuote(v) \/ RequestChanges(v)

MoveNext ==
    \/ Refresh
    \/ \E m \in Moves : FinishMove(m) \/ \E i, j \in Items : StartMove(m, i, j)

QuoteNext == ItemNext \/ MilestoneNext \/ PaletteNext \/ HandNext \/ LifeNext \/ MoveNext

QuoteSpec == QuoteInit /\ [][QuoteNext]_quoteVars
----------------------------------------------------------------------------
(* What the reports read.                                                  *)

(* getProjectCostReport: the budget is the latest quote, once approved.    *)
Budget == IF quotes[Latest].status = "approved" THEN quotes[Latest].cents ELSE 0

(* getProjectMargin: the latest quote, approved or not, less its discount. *)
Quoted == (2 * quotes[Latest].cents * (10000 - quotes[Latest].discount) + 10000) \div 20000

QuoteTypeOK ==
    /\ project \in ProjectStatuses
    /\ phases \in [F1_SALES : {"in_progress", "approved"},
                   F2_KICKOFF : {"none", "pending"}]
    /\ Latest \in 1 .. MaxVersions
    /\ \A v \in 1 .. Latest :
           /\ quotes[v].status \in QuoteStatuses
           /\ quotes[v].discount \in Discounts \cup {0}
    /\ \A i \in Items : items[i].quote \in 0 .. Latest
    /\ \A m \in Milestones : milestones[m].quote \in 0 .. Latest
    /\ palette \in [Modules -> Margins \cup {Absent}]
    /\ adrift \subseteq 1 .. Latest
    /\ tangled \in BOOLEAN
    /\ died \in 0 .. MaxCrashes

(* Invariant 6 of domain/src/invariants (never called by the use cases):   *)
(* one version at most is being negotiated or approved, it is the latest,  *)
(* and every earlier one ended in changes_requested.                       *)
OneLiveQuote ==
    \A v \in 1 .. Latest :
        IF v < Latest THEN quotes[v].status = "changes_requested"
                      ELSE quotes[v].status \in {"draft", "sent", "approved"}

(* Invariants 1 and 2 of domain/src/invariants: the kickoff phase is there *)
(* exactly when a quote was approved, and then the sales phase is closed.  *)
KickoffAfterApproval ==
    (phases.F2_KICKOFF = "pending") <=> (quotes[Latest].status = "approved")

(* The versions of a quote and the phases of its project go together, in   *)
(* whatever order they are sent, approved and sent back.                   *)
QuotesInOrder == OneLiveQuote /\ KickoffAfterApproval

(* What was approved: the version with its items and its milestones.       *)
Agreed(v) == <<quotes[v], [i \in Of(items, v) |-> items[i]],
               [m \in Of(milestones, v) |-> milestones[m]]>>
AgreementFixed ==
    [][quotes[Latest].status = "approved" =>
           Latest' = Latest /\ Agreed(Latest)' = Agreed(Latest)]_quoteVars

(* What the cost report and the margin measure a project against is the    *)
(* same figure but for the discount, and is fixed by the approval: nothing *)
(* that happens to the quote or its project afterwards moves it.           *)
BudgetFixed ==
    [][quotes[Latest].status = "approved" =>
           Budget' = quotes[Latest].cents /\ Quoted' = Quoted]_quoteVars

(* domain/src/state-machines/quote.ts: approval is final.  No request, of  *)
(* the quote, its items, its milestones or a move under way in the panel,  *)
(* changes what was approved, opens another version, or moves what the     *)
(* reports measure the project against.                                    *)
ApprovalIsFinal == AgreementFixed /\ BudgetFixed

(* The totals of a version are the sums over its items, through every      *)
(* order of creating, changing, moving and deleting them, unless a PATCH   *)
(* wrote them, the version was carried over from the one before and no     *)
(* item was touched since, or the process died before they were derived.   *)
TotalsFollowItems ==
    \A v \in (1 .. Latest) \ adrift :
        /\ quotes[v].hours = HoursOf(items, v)
        /\ quotes[v].cents = CentsOf(items, v)

(* A move exchanges two places, so the places of a quote's items stay      *)
(* distinct when no move is between its requests; if they ever coincide, a *)
(* move was started on an old view or beside another, or lost its second   *)
(* request.  (Equal places would make every later move of them void.)      *)
PlacesDistinct ==
    ~tangled /\ ~Moving =>
        \A i, j \in Items : (i # j /\ items[i].quote # 0 /\ items[i].quote = items[j].quote)
                                => items[i].sort # items[j].sort
====
