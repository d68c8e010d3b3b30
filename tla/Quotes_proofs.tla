---- MODULE Quotes_proofs ----
(***************************************************************************)
(* What holds of a quote and of the stories it is made of, for any number  *)
(* of items, milestones, versions, conversations, messages and crashes.    *)
(* Of a sum over items nothing is used but that equal items have equal     *)
(* sums.                                                                   *)
(***************************************************************************)
EXTENDS Scope, DataFacts, SequenceTheorems, TLAPS

ItemRecord == [quote : 0 .. MaxVersions, hours : Int, cents : Int, sort : 0 .. MaxPlace]

(* The totals a version can have: sums over some items, or a hand's.       *)
Totals == {0} \cup HandTotals \cup {SumOver(f) : f \in UNION {[D -> Int] : D \in SUBSET Items}}
QuoteRow == [status : QuoteStatuses, hours : Totals, cents : Totals, discount : Discounts \cup {0}]

DealTypes ==
    /\ project \in ProjectStatuses
    /\ phases \in [F1_SALES : {"in_progress", "approved"}, F2_KICKOFF : {"none", "pending"}]
    /\ quotes \in Seq(QuoteRow)
    /\ Latest \in 1 .. MaxVersions
    /\ adrift \subseteq 1 .. Latest

RowTypes ==
    /\ items \in [Items -> ItemRecord]
    /\ milestones \in [Milestones -> [quote : 0 .. MaxVersions, share : Int, sort : 0 .. MaxPlace]]
    /\ \A i \in Items : items[i].quote <= Latest
    /\ \A m \in Milestones : milestones[m].quote <= Latest

PanelTypes ==
    /\ palette \in [Modules -> Margins \cup {Absent}]
    /\ shown \in [Items -> 0 .. MaxPlace]
    /\ moves \in [Moves -> {NoMove} \cup [item : Items, sort : 0 .. MaxPlace]]
    /\ tangled \in BOOLEAN
    /\ died \in 0 .. MaxCrashes

IInv ==
    /\ DealTypes /\ RowTypes /\ PanelTypes
    /\ OneLiveQuote /\ KickoffAfterApproval /\ TotalsFollowItems

(* The only fact about sums that is not about equal ones.                  *)
LEMMA SumOfNothing == \A f : DOMAIN f = {} => SumOver(f) = 0
<1> SUFFICES ASSUME NEW f, DOMAIN f = {} PROVE SumOver(f) = 0
  OBVIOUS
<1> DEFINE Body(it) == [s \in SUBSET (DOMAIN f) |->
                          IF s = {} THEN 0 ELSE LET x == CHOOSE y \in s : TRUE IN f[x] + it[s \ {x}]]
           zero == [s \in SUBSET (DOMAIN f) |-> 0]
           iter == CHOOSE it : it = Body(it)
<1>1. zero = Body(zero)
  <2>1. \A s \in SUBSET (DOMAIN f) : s = {}
    OBVIOUS
  <2> QED BY <2>1
<1>2. \E it : it = Body(it)
  BY <1>1
<1>3. iter = Body(iter)
  <2> HIDE DEF Body
  <2> QED BY <1>2
<1>4. {} \in SUBSET (DOMAIN f)
  OBVIOUS
<1>5. iter[{}] = 0
  BY <1>3, <1>4
<1>6. SumOver(f) = iter[{}]
  BY DEF SumOver, FoldFunction, FoldFunctionOnSet, MapThenFoldSet
<1> QED BY <1>5, <1>6

THEOREM InitInv == QuoteInit => IInv
<1> SUFFICES ASSUME QuoteInit PROVE IInv
  OBVIOUS
<1> DEFINE first == [status |-> "draft", hours |-> 0, cents |-> 0, discount |-> 0]
<1>1. first \in QuoteRow
  BY DEF QuoteRow, QuoteStatuses, Totals
<1>2. quotes = <<first>>
  BY DEF QuoteInit
<1>3. quotes \in Seq(QuoteRow) /\ Latest = 1 /\ quotes[1] = first
  BY <1>1, <1>2 DEF Latest
<1>4. DealTypes
  BY <1>3, QuoteBounds DEF QuoteInit, DealTypes, ProjectStatuses
<1>5. RowTypes
  BY <1>3, QuoteBounds DEF QuoteInit, RowTypes, ItemRecord, NoItem, NoMilestone
<1>6. PanelTypes
  <2>1. palette \in [Modules -> Margins \cup {Absent}] /\ moves \in [Moves -> {NoMove} \cup [item : Items, sort : 0 .. MaxPlace]]
    BY DEF QuoteInit
  <2>2. shown \in [Items -> 0 .. MaxPlace] /\ died \in 0 .. MaxCrashes
    BY QuoteBounds DEF QuoteInit
  <2>3. tangled \in BOOLEAN
    BY DEF QuoteInit
  <2> QED BY <2>1, <2>2, <2>3 DEF PanelTypes
<1>7. OneLiveQuote /\ KickoffAfterApproval
  BY <1>3 DEF QuoteInit, OneLiveQuote, KickoffAfterApproval
<1>8. TotalsFollowItems
  <2>1. Of(items, 1) = {}
    BY DEF QuoteInit, Of, NoItem
  <2>2. HoursOf(items, 1) = 0 /\ CentsOf(items, 1) = 0
    BY <2>1, SumOfNothing DEF HoursOf, CentsOf
  <2> QED BY <1>3, <2>2 DEF TotalsFollowItems
<1> QED BY <1>4, <1>5, <1>6, <1>7, <1>8 DEF IInv

-----------------------------------------------------------------------------
(* Versions.                                                               *)

LEMMA RowFields ==
  ASSUME NEW v \in 1 .. Latest, DealTypes
  PROVE  quotes[v] \in QuoteRow
BY ElementOfSeq DEF DealTypes, Latest

(* One row of a version is replaced.                                       *)
LEMMA RowReplaced ==
  ASSUME DealTypes, NEW v \in 1 .. Latest, NEW row \in QuoteRow, quotes' = [quotes EXCEPT ![v] = row]
  PROVE  /\ quotes' \in Seq(QuoteRow) /\ Latest' = Latest /\ quotes'[v] = row
         /\ \A w \in 1 .. Latest : w # v => quotes'[w] = quotes[w]
BY DEF DealTypes, Latest

(* A draft, and what was sent, is the latest version.                      *)
LEMMA LiveIsLatest ==
  ASSUME DealTypes, OneLiveQuote, NEW v \in 1 .. Latest, quotes[v].status # "changes_requested"
  PROVE  v = Latest
BY DEF OneLiveQuote, DealTypes

LEMMA SumsAreTotals ==
  ASSUME NEW table \in [Items -> ItemRecord], NEW v
  PROVE  HoursOf(table, v) \in Totals /\ CentsOf(table, v) \in Totals
<1> DEFINE D == Of(table, v)
           h == [r \in D |-> table[r].hours]
           c == [r \in D |-> table[r].cents]
<1>1. D \in SUBSET Items
  BY DEF Of
<1>2. h \in [D -> Int] /\ c \in [D -> Int]
  BY <1>1 DEF ItemRecord
<1>3. HoursOf(table, v) = SumOver(h) /\ CentsOf(table, v) = SumOver(c)
  BY DEF HoursOf, CentsOf
<1> HIDE DEF D, h, c
<1> QED BY <1>1, <1>2, <1>3 DEF Totals

(* Equal rows have equal sums.                                             *)
LEMMA SameSums ==
  ASSUME NEW s \in [Items -> ItemRecord], NEW t \in [Items -> ItemRecord], NEW v,
         \A i \in Items : (s[i].quote = v \/ t[i].quote = v) =>
             s[i].quote = t[i].quote /\ s[i].hours = t[i].hours /\ s[i].cents = t[i].cents
  PROVE  HoursOf(s, v) = HoursOf(t, v) /\ CentsOf(s, v) = CentsOf(t, v)
<1>1. Of(s, v) = Of(t, v)
  BY DEF Of
<1>2. [r \in Of(s, v) |-> s[r].hours] = [r \in Of(t, v) |-> t[r].hours]
  BY <1>1 DEF Of
<1>3. [r \in Of(s, v) |-> s[r].cents] = [r \in Of(t, v) |-> t[r].cents]
  BY <1>1 DEF Of
<1> QED BY <1>2, <1>3 DEF HoursOf, CentsOf

LEMMA Recomputed ==
  ASSUME DealTypes, NEW table \in [Items -> ItemRecord], NEW v \in 1 .. Latest, Recompute(table, v)
  PROVE  /\ quotes' \in Seq(QuoteRow) /\ Latest' = Latest
         /\ quotes'[v].hours = HoursOf(table, v) /\ quotes'[v].cents = CentsOf(table, v)
         /\ \A w \in 1 .. Latest : quotes'[w].status = quotes[w].status
         /\ \A w \in 1 .. Latest : w # v => quotes'[w] = quotes[w]
<1> DEFINE row == [quotes[v] EXCEPT !.hours = HoursOf(table, v), !.cents = CentsOf(table, v)]
<1>1. HoursOf(table, v) \in Totals /\ CentsOf(table, v) \in Totals
  BY SumsAreTotals
<1>2. quotes[v] \in QuoteRow
  BY RowFields
<1>3. /\ row \in QuoteRow /\ row.status = quotes[v].status
      /\ row.hours = HoursOf(table, v) /\ row.cents = CentsOf(table, v)
  BY <1>1, <1>2 DEF QuoteRow
<1>4. quotes' = [quotes EXCEPT ![v] = row]
  BY <1>2 DEF Recompute, DealTypes, Latest, QuoteRow
<1> HIDE DEF row
<1> QED BY <1>3, <1>4, RowReplaced

-----------------------------------------------------------------------------
(* The items of one draft change, and its totals with them or not.         *)

OnlyOf(v) ==
    \A i \in Items : items'[i] = items[i] \/ (items[i].quote \in {0, v} /\ items'[i].quote \in {0, v})

LEMMA ItemsChanged ==
  ASSUME IInv, PanelTypes', NEW v, IsDraft(v), OnlyOf(v), items' \in [Items -> ItemRecord],
         UNCHANGED <<deal, milestones>>,
         Recompute(items', v) \/ (adrift' = adrift \cup {v} /\ quotes' = quotes)
  PROVE  IInv'
<1>1. v \in 1 .. Latest /\ v # 0 /\ quotes[v].status = "draft"
  BY DEF IsDraft, IInv, DealTypes
<1>2. /\ quotes' \in Seq(QuoteRow) /\ Latest' = Latest /\ adrift' \subseteq 1 .. Latest
      /\ \A w \in 1 .. Latest : quotes'[w].status = quotes[w].status
      /\ \A w \in 1 .. Latest : w # v => quotes'[w] = quotes[w] /\ (w \in adrift <=> w \in adrift')
      /\ v \notin adrift' => quotes'[v].hours = HoursOf(items', v) /\ quotes'[v].cents = CentsOf(items', v)
  <2>1. CASE Recompute(items', v)
    <3>1. adrift' = adrift \ {v}
      BY <2>1 DEF Recompute
    <3>2. /\ quotes' \in Seq(QuoteRow) /\ Latest' = Latest
          /\ quotes'[v].hours = HoursOf(items', v) /\ quotes'[v].cents = CentsOf(items', v)
          /\ \A w \in 1 .. Latest : quotes'[w].status = quotes[w].status
          /\ \A w \in 1 .. Latest : w # v => quotes'[w] = quotes[w]
      BY <1>1, <2>1, Recomputed DEF IInv
    <3> QED BY <3>1, <3>2, <1>1 DEF IInv, DealTypes
  <2>2. CASE adrift' = adrift \cup {v} /\ quotes' = quotes
    BY <1>1, <2>2 DEF IInv, DealTypes, Latest
  <2> QED BY <2>1, <2>2
<1>3. DealTypes'
  BY <1>2 DEF IInv, DealTypes, deal
<1>4. RowTypes'
  <2>1. RowTypes /\ Latest' = Latest /\ Latest \in Nat /\ v <= Latest /\ v \in Nat /\ milestones' = milestones
    BY <1>1, <1>2 DEF IInv, DealTypes
  <2>2. \A i \in Items : items'[i].quote <= Latest
    BY <2>1 DEF OnlyOf, RowTypes
  <2>3. \A m \in Milestones : milestones'[m].quote <= Latest'
    BY <2>1 DEF RowTypes
  <2> QED BY <2>1, <2>2, <2>3 DEF RowTypes
<1>5. OneLiveQuote' /\ KickoffAfterApproval'
  BY <1>2 DEF IInv, OneLiveQuote, KickoffAfterApproval, deal, DealTypes
<1>6. TotalsFollowItems'
  <2> SUFFICES ASSUME NEW w \in 1 .. Latest, w \notin adrift'
               PROVE  quotes'[w].hours = HoursOf(items', w) /\ quotes'[w].cents = CentsOf(items', w)
    BY <1>2 DEF TotalsFollowItems, HoursOf, CentsOf, Of
  <2>1. CASE w # v
    <3>1. HoursOf(items, w) = HoursOf(items', w) /\ CentsOf(items, w) = CentsOf(items', w)
      <4>1. \A i \in Items : (items[i].quote = w \/ items'[i].quote = w) => items'[i] = items[i]
        BY <2>1 DEF OnlyOf, IInv, DealTypes
      <4> QED BY <4>1, SameSums DEF IInv, RowTypes
    <3> QED BY <1>2, <2>1, <3>1 DEF IInv, TotalsFollowItems
  <2>2. CASE w = v
    BY <1>2, <2>2
  <2> QED BY <2>1, <2>2
<1> QED BY <1>3, <1>4, <1>5, <1>6 DEF IInv

(* The dealings of the panel with the database: what PanelTypes needs.     *)
LEMMA Observed ==
  ASSUME PanelTypes, UNCHANGED <<palette, panel, died>>
  PROVE  PanelTypes'
BY DEF PanelTypes, panel

(* Whoever leaves the quote, its items and the phases alone.               *)
LEMMA DealStays ==
  ASSUME IInv, UNCHANGED <<deal, quotes, items, adrift>>
  PROVE  DealTypes' /\ OneLiveQuote' /\ KickoffAfterApproval' /\ TotalsFollowItems'
<1>1. Latest' = Latest /\ phases' = phases /\ project' = project
  BY DEF Latest, deal
<1>2. DealTypes'
  BY <1>1 DEF IInv, DealTypes
<1>3. OneLiveQuote' /\ KickoffAfterApproval'
  BY <1>1 DEF IInv, OneLiveQuote, KickoffAfterApproval
<1>4. \A v : HoursOf(items, v)' = HoursOf(items, v) /\ CentsOf(items, v)' = CentsOf(items, v)
  BY DEF HoursOf, CentsOf, Of
<1>5. TotalsFollowItems'
  BY <1>1, <1>4 DEF IInv, TotalsFollowItems
<1> QED BY <1>2, <1>3, <1>5

LEMMA RowsStay ==
  ASSUME IInv, UNCHANGED <<items, milestones>>, Latest' = Latest
  PROVE  RowTypes'
BY DEF IInv, RowTypes

LEMMA SubtotalIsInt ==
  ASSUME NEW h \in Hours, NEW r \in Rates \cup {0}, NEW m \in Margins
  PROVE  Subtotal(h, r, m) \in Int
<1>1. h \in Nat /\ r \in Nat /\ m \in Nat
  BY QuoteBounds
<1> DEFINE n == 2 * h * r * (10000 + m) + 600000
<1>2. n \in Int
  BY <1>1
<1>3. Subtotal(h, r, m) = n \div 1200000
  BY DEF Subtotal
<1> HIDE DEF n
<1> QED BY <1>2, <1>3

LEMMA TableWritten ==
  ASSUME IInv, NEW table \in [Items -> ItemRecord], NEW v, IsDraft(v), ItemRows(table, v), OnlyOf(v)
  PROVE  IInv'
<1>1. /\ items' = table /\ UNCHANGED <<deal, milestones, palette, shown>>
      /\ Recompute(items', v) \/ (adrift' = adrift \cup {v} /\ quotes' = quotes)
  BY DEF ItemRows, Recompute
<1>2. PanelTypes'
  <2>1. CASE UNCHANGED <<moves, died>> /\ tangled' = (tangled \/ (Moving /\ ~(Of(table, v) \subseteq Of(items, v))))
    BY <1>1, <2>1 DEF IInv, PanelTypes
  <2>2. CASE Die
    BY <1>1, <2>2, QuoteBounds DEF IInv, PanelTypes, Die
  <2> QED BY <2>1, <2>2 DEF ItemRows
<1> QED BY <1>1, <1>2, ItemsChanged

LEMMA ItemCreated ==
  ASSUME IInv, NEW i \in Items, NEW v, NEW h \in Hours, NEW r \in Rates \cup {0}, NEW m \in Margins,
         CreateItem(i, v, h, r, m)
  PROVE  IInv'
<1> DEFINE row == [quote |-> v, hours |-> h, cents |-> Subtotal(h, r, m), sort |-> Bottom(items, v)]
           table == [items EXCEPT ![i] = row]
<1>1. IsDraft(v) /\ ItemRows(table, v) /\ Bottom(items, v) \in 0 .. MaxPlace /\ items[i] = NoItem
  BY DEF CreateItem
<1>2. v \in 0 .. MaxVersions
  <2>1. Latest \in 1 .. MaxVersions /\ v \in 1 .. Latest
    BY <1>1 DEF IsDraft, IInv, DealTypes
  <2> QED BY <2>1, QuoteBounds
<1>3. row \in ItemRecord /\ row.quote = v
  BY <1>1, <1>2, SubtotalIsInt, QuoteBounds DEF ItemRecord
<1> HIDE DEF row
<1>4. table \in [Items -> ItemRecord] /\ table[i] = row /\ \A j \in Items : j # i => table[j] = items[j]
  BY <1>3 DEF IInv, RowTypes
<1>5. items' = table
  BY <1>1 DEF ItemRows
<1>6. OnlyOf(v)
  BY <1>1, <1>3, <1>4, <1>5 DEF OnlyOf, NoItem
<1> HIDE DEF table
<1> QED BY <1>1, <1>4, <1>6, TableWritten

LEMMA ItemRowChanged ==
  ASSUME IInv, ItemRow
  PROVE  IInv'
<1>1. ASSUME NEW i \in Items, NEW h \in Hours, NEW r \in Rates, NEW m \in Margins, PatchItem(i, h, r, m)
      PROVE  IInv'
  <2> DEFINE row == [items[i] EXCEPT !.hours = h, !.cents = Subtotal(h, r, m)]
             table == [items EXCEPT ![i] = row]
  <2>1. items[i] \in ItemRecord
    BY DEF IInv, RowTypes
  <2>2. row \in ItemRecord /\ row.quote = items[i].quote
    <3>1. h \in Int /\ Subtotal(h, r, m) \in Int
      BY SubtotalIsInt, QuoteBounds
    <3> HIDE DEF Subtotal
    <3> QED BY <2>1, <3>1 DEF ItemRecord
  <2>3. table = [items EXCEPT ![i].hours = h, ![i].cents = Subtotal(h, r, m)]
    BY <2>1 DEF IInv, RowTypes, ItemRecord
  <2>4. IsDraft(items[i].quote) /\ ItemRows(table, items[i].quote) /\ items' = table
    BY <1>1, <2>3 DEF PatchItem, ItemRows
  <2> HIDE DEF row
  <2>5. table \in [Items -> ItemRecord] /\ table[i] = row /\ \A j \in Items : j # i => table[j] = items[j]
    BY <2>2 DEF IInv, RowTypes
  <2>6. OnlyOf(items[i].quote)
    BY <2>2, <2>4, <2>5 DEF OnlyOf
  <2> HIDE DEF table
  <2> QED BY <2>4, <2>5, <2>6, TableWritten
<1>2. ASSUME NEW i \in Items, DeleteItem(i)
      PROVE  IInv'
  <2> DEFINE table == [items EXCEPT ![i] = NoItem]
  <2>1. IsDraft(items[i].quote) /\ ItemRows(table, items[i].quote) /\ items' = table
    BY <1>2 DEF DeleteItem, ItemRows
  <2>2. table \in [Items -> ItemRecord] /\ table[i] = NoItem /\ \A j \in Items : j # i => table[j] = items[j]
    BY QuoteBounds DEF IInv, RowTypes, ItemRecord, NoItem
  <2>3. OnlyOf(items[i].quote)
    BY <2>1, <2>2 DEF OnlyOf, NoItem
  <2> HIDE DEF table
  <2> QED BY <2>1, <2>2, <2>3, TableWritten
<1> QED BY <1>1, <1>2 DEF ItemRow

(* Moving an item: only its place changes.                                 *)
LEMMA PlaceChanged ==
  ASSUME IInv, NEW i \in Items, NEW s \in 0 .. MaxPlace, IsDraft(items[i].quote), Sorted(i, s),
         Recompute(items', items[i].quote),
         moves' \in [Moves -> {NoMove} \cup [item : Items, sort : 0 .. MaxPlace]], tangled' \in BOOLEAN
  PROVE  IInv'
<1> DEFINE row == [items[i] EXCEPT !.sort = s]
<1>1. items[i] \in ItemRecord
  BY DEF IInv, RowTypes
<1>2. row \in ItemRecord /\ row.quote = items[i].quote
  BY <1>1 DEF ItemRecord
<1>3. items' = [items EXCEPT ![i] = row]
  BY <1>1 DEF Sorted, IInv, RowTypes, ItemRecord
<1> HIDE DEF row
<1>4. items' \in [Items -> ItemRecord] /\ OnlyOf(items[i].quote)
  BY <1>2, <1>3 DEF IInv, RowTypes, OnlyOf
<1>5. PanelTypes'
  BY DEF Sorted, IInv, PanelTypes
<1>6. UNCHANGED <<deal, milestones>>
  BY DEF Sorted
<1> QED BY <1>4, <1>5, <1>6, ItemsChanged

LEMMA MovesKept ==
  ASSUME IInv, MoveNext
  PROVE  IInv'
<1>1. CASE Refresh
  <2>1. shown' = InView /\ UNCHANGED <<deal, quotes, rows, moves, tangled, adrift, died>>
    BY <1>1 DEF Refresh
  <2>2. shown' \in [Items -> 0 .. MaxPlace]
    BY <2>1, QuoteBounds DEF InView, IInv, RowTypes, ItemRecord
  <2>3. PanelTypes'
    BY <2>1, <2>2 DEF IInv, PanelTypes, rows
  <2>4. DealTypes' /\ RowTypes' /\ OneLiveQuote' /\ KickoffAfterApproval' /\ TotalsFollowItems'
    BY <2>1, DealStays, RowsStay DEF rows, Latest
  <2> QED BY <2>3, <2>4 DEF IInv
<1>2. ASSUME NEW m \in Moves, NEW i \in Items, NEW j \in Items, StartMove(m, i, j)
      PROVE  IInv'
  <2>1. /\ IsDraft(items[i].quote) /\ Sorted(i, shown[j]) /\ Recompute(items', items[i].quote)
        /\ moves' = [moves EXCEPT ![m] = [item |-> j, sort |-> shown[i]]]
        /\ tangled' = (tangled \/ shown # InView \/ Moving)
    BY <1>2 DEF StartMove
  <2>2. shown[i] \in 0 .. MaxPlace /\ shown[j] \in 0 .. MaxPlace
    BY DEF IInv, PanelTypes
  <2>3. moves' \in [Moves -> {NoMove} \cup [item : Items, sort : 0 .. MaxPlace]]
    BY <2>1, <2>2 DEF IInv, PanelTypes
  <2>4. tangled' \in BOOLEAN
    BY <2>1
  <2> QED BY <2>1, <2>2, <2>3, <2>4, PlaceChanged
<1>3. ASSUME NEW m \in Moves, FinishMove(m)
      PROVE  IInv'
  <2> DEFINE j == moves[m].item
  <2>1. moves[m] # NoMove /\ moves' = [moves EXCEPT ![m] = NoMove]
    BY <1>3 DEF FinishMove
  <2>2. j \in Items /\ moves[m].sort \in 0 .. MaxPlace
    BY <2>1 DEF IInv, PanelTypes
  <2>3. moves' \in [Moves -> {NoMove} \cup [item : Items, sort : 0 .. MaxPlace]]
    BY <2>1 DEF IInv, PanelTypes
  <2>4. CASE IsDraft(items[j].quote) /\ Sorted(j, moves[m].sort) /\ Recompute(items', items[j].quote) /\ tangled' = tangled
    <3>1. tangled' \in BOOLEAN
      BY <2>4 DEF IInv, PanelTypes
    <3> HIDE DEF j
    <3> QED BY <2>2, <2>3, <2>4, <3>1, PlaceChanged
  <2>5. CASE tangled' = TRUE /\ UNCHANGED <<deal, quotes, rows, shown, adrift, died>>
    <3>1. PanelTypes'
      BY <2>3, <2>5 DEF IInv, PanelTypes, rows
    <3>2. DealTypes' /\ RowTypes' /\ OneLiveQuote' /\ KickoffAfterApproval' /\ TotalsFollowItems'
      BY <2>5, DealStays, RowsStay DEF rows, Latest
    <3> QED BY <3>1, <3>2 DEF IInv
  <2> QED BY <1>3, <2>4, <2>5 DEF FinishMove
<1> QED BY <1>1, <1>2, <1>3 DEF MoveNext

LEMMA ItemsKept ==
  ASSUME IInv, ItemNext
  PROVE  IInv'
<1>1. CASE NewItem
  BY <1>1, ItemCreated DEF NewItem
<1>2. CASE InstanceModule
  <2>1. PICK i \in Items, v \in 1 .. MaxVersions, h \in Hours, m \in Modules :
          palette[m] # Absent /\ CreateItem(i, v, h, 0, palette[m])
    BY <1>2 DEF InstanceModule
  <2>2. palette[m] \in Margins
    BY <2>1 DEF IInv, PanelTypes
  <2> QED BY <2>1, <2>2, ItemCreated
<1> QED BY <1>1, <1>2, ItemRowChanged DEF ItemNext

-----------------------------------------------------------------------------
(* Milestones, the palette, the hand and the life of the quote.            *)

LEMMA MilestonesKept ==
  ASSUME IInv, MilestoneNext
  PROVE  IInv'
<1>1. PICK m, v, row : m \in Milestones /\ MilestoneRow(m, v, row) /\
        row \in [quote : {0, v}, share : Int, sort : 0 .. MaxPlace]
  <2>1. ASSUME NEW m \in Milestones, NEW s \in Shares, NEW v, CreateMilestone(m, v, s)
        PROVE  \E row \in [quote : {0, v}, share : Int, sort : 0 .. MaxPlace] : MilestoneRow(m, v, row)
    <3>1. /\ MilestoneRow(m, v, [quote |-> v, share |-> s, sort |-> Bottom(milestones, v)])
          /\ Bottom(milestones, v) \in 0 .. MaxPlace /\ s \in Int
      BY <2>1, QuoteBounds DEF CreateMilestone
    <3>2. [quote |-> v, share |-> s, sort |-> Bottom(milestones, v)] \in [quote : {0, v}, share : Int, sort : 0 .. MaxPlace]
      BY <3>1
    <3> QED BY <3>1, <3>2
  <2>2. ASSUME NEW m \in Milestones, NEW s \in Shares, PatchMilestone(m, s)
        PROVE  \E v : \E row \in [quote : {0, v}, share : Int, sort : 0 .. MaxPlace] : MilestoneRow(m, v, row)
    <3>1. [milestones[m] EXCEPT !.share = s] \in [quote : {0, milestones[m].quote}, share : Int, sort : 0 .. MaxPlace]
      BY QuoteBounds DEF IInv, RowTypes
    <3> QED BY <2>2, <3>1 DEF PatchMilestone
  <2>3. ASSUME NEW m \in Milestones, DeleteMilestone(m)
        PROVE  \E v : \E row \in [quote : {0, v}, share : Int, sort : 0 .. MaxPlace] : MilestoneRow(m, v, row)
    <3>1. NoMilestone \in [quote : {0, milestones[m].quote}, share : Int, sort : 0 .. MaxPlace]
      BY QuoteBounds DEF NoMilestone
    <3> QED BY <2>3, <3>1 DEF DeleteMilestone
  <2> QED BY <2>1, <2>2, <2>3 DEF MilestoneNext
<1>2. IsDraft(v) /\ milestones' = [milestones EXCEPT ![m] = row]
      /\ UNCHANGED <<deal, quotes, items, palette, panel, adrift, died>>
  BY <1>1 DEF MilestoneRow
<1>3. v \in 1 .. Latest /\ v \in 0 .. MaxVersions /\ Latest \in Nat
  <2>1. Latest \in 1 .. MaxVersions /\ v \in 1 .. Latest
    BY <1>2 DEF IsDraft, IInv, DealTypes
  <2> QED BY <2>1, QuoteBounds
<1>4. row \in [quote : 0 .. MaxVersions, share : Int, sort : 0 .. MaxPlace] /\ row.quote <= Latest
  BY <1>1, <1>3, QuoteBounds
<1>5. /\ milestones' \in [Milestones -> [quote : 0 .. MaxVersions, share : Int, sort : 0 .. MaxPlace]]
      /\ \A n \in Milestones : milestones'[n].quote <= Latest
  BY <1>2, <1>4 DEF IInv, RowTypes
<1>6. RowTypes'
  BY <1>2, <1>5 DEF IInv, RowTypes, Latest
<1>7. DealTypes' /\ PanelTypes' /\ OneLiveQuote' /\ KickoffAfterApproval' /\ TotalsFollowItems'
  BY <1>2, DealStays, Observed DEF IInv
<1> QED BY <1>6, <1>7 DEF IInv

LEMMA PaletteKept ==
  ASSUME IInv, PaletteNext
  PROVE  IInv'
<1>1. PICK m \in Modules, margin \in Margins \cup {Absent} : SetModule(m, margin)
  BY DEF PaletteNext, CreateModule, PatchModule, DeleteModule
<1>2. PanelTypes'
  BY <1>1 DEF SetModule, IInv, PanelTypes, panel
<1>3. DealTypes' /\ RowTypes' /\ OneLiveQuote' /\ KickoffAfterApproval' /\ TotalsFollowItems'
  BY <1>1, DealStays, RowsStay DEF SetModule, Latest
<1> QED BY <1>2, <1>3 DEF IInv

(* An event of one version: its items, and who is latest, stay.            *)
LEMMA EventKept ==
  ASSUME IInv, NEW v \in 1 .. MaxVersions, NEW from, NEW row \in QuoteRow, QuoteEvent(v, from, row),
         UNCHANGED <<rows, panel, died>>,
         adrift' \in {adrift, adrift \cup {v}},
         v \in adrift' \/ (row.hours = quotes[v].hours /\ row.cents = quotes[v].cents),
         project' \in ProjectStatuses,
         phases' \in [F1_SALES : {"in_progress", "approved"}, F2_KICKOFF : {"none", "pending"}],
         v = Latest, row.status \in {"draft", "sent", "approved"},
         (phases'.F2_KICKOFF = "pending") <=> (row.status = "approved")
  PROVE  IInv'
<1>1. v \in 1 .. Latest /\ quotes' = [quotes EXCEPT ![v] = row]
  BY DEF QuoteEvent
<1>2. /\ quotes' \in Seq(QuoteRow) /\ Latest' = Latest /\ quotes'[v] = row
      /\ \A w \in 1 .. Latest : w # v => quotes'[w] = quotes[w]
  BY <1>1, RowReplaced DEF IInv
<1>3. DealTypes' /\ RowTypes' /\ PanelTypes'
  BY <1>1, <1>2, RowsStay, Observed DEF IInv, DealTypes, rows
<1>4. OneLiveQuote' /\ KickoffAfterApproval'
  BY <1>2 DEF IInv, OneLiveQuote, KickoffAfterApproval
<1>5. \A w : HoursOf(items, w)' = HoursOf(items, w) /\ CentsOf(items, w)' = CentsOf(items, w)
  BY DEF HoursOf, CentsOf, Of, rows
<1>6. TotalsFollowItems'
  BY <1>1, <1>2, <1>5 DEF IInv, TotalsFollowItems
<1> QED BY <1>3, <1>4, <1>6 DEF IInv

LEMMA HandKept ==
  ASSUME IInv, HandNext
  PROVE  IInv'
<1>1. ASSUME NEW v \in 1 .. MaxVersions, v \in 1 .. Latest, quotes[v].status \in {"draft", "sent"}
      PROVE  v = Latest /\ quotes[v] \in QuoteRow /\ phases.F2_KICKOFF # "pending"
  BY <1>1, LiveIsLatest, RowFields DEF IInv, KickoffAfterApproval
<1>2. ASSUME NEW v \in 1 .. MaxVersions, NEW d \in Discounts, PatchDiscount(v, d)
      PROVE  IInv'
  <2> DEFINE row == [quotes[v] EXCEPT !.discount = d]
  <2>1. /\ QuoteEvent(v, {"draft", "sent"}, row) /\ v \in 1 .. Latest /\ quotes[v].status \in {"draft", "sent"}
        /\ UNCHANGED <<project, phases, rows, panel, adrift, died>>
    BY <1>2 DEF PatchDiscount, QuoteEvent, deal
  <2>2. v = Latest /\ quotes[v] \in QuoteRow /\ phases.F2_KICKOFF # "pending"
    BY <1>1, <2>1
  <2>3. /\ row \in QuoteRow /\ row.status = quotes[v].status
        /\ row.hours = quotes[v].hours /\ row.cents = quotes[v].cents
    BY <2>2 DEF QuoteRow
  <2> HIDE DEF row
  <2>4. project' \in ProjectStatuses /\ phases' \in [F1_SALES : {"in_progress", "approved"}, F2_KICKOFF : {"none", "pending"}]
    BY <2>1 DEF IInv, DealTypes
  <2> QED BY <2>1, <2>2, <2>3, <2>4, EventKept
<1>3. ASSUME NEW v \in 1 .. MaxVersions, NEW t \in HandTotals, PatchTotals(v, t)
      PROVE  IInv'
  <2> DEFINE row == [quotes[v] EXCEPT !.hours = t, !.cents = t]
  <2>1. /\ QuoteEvent(v, {"draft", "sent"}, row) /\ v \in 1 .. Latest /\ quotes[v].status \in {"draft", "sent"}
        /\ adrift' = adrift \cup {v}
        /\ UNCHANGED <<project, phases, rows, panel, died>>
    BY <1>3 DEF PatchTotals, QuoteEvent, deal
  <2>2. v = Latest /\ quotes[v] \in QuoteRow /\ phases.F2_KICKOFF # "pending"
    BY <1>1, <2>1
  <2>3. row \in QuoteRow /\ row.status = quotes[v].status /\ row.hours = t /\ row.cents = t
    BY <2>2 DEF QuoteRow, Totals
  <2> HIDE DEF row
  <2>4. project' \in ProjectStatuses /\ phases' \in [F1_SALES : {"in_progress", "approved"}, F2_KICKOFF : {"none", "pending"}]
    BY <2>1 DEF IInv, DealTypes
  <2> QED BY <2>1, <2>2, <2>3, <2>4, EventKept
<1>4. ASSUME NEW s \in Patches, PatchProject(s)
      PROVE  IInv'
  <2>1. project' = s /\ s \in ProjectStatuses /\ UNCHANGED <<phases, quotes, rows, panel, adrift, died>> /\ Latest' = Latest
    BY <1>4, QuoteBounds DEF PatchProject, ProjectStatuses, Latest
  <2>2. DealTypes' /\ RowTypes' /\ PanelTypes'
    BY <2>1, RowsStay, Observed DEF IInv, DealTypes, rows
  <2>3. OneLiveQuote' /\ KickoffAfterApproval'
    BY <2>1 DEF IInv, OneLiveQuote, KickoffAfterApproval
  <2>4. \A w : HoursOf(items, w)' = HoursOf(items, w) /\ CentsOf(items, w)' = CentsOf(items, w)
    BY <2>1 DEF HoursOf, CentsOf, Of, rows
  <2>5. TotalsFollowItems'
    BY <2>1, <2>4 DEF IInv, TotalsFollowItems
  <2> QED BY <2>2, <2>3, <2>5 DEF IInv
<1> QED BY <1>2, <1>3, <1>4 DEF HandNext

LEMMA NextVersion ==
  ASSUME IInv, NEW v \in 1 .. MaxVersions, RequestChanges(v)
  PROVE  IInv'
<1> DEFINE old == [quotes[v] EXCEPT !.status = "changes_requested"]
           new == [quotes[v] EXCEPT !.status = "draft", !.discount = 0]
           q == [quotes EXCEPT ![v] = old]
<1>1. /\ v = Latest /\ v < MaxVersions /\ v \in 1 .. Latest /\ quotes[v].status = "sent"
      /\ adrift' = adrift \cup {v + 1} /\ UNCHANGED <<deal, rows, panel, died>>
      /\ Latest \in 1 .. MaxVersions
  BY DEF RequestChanges, IInv, DealTypes
<1>2. quotes[v] \in QuoteRow
  BY <1>1, RowFields DEF IInv
<1>3. /\ old \in QuoteRow /\ old.status = "changes_requested" /\ old.hours = quotes[v].hours /\ old.cents = quotes[v].cents
      /\ new \in QuoteRow /\ new.status = "draft"
  BY <1>2 DEF QuoteRow, QuoteStatuses
<1>4. quotes' = Append(q, new)
  BY <1>1, <1>2 DEF RequestChanges, IInv, DealTypes, Latest, QuoteRow
<1> HIDE DEF old, new
<1>5. /\ q \in Seq(QuoteRow) /\ Len(q) = Latest /\ q[v] = old
      /\ \A w \in 1 .. Latest : w # v => q[w] = quotes[w]
  BY <1>1, <1>3 DEF IInv, DealTypes, Latest
<1> HIDE DEF q
<1>6. /\ quotes' \in Seq(QuoteRow) /\ Latest' = Latest + 1 /\ quotes'[Latest + 1] = new
      /\ \A w \in 1 .. Latest : quotes'[w] = q[w]
  BY <1>3, <1>4, <1>5, AppendProperties DEF Latest
<1>7. DealTypes' /\ RowTypes' /\ PanelTypes'
  <2>1. Latest' \in 1 .. MaxVersions /\ adrift' \subseteq 1 .. Latest'
    BY <1>1, <1>6, QuoteBounds DEF IInv, DealTypes
  <2>2. DealTypes'
    BY <1>1, <1>6, <2>1 DEF IInv, DealTypes, deal
  <2>3. /\ \A i \in Items : items'[i].quote <= Latest'
        /\ \A m \in Milestones : milestones'[m].quote <= Latest'
    BY <1>1, <1>6 DEF IInv, RowTypes, ItemRecord, rows
  <2>4. RowTypes'
    BY <1>1, <2>3 DEF IInv, RowTypes, rows
  <2> QED BY <1>1, <2>2, <2>4, Observed DEF IInv, rows
<1>8. OneLiveQuote'
  <2>1. \A w \in 1 .. Latest : quotes'[w].status = "changes_requested"
    BY <1>1, <1>3, <1>5, <1>6 DEF IInv, OneLiveQuote
  <2> QED BY <1>1, <1>3, <1>6, <2>1 DEF OneLiveQuote
<1>9. KickoffAfterApproval'
  BY <1>1, <1>3, <1>6 DEF IInv, KickoffAfterApproval, deal
<1>10. TotalsFollowItems'
  <2>1. \A w : HoursOf(items, w)' = HoursOf(items, w) /\ CentsOf(items, w)' = CentsOf(items, w)
    BY <1>1 DEF HoursOf, CentsOf, Of, rows
  <2> SUFFICES ASSUME NEW w \in (1 .. Latest') \ adrift'
               PROVE  quotes'[w].hours = HoursOf(items, w) /\ quotes'[w].cents = CentsOf(items, w)
    BY <2>1 DEF TotalsFollowItems
  <2>2. w \in 1 .. Latest /\ w \notin adrift
    BY <1>1, <1>6
  <2>3. quotes'[w].hours = quotes[w].hours /\ quotes'[w].cents = quotes[w].cents
    BY <1>3, <1>5, <1>6, <2>2
  <2> QED BY <2>2, <2>3 DEF IInv, TotalsFollowItems
<1> QED BY <1>7, <1>8, <1>9, <1>10 DEF IInv

LEMMA LifeKept ==
  ASSUME IInv, LifeNext
  PROVE  IInv'
<1>1. ASSUME NEW v \in 1 .. MaxVersions, SendQuote(v) \/ ApproveQuote(v)
      PROVE  IInv'
  <2>1. PICK st \in {"sent", "approved"} :
          /\ QuoteEvent(v, {"draft", "sent"}, [quotes[v] EXCEPT !.status = st])
          /\ UNCHANGED <<rows, panel, adrift, died>>
          /\ project' \in {project, "active"}
          /\ phases' = IF st = "approved" THEN [F1_SALES |-> "approved", F2_KICKOFF |-> "pending"] ELSE phases
    BY <1>1 DEF SendQuote, ApproveQuote, QuoteEvent, deal
  <2> DEFINE row == [quotes[v] EXCEPT !.status = st]
  <2>2. v \in 1 .. Latest /\ quotes[v].status \in {"draft", "sent"}
    BY <2>1 DEF QuoteEvent
  <2>3. v = Latest /\ quotes[v] \in QuoteRow /\ phases.F2_KICKOFF # "pending"
    BY <2>2, LiveIsLatest, RowFields DEF IInv, KickoffAfterApproval
  <2>4. /\ row \in QuoteRow /\ row.status = st /\ row.hours = quotes[v].hours /\ row.cents = quotes[v].cents
    BY <2>3 DEF QuoteRow, QuoteStatuses
  <2> HIDE DEF row
  <2>5. project' \in ProjectStatuses /\ phases' \in [F1_SALES : {"in_progress", "approved"}, F2_KICKOFF : {"none", "pending"}]
    BY <2>1 DEF IInv, DealTypes, ProjectStatuses
  <2>6. (phases'.F2_KICKOFF = "pending") <=> (row.status = "approved")
    BY <2>1, <2>3, <2>4
  <2>7. QuoteEvent(v, {"draft", "sent"}, row)
    BY <2>1 DEF row
  <2> QED BY <2>1, <2>3, <2>4, <2>5, <2>6, <2>7, EventKept
<1> QED BY <1>1, NextVersion DEF LifeNext

THEOREM StepInv == IInv /\ [QuoteNext]_quoteVars => IInv'
<1>1. IInv /\ UNCHANGED quoteVars => IInv'
  BY DealStays, RowsStay, Observed DEF IInv, quoteVars, rows, Latest
<1> QED BY <1>1, ItemsKept, MilestonesKept, PaletteKept, HandKept, LifeKept, MovesKept DEF QuoteNext

THEOREM InductiveInvariant == QuoteSpec => []IInv
BY InitInv, StepInv, PTL DEF QuoteSpec

(* Every row holds what its table may hold, and belongs to a version that  *)
(* exists.                                                                 *)
THEOREM QuoteTypeCorrect == QuoteSpec => []QuoteTypeOK
<1>1. ASSUME IInv PROVE QuoteTypeOK
  <2>1. \A v \in 1 .. Latest : quotes[v] \in QuoteRow
    BY <1>1, RowFields DEF IInv
  <2>2. \A v \in 1 .. Latest : quotes[v].status \in QuoteStatuses /\ quotes[v].discount \in Discounts \cup {0}
    BY <2>1 DEF QuoteRow
  <2>3. /\ \A i \in Items : items[i].quote \in 0 .. Latest
        /\ \A m \in Milestones : milestones[m].quote \in 0 .. Latest
    BY <1>1, QuoteBounds DEF IInv, RowTypes, ItemRecord, DealTypes
  <2> QED BY <1>1, <2>2, <2>3 DEF IInv, DealTypes, PanelTypes, QuoteTypeOK
<1> QED BY <1>1, InductiveInvariant, PTL

(* At most one version is negotiated or approved, and it is the latest.    *)
THEOREM OneLive == QuoteSpec => []OneLiveQuote
<1>1. IInv => OneLiveQuote
  BY DEF IInv
<1> QED BY <1>1, InductiveInvariant, PTL

(* The kickoff phase is there exactly when a quote was approved.           *)
THEOREM KickoffIsEarned == QuoteSpec => []KickoffAfterApproval
<1>1. IInv => KickoffAfterApproval
  BY DEF IInv
<1> QED BY <1>1, InductiveInvariant, PTL

(* Quotes and phases go together.                                          *)
THEOREM QuotesStayInOrder == QuoteSpec => []QuotesInOrder
<1>1. OneLiveQuote /\ KickoffAfterApproval => QuotesInOrder
  BY DEF QuotesInOrder
<1> QED BY <1>1, OneLive, KickoffIsEarned, PTL

(* Totals that were derived are the sums over the items there are.         *)
THEOREM TotalsAgree == QuoteSpec => []TotalsFollowItems
<1>1. IInv => TotalsFollowItems
  BY DEF IInv
<1> QED BY <1>1, InductiveInvariant, PTL

-----------------------------------------------------------------------------
(* After the approval nothing is a draft and nothing was sent.             *)

LEMMA NothingIsOpen ==
  ASSUME IInv, quotes[Latest].status = "approved", NEW v \in 1 .. Latest
  PROVE  quotes[v].status \notin {"draft", "sent"}
BY DEF IInv, OneLiveQuote, DealTypes

LEMMA Frozen ==
  ASSUME IInv, quotes[Latest].status = "approved", [QuoteNext]_quoteVars
  PROVE  UNCHANGED <<quotes, items, milestones>>
<1>1. \A v : ~IsDraft(v)
  BY NothingIsOpen DEF IsDraft
<1>2. \A v : v \in 1 .. Latest => quotes[v].status \notin {"draft", "sent"}
  BY NothingIsOpen
<1>3. ~ItemNext /\ ~MilestoneNext
  BY <1>1 DEF ItemNext, NewItem, InstanceModule, ItemRow, CreateItem, PatchItem, DeleteItem, MilestoneNext, CreateMilestone,
              PatchMilestone, DeleteMilestone, MilestoneRow
<1>4. ~LifeNext
  <2>1. \A v \in 1 .. MaxVersions : ~SendQuote(v) /\ ~ApproveQuote(v)
    BY <1>2 DEF SendQuote, ApproveQuote, QuoteEvent
  <2>2. \A v \in 1 .. MaxVersions : ~RequestChanges(v)
    BY DEF RequestChanges
  <2> QED BY <2>1, <2>2 DEF LifeNext
<1>5. HandNext => UNCHANGED <<quotes, items, milestones>>
  <2>1. \A v, x : ~PatchDiscount(v, x) /\ ~PatchTotals(v, x)
    BY <1>2 DEF PatchDiscount, PatchTotals, QuoteEvent
  <2> QED BY <2>1 DEF HandNext, PatchProject, rows
<1>6. PaletteNext => UNCHANGED <<quotes, items, milestones>>
  BY DEF PaletteNext, CreateModule, PatchModule, DeleteModule, SetModule
<1>7. MoveNext => UNCHANGED <<quotes, items, milestones>>
  BY <1>1 DEF MoveNext, Refresh, StartMove, FinishMove, rows
<1>8. UNCHANGED quoteVars => UNCHANGED <<quotes, items, milestones>>
  BY DEF quoteVars, rows
<1> QED BY <1>3, <1>4, <1>5, <1>6, <1>7, <1>8 DEF QuoteNext

(* No request, of whatever section of the panel and in whatever order,     *)
(* touches what was approved.                                              *)
THEOREM AgreementStands == QuoteSpec => AgreementFixed
<1>1. ASSUME IInv, [QuoteNext]_quoteVars, quotes[Latest].status = "approved"
      PROVE  Latest' = Latest /\ Agreed(Latest)' = Agreed(Latest)
  <2>1. UNCHANGED <<quotes, items, milestones>>
    BY <1>1, Frozen
  <2> QED BY <2>1 DEF Latest, Agreed, Of
<1>2. IInv /\ [QuoteNext]_quoteVars =>
        [quotes[Latest].status = "approved" => Latest' = Latest /\ Agreed(Latest)' = Agreed(Latest)]_quoteVars
  BY <1>1
<1> QED BY <1>2, InductiveInvariant, PTL DEF QuoteSpec, AgreementFixed

(* What a project is measured against is fixed with the approval.          *)
THEOREM BudgetStands == QuoteSpec => BudgetFixed
<1>1. ASSUME IInv, [QuoteNext]_quoteVars, quotes[Latest].status = "approved"
      PROVE  Budget' = quotes[Latest].cents /\ Quoted' = Quoted
  <2>1. UNCHANGED quotes
    BY <1>1, Frozen
  <2>2. Latest' = Latest /\ quotes'[Latest] = quotes[Latest]
    BY <2>1 DEF Latest
  <2> QED BY <1>1, <2>1, <2>2 DEF Budget, Quoted, Latest
<1>2. IInv /\ [QuoteNext]_quoteVars =>
        [quotes[Latest].status = "approved" => Budget' = quotes[Latest].cents /\ Quoted' = Quoted]_quoteVars
  BY <1>1
<1> QED BY <1>2, InductiveInvariant, PTL DEF QuoteSpec, BudgetFixed

(* Approval is final: neither the agreement nor what the reports make of   *)
(* it moves.                                                               *)
THEOREM ApprovalStands == QuoteSpec => ApprovalIsFinal
BY AgreementStands, BudgetStands DEF ApprovalIsFinal

-----------------------------------------------------------------------------
(* Places.  While a move waits for its second request, the places are      *)
(* distinct that the items will have once it is served.                    *)

Apart(table) ==
    \A i, j \in Items : (i # j /\ table[i].quote # 0 /\ table[i].quote = table[j].quote)
                            => table[i].sort # table[j].sort
Served(table, move) == [table EXCEPT ![move.item].sort = move.sort]

MovesApart ==
    ~tangled =>
        /\ ~Moving => Apart(items)
        /\ \A m \in Moves : moves[m] # NoMove =>
               /\ \A n \in Moves : n # m => moves[n] = NoMove
               /\ Apart(Served(items, moves[m]))

LEMMA ServedFields ==
  ASSUME NEW table \in [Items -> ItemRecord], NEW i \in Items, NEW p \in 0 .. MaxPlace
  PROVE  /\ [table EXCEPT ![i].sort = p] \in [Items -> ItemRecord]
         /\ \A j \in Items : [table EXCEPT ![i].sort = p][j].quote = table[j].quote
         /\ \A j \in Items : [table EXCEPT ![i].sort = p][j].sort
                                 = IF j = i THEN p ELSE table[j].sort
<1>1. \A j \in Items : table[j] \in ItemRecord
  OBVIOUS
<1>2. [table[i] EXCEPT !.sort = p] \in ItemRecord
  BY <1>1 DEF ItemRecord
<1> QED BY <1>1, <1>2 DEF ItemRecord

(* Rows that are taken away or changed elsewhere leave the others apart.   *)
Fewer(table, before) ==
    \A i \in Items : table[i].quote = 0 \/ (/\ table[i].quote = before[i].quote
                                            /\ table[i].sort = before[i].sort)

LEMMA FewerApart ==
  ASSUME NEW s, NEW t, Fewer(t, s), Apart(s)
  PROVE  Apart(t)
BY DEF Fewer, Apart

LEMMA TableShrunk ==
  ASSUME IInv, MovesApart, NEW table \in [Items -> ItemRecord], NEW v,
         ItemRows(table, v), Fewer(table, items)
  PROVE  MovesApart'
<1>1. items' = table /\ items \in [Items -> ItemRecord]
  BY DEF ItemRows, IInv, RowTypes
<1> SUFFICES ASSUME ~tangled'
             PROVE  /\ ~Moving' => Apart(table)
                    /\ \A m \in Moves : moves'[m] # NoMove =>
                           /\ \A n \in Moves : n # m => moves'[n] = NoMove
                           /\ Apart(Served(table, moves'[m]))
  BY <1>1 DEF MovesApart
<1>2. CASE Die
  <2>1. ~tangled /\ ~Moving /\ \A m \in Moves : moves'[m] = NoMove
    BY <1>2 DEF Die
  <2> QED BY <2>1, FewerApart DEF MovesApart
<1>3. CASE moves' = moves /\ tangled' = (tangled \/ (Moving /\ ~(Of(table, v) \subseteq Of(items, v))))
  <2>1. ~tangled /\ Moving' = Moving
    BY <1>3 DEF Moving
  <2>2. ASSUME NEW m \in Moves, moves[m] # NoMove
        PROVE  Apart(Served(table, moves[m]))
    <3>1. moves[m].item \in Items /\ moves[m].sort \in 0 .. MaxPlace
      BY <2>2 DEF IInv, PanelTypes
    <3>2. Fewer(Served(table, moves[m]), Served(items, moves[m]))
      BY <1>1, <3>1, ServedFields DEF Fewer, Served
    <3> QED BY <2>1, <2>2, <3>2, FewerApart DEF MovesApart
  <2> QED BY <1>3, <2>1, <2>2, FewerApart DEF MovesApart
<1> QED BY <1>2, <1>3 DEF ItemRows

(* A new row goes below every other of its quote.                          *)
LEMMA BottomBelow ==
  ASSUME NEW table, \A r \in DOMAIN table : table[r].sort \in 0 .. MaxPlace, NEW v
  PROVE  /\ Bottom(table, v) \in Nat
         /\ \A r \in DOMAIN table : table[r].quote = v => table[r].sort < Bottom(table, v)
<1> DEFINE places == {0} \cup {table[r].sort : r \in Of(table, v)}
<1>1. places \in SUBSET (0 .. MaxPlace)
  BY QuoteBounds DEF Of
<1>2. IsFiniteSet(0 .. MaxPlace)
  BY FS_Interval, QuoteBounds
<1>3. places \in SUBSET Int /\ IsFiniteSet(places) /\ places # {} /\ 0 \in places
  <2>1. 0 .. MaxPlace \in SUBSET Int /\ 0 \in places
    BY QuoteBounds
  <2> HIDE DEF places
  <2>2. IsFiniteSet(places)
    BY <1>1, <1>2, FS_Subset
  <2> QED BY <1>1, <2>1, <2>2
<1>4. \A r \in DOMAIN table : table[r].quote = v => table[r].sort \in places
  BY DEF Of
<1>5. Bottom(table, v) = Max(places) + 10
  BY DEF Bottom
<1> HIDE DEF places
<1>6. Max(places) \in Int /\ \A p \in places : p <= Max(places)
  BY <1>3, MaxOfFinite
<1>7. \A p \in places : p < Max(places) + 10
  BY <1>3, <1>6
<1>8. Bottom(table, v) \in Nat
  BY <1>3, <1>5, <1>6, <1>7
<1> QED BY <1>4, <1>5, <1>7, <1>8

LEMMA CreatedApart ==
  ASSUME IInv, MovesApart, NEW i \in Items, NEW v, NEW h, NEW r, NEW m, CreateItem(i, v, h, r, m)
  PROVE  MovesApart'
<1> DEFINE row == [quote |-> v, hours |-> h, cents |-> Subtotal(h, r, m), sort |-> Bottom(items, v)]
           table == [items EXCEPT ![i] = row]
<1>1. /\ IsDraft(v) /\ items[i] = NoItem /\ ItemRows(table, v)
      /\ items \in [Items -> ItemRecord] /\ items' = table
  BY DEF CreateItem, ItemRows, IInv, RowTypes
<1>2. v # 0 /\ v \in Nat
  BY <1>1 DEF IsDraft, IInv, DealTypes
<1>3. /\ table[i].quote = v /\ table[i].sort = Bottom(items, v)
      /\ \A j \in Items : j # i => table[j] = items[j]
  BY <1>1
<1> HIDE DEF table
<1>4. ~(Of(table, v) \subseteq Of(items, v))
  <2>1. DOMAIN table = Items /\ DOMAIN items = Items
    BY <1>1 DEF table
  <2> QED BY <1>1, <1>2, <1>3, <2>1 DEF Of, NoItem
<1>5. ASSUME ~tangled' PROVE ~tangled /\ ~Moving /\ \A n \in Moves : moves'[n] = NoMove
  BY <1>1, <1>4, <1>5 DEF ItemRows, Die, Moving
<1>6. ASSUME Apart(items) PROVE Apart(table)
  <2> SUFFICES ASSUME NEW j \in Items, NEW k \in Items, j # k, table[j].quote # 0,
                      table[j].quote = table[k].quote
               PROVE  table[j].sort # table[k].sort
    BY DEF Apart
  <2>1. \A x \in Items : items[x].quote = v => items[x].sort < Bottom(items, v) /\ items[x].sort \in Int
    <3>1. DOMAIN items = Items /\ \A x \in Items : items[x].sort \in 0 .. MaxPlace
      BY <1>1 DEF ItemRecord
    <3> QED BY <3>1, BottomBelow, QuoteBounds
  <2>2. CASE j # i /\ k # i
    BY <1>3, <1>6, <2>2 DEF Apart
  <2>3. CASE j = i
    BY <1>3, <2>1, <2>3
  <2>4. CASE k = i
    BY <1>3, <2>1, <2>4
  <2> QED BY <2>2, <2>3, <2>4
<1> QED BY <1>1, <1>5, <1>6 DEF MovesApart

LEMMA RowApart ==
  ASSUME IInv, MovesApart, ItemRow
  PROVE  MovesApart'
<1>0. items \in [Items -> ItemRecord]
  BY DEF IInv, RowTypes
<1>1. ASSUME NEW i \in Items, NEW h \in Hours, NEW r \in Rates, NEW m \in Margins, PatchItem(i, h, r, m)
      PROVE  MovesApart'
  <2> DEFINE row == [items[i] EXCEPT !.hours = h, !.cents = Subtotal(h, r, m)]
             table == [items EXCEPT ![i] = row]
  <2>1. items[i] \in ItemRecord
    BY <1>0
  <2>2. row \in ItemRecord /\ row.quote = items[i].quote /\ row.sort = items[i].sort
    <3>1. h \in Int /\ Subtotal(h, r, m) \in Int
      BY SubtotalIsInt, QuoteBounds
    <3> HIDE DEF Subtotal
    <3> QED BY <2>1, <3>1 DEF ItemRecord
  <2>3. table = [items EXCEPT ![i].hours = h, ![i].cents = Subtotal(h, r, m)]
    BY <2>1 DEF IInv, RowTypes, ItemRecord
  <2>4. ItemRows(table, items[i].quote)
    BY <1>1, <2>3 DEF PatchItem
  <2> HIDE DEF row
  <2>5. table \in [Items -> ItemRecord] /\ Fewer(table, items)
    BY <1>0, <2>2 DEF Fewer
  <2> HIDE DEF table
  <2> QED BY <2>4, <2>5, TableShrunk
<1>2. ASSUME NEW i \in Items, DeleteItem(i)
      PROVE  MovesApart'
  <2> DEFINE table == [items EXCEPT ![i] = NoItem]
  <2>1. ItemRows(table, items[i].quote)
    BY <1>2 DEF DeleteItem
  <2>2. table \in [Items -> ItemRecord] /\ Fewer(table, items)
    BY <1>0, QuoteBounds DEF ItemRecord, NoItem, Fewer
  <2> HIDE DEF table
  <2> QED BY <2>1, <2>2, TableShrunk
<1> QED BY <1>1, <1>2 DEF ItemRow

(* The first request of a move on an up-to-date view: served, it will have *)
(* exchanged two places.                                                   *)
LEMMA StartedApart ==
  ASSUME IInv, MovesApart, NEW m \in Moves, NEW i \in Items, NEW j \in Items, StartMove(m, i, j)
  PROVE  MovesApart'
<1> SUFFICES ASSUME ~tangled' PROVE MovesApart'
  BY DEF MovesApart
<1>1. /\ i # j /\ shown[i] # 0 /\ shown[j] # 0 /\ ~tangled /\ ~Moving /\ shown = InView
      /\ moves' = [moves EXCEPT ![m] = [item |-> j, sort |-> shown[i]]]
      /\ items' = [items EXCEPT ![i].sort = shown[j]]
  BY DEF StartMove, Sorted
<1>2. /\ items \in [Items -> ItemRecord] /\ \A k \in Moves : moves[k] = NoMove
      /\ moves \in [Moves -> {NoMove} \cup [item : Items, sort : 0 .. MaxPlace]]
      /\ shown[i] \in 0 .. MaxPlace /\ shown[j] \in 0 .. MaxPlace
  BY <1>1 DEF IInv, RowTypes, PanelTypes, Moving
<1>3. shown[i] = items[i].sort /\ shown[j] = items[j].sort
  BY <1>1 DEF InView
<1>4. items[i].quote = items[j].quote
  BY <1>1 DEF InView
<1>5. /\ items' \in [Items -> ItemRecord]
      /\ \A k \in Items : items'[k].quote = items[k].quote
      /\ \A k \in Items : items'[k].sort = IF k = i THEN items[j].sort ELSE items[k].sort
  BY <1>1, <1>2, <1>3, ServedFields
<1>6. moves'[m].item = j /\ moves'[m].sort = items[i].sort
  BY <1>1, <1>2, <1>3
<1> DEFINE end == Served(items', moves'[m])
<1>7. /\ \A k \in Items : end[k].quote = items[k].quote
      /\ \A k \in Items : end[k].sort = IF k = j THEN items[i].sort
                                        ELSE IF k = i THEN items[j].sort ELSE items[k].sort
  <2>1. /\ \A k \in Items : end[k].quote = items'[k].quote
        /\ \A k \in Items : end[k].sort = IF k = j THEN items[i].sort ELSE items'[k].sort
    BY <1>2, <1>3, <1>5, <1>6, ServedFields DEF Served
  <2> QED BY <1>5, <2>1
<1>8. Apart(items)
  BY <1>1 DEF MovesApart
<1>9. Apart(end)
  <2> HIDE DEF end
  <2> QED BY <1>4, <1>7, <1>8 DEF Apart
<1>10. /\ \A k \in Moves : k # m => moves'[k] = NoMove
       /\ moves'[m] # NoMove
  <2>1. moves'[m].sort # 0
    BY <1>1, <1>3, <1>6
  <2> QED BY <1>1, <1>2, <2>1 DEF NoMove
<1> QED BY <1>9, <1>10 DEF MovesApart, Moving

LEMMA FinishedApart ==
  ASSUME IInv, MovesApart, NEW m \in Moves, FinishMove(m)
  PROVE  MovesApart'
<1> SUFFICES ASSUME ~tangled' PROVE MovesApart'
  BY DEF MovesApart
<1>1. /\ moves[m] # NoMove /\ moves' = [moves EXCEPT ![m] = NoMove] /\ ~tangled
      /\ items' = Served(items, moves[m])
  BY DEF FinishMove, Sorted, Served
<1>2. /\ \A n \in Moves : n # m => moves[n] = NoMove
      /\ Apart(items')
  BY <1>1 DEF MovesApart
<1>3. \A n \in Moves : moves'[n] = NoMove
  BY <1>1, <1>2 DEF IInv, PanelTypes
<1> QED BY <1>2, <1>3 DEF MovesApart

LEMMA MovesApartInit == QuoteInit => MovesApart
BY DEF QuoteInit, MovesApart, Apart, NoItem, Moving

LEMMA MovesApartNext ==
  ASSUME IInv, MovesApart, [QuoteNext]_quoteVars
  PROVE  MovesApart'
<1>1. CASE UNCHANGED <<items, moves, tangled>>
  BY <1>1 DEF MovesApart, Moving, Apart, Served
<1>2. CASE ItemNext
  BY <1>2, CreatedApart, RowApart DEF ItemNext, NewItem, InstanceModule
<1>3. CASE MoveNext
  <2>1. CASE Refresh
    BY <2>1, <1>1 DEF Refresh, rows
  <2> QED BY <1>3, <2>1, StartedApart, FinishedApart DEF MoveNext
<1>4. CASE MilestoneNext \/ PaletteNext \/ HandNext \/ LifeNext \/ UNCHANGED quoteVars
  <2>1. UNCHANGED <<items, moves, tangled>>
    BY <1>4 DEF MilestoneNext, CreateMilestone, PatchMilestone, DeleteMilestone, MilestoneRow,
       PaletteNext, CreateModule, PatchModule, DeleteModule, SetModule,
       HandNext, PatchDiscount, PatchTotals, PatchProject,
       LifeNext, SendQuote, ApproveQuote, RequestChanges, quoteVars, rows, panel
  <2> QED BY <1>1, <2>1
<1> QED BY <1>2, <1>3, <1>4 DEF QuoteNext

(* Moves of any number of panels, among all the requests that write items, *)
(* keep the places of a quote distinct unless one of the four things has   *)
(* happened that the property names.                                       *)
THEOREM PlacesStayDistinct == QuoteSpec => []PlacesDistinct
<1>1. MovesApart => PlacesDistinct
  BY DEF MovesApart, PlacesDistinct, Apart
<1>2. IInv /\ MovesApart /\ [QuoteNext]_quoteVars => MovesApart'
  BY MovesApartNext
<1> QED BY <1>1, <1>2, MovesApartInit, InductiveInvariant, PTL DEF QuoteSpec

-----------------------------------------------------------------------------
(* Stories.  Where the codes of a handler are distinct and new, so are the *)
(* stories it leaves, wherever it stops.                                   *)

Distinct(codes) == \A i, j \in 1 .. Len(codes) : codes[i] = codes[j] => i = j

StoryInv == CodesNameOneStory /\ \A s \in stories : s.quote \in 1 .. Latest

(* A handler gets as far as the codes are new.                             *)
LEMMA RoomIsNew ==
  ASSUME NEW S, NEW codes \in Seq(S)
  PROVE  Room(codes) \in 0 .. Len(codes) /\ \A i \in 1 .. Room(codes) : ~Exists(codes[i])
<1> DEFINE new == {n \in 0 .. Len(codes) : \A i \in 1 .. n : ~Exists(codes[i])}
<1>1. Len(codes) \in Nat
  BY LenProperties
<1>2. IsFiniteSet(0 .. Len(codes)) /\ 0 .. Len(codes) \in SUBSET Int
  BY <1>1, FS_Interval
<1>3. IsFiniteSet(new) /\ new \in SUBSET Int
  BY <1>2, FS_Subset
<1>4. 0 \in new
  BY <1>1
<1>5. Room(codes) = Max(new)
  BY DEF Room
<1> HIDE DEF new
<1>6. Room(codes) \in new
  BY <1>3, <1>4, <1>5, MaxOfFinite
<1> QED BY <1>6 DEF new

LEMMA Committed ==
  ASSUME StoryInv, NEW S, NEW codes \in Seq(S), Distinct(codes), NEW n \in 0 .. Room(codes),
         NEW t \in 0 .. n, NEW v \in 1 .. Latest, Commit(codes, n, t, v), Latest' = Latest
  PROVE  StoryInv' /\ stories \subseteq stories' /\ tasked \subseteq tasked'
<1>1. n \in 0 .. Len(codes) /\ n \in Nat /\ t \in Nat /\ t <= n /\ Len(codes) \in Nat
  BY RoomIsNew, LenProperties
<1>2. \A i \in 1 .. n : ~Exists(codes[i]) /\ i \in 1 .. Len(codes)
  BY <1>1, RoomIsNew
<1>3. /\ stories' = stories \cup {[code |-> codes[i], quote |-> v] : i \in 1 .. n}
      /\ tasked' = tasked \cup {codes[i] : i \in 1 .. t}
  BY DEF Commit
<1>4. \A s \in stories' : s.quote \in 1 .. Latest
  BY <1>3 DEF StoryInv
<1>5. ASSUME NEW s \in stories', NEW r \in stories', s.code = r.code PROVE s = r
  <2>1. CASE s \in stories /\ r \in stories
    BY <1>5, <2>1 DEF StoryInv, CodesNameOneStory
  <2>2. \A x \in stories' \ stories : \E i \in 1 .. n : x = [code |-> codes[i], quote |-> v]
    BY <1>3
  <2>3. \A x \in stories' \ stories : ~Exists(x.code)
    BY <1>2, <2>2
  <2>4. CASE s \notin stories /\ r \notin stories
    <3>1. PICK i \in 1 .. n : s = [code |-> codes[i], quote |-> v]
      BY <2>2, <2>4
    <3>2. PICK j \in 1 .. n : r = [code |-> codes[j], quote |-> v]
      BY <2>2, <2>4
    <3> QED BY <1>2, <1>5, <3>1, <3>2 DEF Distinct
  <2> QED BY <1>5, <2>1, <2>3, <2>4 DEF Exists
<1>6. \A code \in tasked' : Exists(code)'
  <2>1. \A code \in tasked : \E s \in stories' : s.code = code
    BY <1>3 DEF StoryInv, CodesNameOneStory, Exists
  <2>2. ASSUME NEW i \in 1 .. t PROVE \E s \in stories' : s.code = codes[i]
    <3>1. i \in 1 .. n
      BY <1>1
    <3>2. [code |-> codes[i], quote |-> v] \in stories'
      BY <1>3, <3>1
    <3> QED BY <3>2
  <2> QED BY <1>3, <2>1, <2>2 DEF Exists
<1> QED BY <1>3, <1>4, <1>5, <1>6 DEF StoryInv, CodesNameOneStory

(* What the handlers create: the codes of a kit, and those of the entries  *)
(* of a draft with the architecture story before them.                     *)
LEMMA KitCodesDistinct ==
  ASSUME NEW v
  PROVE  /\ KitCodes(v) \in Seq({KitCodes(v)[i] : i \in 1 .. KitSize})
         /\ Len(KitCodes(v)) = KitSize /\ Distinct(KitCodes(v))
<1>1. KitSize \in Nat /\ DOMAIN KitCodes(v) = 1 .. KitSize
  BY ScopeBounds DEF KitCodes
<1>2. \A i \in 1 .. KitSize : KitCodes(v)[i][2] = i
  BY DEF KitCodes, KitCode
<1>3. KitCodes(v) \in [1 .. KitSize -> {KitCodes(v)[i] : i \in 1 .. KitSize}]
  BY DEF KitCodes
<1> DEFINE codes == KitCodes(v)
<1> HIDE DEF codes
<1>4. codes \in Seq({codes[i] : i \in 1 .. KitSize}) /\ Len(codes) = KitSize
  BY <1>1, <1>3 DEF codes
<1>5. Distinct(codes)
  BY <1>2, <1>4 DEF Distinct, codes
<1> QED BY <1>4, <1>5 DEF codes

Talk == [status : {"active", "converged", "archived"}, asks : Nat,
         draft : [of : Nat, size : Proposals \cup {0}]]
StoryCodes == {"P"} \X Nat

LEMMA FreshDistinct ==
  ASSUME convs \in Seq(Talk), NEW c \in 1 .. Len(convs), NEW v
  PROVE  /\ Fresh(c, v) \in Seq(StoryCodes) /\ Distinct(Fresh(c, v))
         /\ Len(Fresh(c, v)) >= convs[c].draft.size
<1> DEFINE top == Max({0} \cup Numbers(v))
           size == convs[c].draft.size
           entries == [i \in 1 .. size |-> Number(top + i)]
<1>1. size \in Nat
  <2>1. convs[c] \in Talk
    BY ElementOfSeq
  <2>2. convs[c].draft \in [of : Nat, size : Proposals \cup {0}]
    BY <2>1 DEF Talk
  <2> QED BY <2>2, ScopeBounds
<1>2. top \in Nat
  <2>1. {0} \cup Numbers(v) \in SUBSET (0 .. MaxNumber)
    BY ScopeBounds DEF Numbers
  <2>2. IsFiniteSet(0 .. MaxNumber) /\ 0 .. MaxNumber \in SUBSET Int
    BY ScopeBounds, FS_Interval
  <2>3. IsFiniteSet({0} \cup Numbers(v)) /\ {0} \cup Numbers(v) \in SUBSET Int
    BY <2>1, <2>2, FS_Subset
  <2>4. top \in {0} \cup Numbers(v)
    BY <2>3, MaxOfFinite
  <2> QED BY <2>1, <2>4, ScopeBounds
<1>3. Fresh(c, v) = IF 0 \in Numbers(v) THEN entries ELSE <<Number(0)>> \o entries
  BY DEF Fresh
<1> HIDE DEF top, size
<1>4. entries \in Seq(StoryCodes) /\ Len(entries) = size
  <2>1. \A i \in 1 .. size : Number(top + i) \in StoryCodes
    BY <1>1, <1>2 DEF Number, StoryCodes
  <2>2. entries \in [1 .. size -> StoryCodes]
    BY <2>1
  <2> HIDE DEF entries
  <2> QED BY <1>1, <2>2
<1>5. \A i \in 1 .. size : entries[i] = <<"P", top + i>>
  BY DEF Number
<1> HIDE DEF entries
<1>6. CASE 0 \in Numbers(v)
  <2>1. Fresh(c, v) = entries
    BY <1>3, <1>6
  <2>2. ASSUME NEW i \in 1 .. size, NEW j \in 1 .. size, entries[i] = entries[j] PROVE i = j
    <3>1. top + i = top + j
      BY <1>5, <2>2
    <3> QED BY <1>1, <1>2, <3>1
  <2> QED BY <1>1, <1>4, <2>1, <2>2 DEF Distinct, size
<1>7. CASE 0 \notin Numbers(v)
  <2>1. Fresh(c, v) = <<Number(0)>> \o entries
    BY <1>3, <1>7
  <2> DEFINE one == <<Number(0)>>
  <2>2. one \in Seq(StoryCodes) /\ Len(one) = 1 /\ one[1] = <<"P", 0>>
    BY DEF Number, StoryCodes
  <2> HIDE DEF one
  <2>3. /\ Fresh(c, v) \in Seq(StoryCodes) /\ Len(Fresh(c, v)) = 1 + size
        /\ \A i \in 1 .. 1 + size : Fresh(c, v)[i] = IF i = 1 THEN one[1] ELSE entries[i - 1]
    BY <1>1, <1>4, <2>1, <2>2, ConcatProperties DEF one
  <2>4. \A i \in 1 .. 1 + size : Fresh(c, v)[i] = <<"P", IF i = 1 THEN 0 ELSE top + (i - 1)>>
    <3>1. ASSUME NEW i \in 2 .. 1 + size PROVE Fresh(c, v)[i] = <<"P", top + (i - 1)>>
      <4>1. i - 1 \in 1 .. size /\ i \in 1 .. 1 + size /\ i # 1
        BY <1>1
      <4> QED BY <1>5, <2>3, <4>1
    <3>2. Fresh(c, v)[1] = <<"P", 0>>
      BY <1>1, <2>2, <2>3
    <3> QED BY <1>1, <3>1, <3>2
  <2>5. ASSUME NEW i \in 1 .. 1 + size, NEW j \in 1 .. 1 + size, Fresh(c, v)[i] = Fresh(c, v)[j] PROVE i = j
    <3>1. (IF i = 1 THEN 0 ELSE top + (i - 1)) = (IF j = 1 THEN 0 ELSE top + (j - 1))
      BY <2>4, <2>5
    <3> QED BY <1>1, <1>2, <3>1
  <2> QED BY <1>1, <2>3, <2>5 DEF Distinct, size
<1> QED BY <1>6, <1>7

-----------------------------------------------------------------------------
(* The quote under its stories: a kit brings rows of its own and derives   *)
(* the totals, everything else leaves the quote to its own requests.       *)

LEMMA KitRowsKept ==
  ASSUME IInv, IsDraft(Latest), SnapshotRows(Latest), UNCHANGED <<deal, items, shown>>,
         died' \in 0 .. MaxCrashes, tangled' \in BOOLEAN,
         moves' \in [Moves -> {NoMove} \cup [item : Items, sort : 0 .. MaxPlace]],
         Recompute(items', Latest) \/ UNCHANGED <<quotes, adrift>>
  PROVE  IInv'
<1>0. PICK mod \in SUBSET {m \in Modules : palette[m] = Absent},
           ms \in SUBSET {m \in Milestones : milestones[m] = NoMilestone} :
        Cardinality(mod) = 1 /\ Cardinality(ms) = 1 /\ Bottom(milestones, Latest) <= MaxPlace
        /\ Seeded(mod, ms, Latest)
  BY DEF SnapshotRows
<1>L. Latest \in 1 .. Latest /\ Latest \in 1 .. MaxVersions /\ Latest \in Nat
  BY DEF IInv, DealTypes
<1>1. mod # {} /\ ms # {}
  <2>1. Cardinality({}) = 0
    BY FS_EmptySet
  <2> QED BY <1>0, <2>1
<1> DEFINE a == CHOOSE m \in mod : TRUE
           b == CHOOSE m \in ms : TRUE
           row == [quote |-> Latest, share |-> 0, sort |-> Bottom(milestones, Latest)]
<1>2. a \in Modules /\ b \in Milestones
  BY <1>1
<1>3. palette' = [palette EXCEPT ![a] = 0] /\ milestones' = [milestones EXCEPT ![b] = row]
  BY <1>0, <1>1 DEF Seeded
<1>4. row \in [quote : 0 .. MaxVersions, share : Int, sort : 0 .. MaxPlace] /\ row.quote = Latest
  <2>1. DOMAIN milestones = Milestones /\ \A m \in Milestones : milestones[m].sort \in 0 .. MaxPlace
    BY DEF IInv, RowTypes
  <2>2. Bottom(milestones, Latest) \in 0 .. MaxPlace
    BY <1>0, <2>1, BottomBelow, QuoteBounds
  <2>3. Latest \in 0 .. MaxVersions
    BY <1>L, QuoteBounds
  <2> QED BY <2>2, <2>3
<1> HIDE DEF a, b, row
<1>5. PanelTypes'
  BY <1>3, ScopeBounds DEF IInv, PanelTypes
<1>6. Latest' = Latest
  BY <1>L, Recomputed DEF IInv, Latest, RowTypes
<1>7. RowTypes'
  <2>1. \A m \in Milestones : milestones'[m].quote <= Latest
    BY <1>2, <1>3, <1>4, <1>L DEF IInv, RowTypes
  <2>2. milestones' \in [Milestones -> [quote : 0 .. MaxVersions, share : Int, sort : 0 .. MaxPlace]]
    BY <1>2, <1>3, <1>4 DEF IInv, RowTypes
  <2> QED BY <1>6, <2>1, <2>2 DEF IInv, RowTypes
<1>8. CASE UNCHANGED <<quotes, adrift>>
  BY <1>5, <1>7, <1>8, DealStays DEF IInv
<1>9. CASE Recompute(items', Latest)
  <2>1. /\ quotes' \in Seq(QuoteRow)
        /\ quotes'[Latest].hours = HoursOf(items', Latest) /\ quotes'[Latest].cents = CentsOf(items', Latest)
        /\ \A w \in 1 .. Latest : quotes'[w].status = quotes[w].status
        /\ \A w \in 1 .. Latest : w # Latest => quotes'[w] = quotes[w]
        /\ adrift' = adrift \ {Latest}
    BY <1>9, <1>L, Recomputed DEF IInv, RowTypes, Recompute
  <2>2. DealTypes'
    BY <1>6, <2>1 DEF IInv, DealTypes, deal
  <2>3. OneLiveQuote' /\ KickoffAfterApproval'
    BY <1>6, <1>L, <2>1 DEF IInv, OneLiveQuote, KickoffAfterApproval, deal
  <2>4. TotalsFollowItems'
    <3> SUFFICES ASSUME NEW w \in 1 .. Latest, w \notin adrift'
                 PROVE  quotes'[w].hours = HoursOf(items', w) /\ quotes'[w].cents = CentsOf(items', w)
      BY <1>6 DEF TotalsFollowItems, HoursOf, CentsOf, Of
    <3>1. items' = items
      OBVIOUS
    <3> QED BY <2>1, <3>1 DEF IInv, TotalsFollowItems
  <2> QED BY <1>5, <1>7, <2>2, <2>3, <2>4 DEF IInv
<1> QED BY <1>8, <1>9

LEMMA DeathTypes ==
  ASSUME IInv, Die
  PROVE  /\ died' \in 0 .. MaxCrashes /\ tangled' \in BOOLEAN
         /\ moves' \in [Moves -> {NoMove} \cup [item : Items, sort : 0 .. MaxPlace]]
BY QuoteBounds DEF IInv, PanelTypes, Die

LEMMA KitsKept ==
  ASSUME IInv, KitNext
  PROVE  IInv'
<1>1. ASSUME NEW code, CreateTask(code) PROVE IInv'
  <2>1. UNCHANGED quoteVars
    BY <1>1 DEF CreateTask, pricing, quoteVars
  <2> QED BY <2>1, StepInv
<1>2. CASE InstantiateKit
  <2>1. /\ IsDraft(Latest) /\ SnapshotRows(Latest) /\ UNCHANGED <<deal, items, panel, died>>
        /\ Recompute(items, Latest) \/ UNCHANGED <<quotes, adrift>>
    BY <1>2 DEF InstantiateKit
  <2>2. Recompute(items', Latest) \/ UNCHANGED <<quotes, adrift>>
    BY <2>1 DEF Recompute
  <2>3. /\ died' \in 0 .. MaxCrashes /\ tangled' \in BOOLEAN /\ shown' = shown
        /\ moves' \in [Moves -> {NoMove} \cup [item : Items, sort : 0 .. MaxPlace]]
    BY <2>1 DEF IInv, PanelTypes, panel
  <2> QED BY <2>1, <2>2, <2>3, KitRowsKept
<1>3. CASE CutKit
  BY <1>3, KitRowsKept, DeathTypes DEF CutKit, DieInHandler
<1> QED BY <1>1, <1>2, <1>3 DEF KitNext

LEMMA TalkKept ==
  ASSUME IInv, TalkNext
  PROVE  IInv'
<1>1. CASE UNCHANGED <<pricing, died>>
  BY <1>1, StepInv DEF pricing, quoteVars
<1>2. CASE CutMaterialize
  <2>1. Die /\ UNCHANGED <<deal, rows, shown, quotes, adrift>>
    BY <1>2 DEF CutMaterialize, DieInHandler
  <2>2. PanelTypes'
    BY <2>1, DeathTypes DEF IInv, PanelTypes, rows
  <2>3. DealTypes' /\ RowTypes' /\ OneLiveQuote' /\ KickoffAfterApproval' /\ TotalsFollowItems'
    BY <2>1, DealStays, RowsStay DEF rows, Latest
  <2> QED BY <2>2, <2>3 DEF IInv
<1>3. UNCHANGED <<pricing, died>> \/ CutMaterialize
  BY DEF TalkNext, CreateStory, Mount, Send, SendRefused, Propose, Reply, TurnFails, RequestAdjustments,
     ClickApprove, Materialize, ApproveRefused
<1> QED BY <1>1, <1>2, <1>3

LEMMA ScopeKeepsQuote ==
  ASSUME IInv, [ScopeNext]_<<quoteVars, scopeVars>>
  PROVE  IInv'
<1>1. CASE LifeNext
  BY <1>1, StepInv DEF QuoteNext
<1>2. CASE UNCHANGED quoteVars
  BY <1>2, StepInv
<1> QED BY <1>1, <1>2, KitsKept, TalkKept DEF ScopeNext

(* Versions are added at the end.                                          *)
LEMMA LatestGrows ==
  ASSUME IInv, [ScopeNext]_<<quoteVars, scopeVars>>
  PROVE  Latest \in Nat \ {0} /\ Latest' \in Nat /\ Latest <= Latest'
<1>0. Latest \in Nat \ {0} /\ Latest \in 1 .. Latest
  BY DEF IInv, DealTypes
<1>1. ASSUME Latest' = Latest PROVE Latest' \in Nat /\ Latest <= Latest'
  BY <1>0, <1>1
<1>2. CASE UNCHANGED quotes
  <2>1. Latest' = Latest
    BY <1>2 DEF Latest
  <2> QED BY <1>0, <1>1, <2>1
<1>3. CASE Recompute(items, Latest)
  BY <1>0, <1>1, <1>3, Recomputed DEF IInv, RowTypes
<1>4. ASSUME NEW v, SendQuote(v) \/ ApproveQuote(v) PROVE Latest' = Latest
  BY <1>4 DEF SendQuote, ApproveQuote, QuoteEvent, IInv, DealTypes, Latest
<1>5. ASSUME NEW v, RequestChanges(v) PROVE Latest' = Latest + 1
  <2> DEFINE old == [quotes[v] EXCEPT !.status = "changes_requested"]
             new == [quotes[v] EXCEPT !.status = "draft", !.discount = 0]
             q == [quotes EXCEPT ![v] = old]
  <2>1. quotes[v] \in QuoteRow
    BY <1>0, <1>5, RowFields DEF RequestChanges, IInv
  <2>2. old \in QuoteRow /\ new \in QuoteRow
    BY <2>1 DEF QuoteRow, QuoteStatuses
  <2>3. quotes' = Append(q, new)
    BY <1>5, <2>1 DEF RequestChanges, IInv, DealTypes, Latest, QuoteRow
  <2> HIDE DEF old, new
  <2>4. q \in Seq(QuoteRow) /\ Len(q) = Latest
    BY <1>0, <1>5, <2>2 DEF RequestChanges, IInv, DealTypes, Latest
  <2> HIDE DEF q
  <2> QED BY <2>2, <2>3, <2>4, AppendProperties DEF Latest
<1>6. UNCHANGED quotes \/ Recompute(items, Latest) \/ LifeNext
  BY DEF ScopeNext, KitNext, CreateTask, InstantiateKit, CutKit, TalkNext, CreateStory, Mount, Send, SendRefused,
     Propose, Reply, TurnFails, RequestAdjustments, ClickApprove, Materialize, ApproveRefused, CutMaterialize,
     pricing, quoteVars
<1>7. LifeNext => Latest' = Latest \/ Latest' = Latest + 1
  BY <1>4, <1>5 DEF LifeNext
<1>8. ASSUME Latest' = Latest + 1 PROVE Latest' \in Nat /\ Latest <= Latest'
  BY <1>0, <1>8
<1> QED BY <1>0, <1>1, <1>2, <1>3, <1>6, <1>7, <1>8

-----------------------------------------------------------------------------
(* The conversation and its window.                                        *)

Drafts == [of : Nat, size : Proposals \cup {0}]
Statuses == {"active", "converged", "archived"}
Window == [conv : Nat, status : Statuses \cup {"none"}, draft : Drafts,
           sending : BOOLEAN, approving : BOOLEAN]
Taken == [conv : Nat, shown : Drafts, quote : Nat, codes : SUBSET StoryCodes]

TalkTypes ==
    /\ convs \in Seq(Talk)
    /\ \A c \in 1 .. Len(convs) : convs[c].draft.of <= convs[c].asks
    /\ turns \subseteq [conv : Nat, ask : Nat, heard : BOOLEAN]
    /\ \A t \in turns : t.conv \in 1 .. Len(convs) /\ t.ask \in 1 .. convs[t.conv].asks
    /\ chat \in Window /\ chat.conv <= Len(convs)
    /\ chat.conv = 0 => chat.draft = NoDraft /\ ~chat.approving
    /\ clicked \in Drafts /\ halved \in BOOLEAN
    /\ taken \in Seq(Taken)

(* The only turn of a conversation that was never crossed answers its last *)
(* message, and so does its draft once it converged.                       *)
LastAsked ==
    /\ ConvergedOnLastMessage
    /\ \A t \in turns : t.conv \notin crossed => t.ask = convs[t.conv].asks

(* Where no window was closed on a turn, the window hears every turn and   *)
(* shows the draft that is stored.                                         *)
WindowHears ==
    /\ \A t \in turns : /\ t.heard => t.conv = chat.conv
                        /\ t.conv \notin unheard => t.heard
    /\ chat.conv # 0 /\ chat.conv \notin unheard => chat.draft = convs[chat.conv].draft

(* What was clicked is what is stored as long as the request is under way. *)
ClickStands ==
    /\ chat.approving /\ chat.conv \notin blind \cup unheard =>
           /\ clicked = convs[chat.conv].draft
           /\ \A t \in turns : t.conv # chat.conv
    /\ ApprovedAsShown

(* What an approval took is archived, once, with its stories.              *)
TakenOnce ==
    /\ \A i \in DOMAIN taken : /\ taken[i].conv \in 1 .. Len(convs)
                               /\ Cardinality(taken[i].codes) >= convs[taken[i].conv].draft.size
    /\ ArchivedIsClosed

TalkInv == TalkTypes /\ LastAsked /\ WindowHears /\ ClickStands /\ TakenOnce

TakenStories ==
    \A i \in DOMAIN taken : taken[i].codes \subseteq CodesOf(taken[i].quote) \cap tasked

LEMMA ViewIs ==
  ASSUME NEW c \in Nat, convs'[c].status \in Statuses, convs'[c].draft \in Drafts
  PROVE  /\ View(c) \in Window /\ View(c).conv = c /\ View(c).draft = convs'[c].draft
         /\ ~View(c).approving
<1>1. NoView \in Window /\ ~NoView.approving
  BY DEF NoView, NoDraft, Window, Drafts, Statuses
<1> QED BY <1>1 DEF View, Window

LEMMA ConvType ==
  ASSUME TalkTypes, NEW c \in 1 .. Len(convs)
  PROVE  /\ convs[c] \in Talk /\ convs[c].status \in Statuses /\ convs[c].draft \in Drafts
         /\ convs[c].asks \in Nat /\ convs[c].draft.of <= convs[c].asks
<1>1. convs[c] \in Talk
  BY ElementOfSeq DEF TalkTypes
<1> QED BY <1>1 DEF Talk, Statuses, Drafts, TalkTypes

(* The steps that leave the conversations alone: turns end, the window     *)
(* reads or shows less, a request is answered.                             *)
LEMMA QuietStep ==
  ASSUME TalkInv, UNCHANGED <<convs, crossed, unheard, sight, taken>>, turns' \subseteq turns,
         chat' \in Window, chat'.conv = chat.conv, halved' \in BOOLEAN,
         chat'.draft = chat.draft \/ (chat.conv # 0 /\ chat'.draft = convs[chat.conv].draft),
         chat'.approving => chat.approving
  PROVE  TalkInv'
<1>1. TalkTypes'
  BY DEF TalkInv, TalkTypes, sight
<1>2. LastAsked' /\ TakenOnce'
  BY DEF TalkInv, LastAsked, ConvergedOnLastMessage, TakenOnce, ArchivedIsClosed
<1>3. WindowHears'
  BY DEF TalkInv, WindowHears
<1>4. ClickStands'
  BY DEF TalkInv, ClickStands, ApprovedAsShown, sight
<1> QED BY <1>1, <1>2, <1>3, <1>4 DEF TalkInv

(* Turns that the window has left.                                         *)
LEMMA DeafTurns ==
  ASSUME TalkTypes
  PROVE  /\ Deaf \subseteq [conv : Nat, ask : Nat, heard : BOOLEAN]
         /\ \A t \in Deaf : /\ ~t.heard
                            /\ \E s \in turns : s.conv = t.conv /\ s.ask = t.ask
<1> SUFFICES ASSUME NEW s \in turns
             PROVE  /\ [s EXCEPT !.heard = FALSE] \in [conv : Nat, ask : Nat, heard : BOOLEAN]
                    /\ ~[s EXCEPT !.heard = FALSE].heard
                    /\ [s EXCEPT !.heard = FALSE].conv = s.conv
                    /\ [s EXCEPT !.heard = FALSE].ask = s.ask
  BY DEF Deaf
<1> QED BY DEF TalkTypes

LEMMA MountStep ==
  ASSUME TalkInv, Mount
  PROVE  TalkInv'
<1>1. /\ ~chat.approving /\ turns' = Deaf /\ unheard' = unheard \cup {t.conv : t \in turns}
      /\ UNCHANGED <<crossed, blind, clicked, taken, halved>>
  BY DEF Mount, sight
<1> DEFINE open == {c \in 1 .. Len(convs) : Open(c)}
           first == [status |-> "active", asks |-> 0, draft |-> NoDraft]
<1>2. PICK c \in 1 .. Len(convs') :
        chat' = View(c) /\ (convs' = convs \/ (c = Len(convs) + 1 /\ convs' = Append(convs, first)))
  <2>1. CASE open # {} /\ UNCHANGED convs /\ chat' = View(Max(open))
    <3>1. Len(convs) \in Nat
      BY DEF TalkInv, TalkTypes
    <3>2. IsFiniteSet(1 .. Len(convs)) /\ 1 .. Len(convs) \in SUBSET Int
      BY <3>1, FS_Interval
    <3>3. IsFiniteSet(open) /\ open \in SUBSET Int
      BY <3>2, FS_Subset
    <3>4. Max(open) \in open
      BY <2>1, <3>3, MaxOfFinite
    <3> QED BY <2>1, <3>4
  <2>2. CASE convs' = Append(convs, first) /\ chat' = View(Len(convs'))
    <3>1. Len(convs') = Len(convs) + 1 /\ Len(convs) \in Nat
      BY <2>2 DEF TalkInv, TalkTypes
    <3> QED BY <2>2, <3>1
  <2> QED BY <2>1, <2>2 DEF Mount
<1>3. first \in Talk /\ NoDraft \in Drafts
  BY DEF Talk, NoDraft, Drafts
<1>4. /\ convs' \in Seq(Talk) /\ Len(convs) \in Nat /\ Len(convs) <= Len(convs') /\ Len(convs') \in Nat
      /\ \A d \in 1 .. Len(convs) : convs'[d] = convs[d]
      /\ \A d \in 1 .. Len(convs') : d \notin 1 .. Len(convs) => convs'[d] = first
  <2>1. convs \in Seq(Talk) /\ Len(convs) \in Nat
    BY DEF TalkInv, TalkTypes
  <2>2. CASE convs' = convs
    BY <2>1, <2>2
  <2>3. CASE convs' = Append(convs, first)
    <3> HIDE DEF first
    <3>1. /\ convs' \in Seq(Talk) /\ Len(convs') = Len(convs) + 1 /\ convs'[Len(convs) + 1] = first
          /\ \A d \in 1 .. Len(convs) : convs'[d] = convs[d]
      BY <1>3, <2>1, <2>3, AppendProperties
    <3> QED BY <2>1, <3>1
  <2> QED BY <1>2, <2>2, <2>3
<1>5. \A d \in 1 .. Len(convs') : /\ convs'[d].draft.of <= convs'[d].asks
                                  /\ convs'[d] \in Talk
  BY <1>4, ElementOfSeq DEF TalkInv, TalkTypes, NoDraft
<1>6. chat' \in Window /\ chat'.conv = c /\ ~chat'.approving /\ chat'.draft = convs'[c].draft
  <2>1. convs'[c].status \in Statuses /\ convs'[c].draft \in Drafts /\ c \in Nat
    BY <1>4, <1>5 DEF Talk, Statuses, Drafts
  <2> QED BY <1>2, <2>1, ViewIs DEF Window
<1>7. /\ turns' \subseteq [conv : Nat, ask : Nat, heard : BOOLEAN]
      /\ \A t \in turns' : /\ ~t.heard /\ t.conv \in unheard'
                           /\ \E s \in turns : s.conv = t.conv /\ s.ask = t.ask
  BY <1>1, DeafTurns DEF TalkInv
<1>8. TalkTypes'
  <2>1. \A t \in turns' : t.conv \in 1 .. Len(convs') /\ t.ask \in 1 .. convs'[t.conv].asks
    BY <1>4, <1>7 DEF TalkInv, TalkTypes
  <2> QED BY <1>1, <1>2, <1>4, <1>5, <1>6, <1>7, <2>1 DEF TalkInv, TalkTypes
<1>9. LastAsked'
  <2>1. \A d \in (1 .. Len(convs')) \ crossed : convs'[d].status = "converged" => convs'[d].draft.of = convs'[d].asks
    BY <1>4 DEF TalkInv, LastAsked, ConvergedOnLastMessage
  <2>2. \A t \in turns' : t.conv \notin crossed => t.ask = convs'[t.conv].asks
    BY <1>4, <1>7 DEF TalkInv, LastAsked, TalkTypes
  <2> QED BY <1>1, <2>1, <2>2 DEF LastAsked, ConvergedOnLastMessage
<1>10. WindowHears'
  BY <1>6, <1>7 DEF WindowHears
<1>11. ClickStands' /\ TakenOnce'
  <2>1. \A i \in DOMAIN taken : taken[i].conv \in 1 .. Len(convs) /\ convs'[taken[i].conv] = convs[taken[i].conv]
    BY <1>4 DEF TalkInv, TakenOnce
  <2>2. ApprovedAsShown'
    BY <1>1, <2>1 DEF TalkInv, ClickStands, ApprovedAsShown
  <2>3. \A d \in 1 .. Len(convs') : convs'[d].status = "archived" <=> \E i \in DOMAIN taken : taken[i].conv = d
    BY <1>4, <2>1 DEF TalkInv, TakenOnce, ArchivedIsClosed
  <2>4. TakenOnce'
    BY <1>1, <1>4, <2>1, <2>3 DEF TalkInv, TakenOnce, ArchivedIsClosed
  <2> QED BY <1>6, <2>2, <2>4 DEF ClickStands
<1> QED BY <1>8, <1>9, <1>10, <1>11 DEF TalkInv

(* One conversation that is not archived changes.                          *)
LEMMA OpenChanged ==
  ASSUME TalkInv, NEW c \in 1 .. Len(convs), Open(c), NEW row \in Talk, row.status # "archived",
         convs' = [convs EXCEPT ![c] = row], taken' = taken, unheard' = unheard, blind \subseteq blind'
  PROVE  /\ convs' \in Seq(Talk) /\ Len(convs') = Len(convs) /\ convs'[c] = row
         /\ \A d \in 1 .. Len(convs) : d # c => convs'[d] = convs[d]
         /\ TakenOnce' /\ ApprovedAsShown'
<1>1. /\ convs' \in Seq(Talk) /\ Len(convs') = Len(convs) /\ convs'[c] = row
      /\ \A d \in 1 .. Len(convs) : d # c => convs'[d] = convs[d]
  BY DEF TalkInv, TalkTypes
<1>2. \A i \in DOMAIN taken : taken[i].conv \in 1 .. Len(convs) /\ taken[i].conv # c
  BY DEF TalkInv, TakenOnce, ArchivedIsClosed, Open
<1>3. TakenOnce'
  <2>1. \A d \in 1 .. Len(convs') : convs'[d].status = "archived" <=> \E i \in DOMAIN taken : taken[i].conv = d
    BY <1>1, <1>2 DEF TalkInv, TakenOnce, ArchivedIsClosed
  <2> QED BY <1>1, <1>2, <2>1 DEF TalkInv, TakenOnce, ArchivedIsClosed
<1>4. ApprovedAsShown'
  BY <1>1, <1>2 DEF TalkInv, ClickStands, ApprovedAsShown
<1> QED BY <1>1, <1>3, <1>4

LEMMA SendStep ==
  ASSUME TalkInv, Send
  PROVE  TalkInv'
<1> DEFINE c == chat.conv
           row == [convs[c] EXCEPT !.asks = @ + 1, !.status = "active"]
           turn == [conv |-> c, ask |-> convs[c].asks + 1, heard |-> TRUE]
<1>1. /\ chat.status = "active" /\ ~chat.sending /\ Open(c) /\ c \in 1 .. Len(convs)
      /\ turns' = turns \cup {turn} /\ chat' = [chat EXCEPT !.sending = TRUE]
      /\ crossed' = IF \E t \in turns : t.conv = c THEN crossed \cup {c} ELSE crossed
      /\ blind' = IF chat.approving THEN blind \cup {c} ELSE blind
      /\ UNCHANGED <<unheard, clicked, taken, halved>>
  BY DEF Send, Open
<1>2. /\ convs[c] \in Talk /\ convs[c].asks \in Nat /\ convs[c].draft.of \in Nat
      /\ convs[c].draft.of <= convs[c].asks
  BY <1>1, ConvType DEF TalkInv, Drafts
<1>3. /\ row \in Talk /\ row.status = "active" /\ row.asks = convs[c].asks + 1 /\ row.draft = convs[c].draft
  <2> DEFINE n == convs[c].asks + 1
  <2>1. n \in Nat
    BY <1>2
  <2>2. row = [convs[c] EXCEPT !.asks = n, !.status = "active"]
    OBVIOUS
  <2> HIDE DEF n, row
  <2>3. row \in Talk /\ row.status = "active" /\ row.asks = n /\ row.draft = convs[c].draft
    BY <1>2, <2>1, <2>2 DEF Talk
  <2> QED BY <2>3 DEF n
<1>4. convs' = [convs EXCEPT ![c] = row]
  BY <1>1, <1>2 DEF Send, TalkInv, TalkTypes, Talk
<1>5. turn \in [conv : Nat, ask : Nat, heard : BOOLEAN] /\ turn.conv = c /\ turn.ask = convs[c].asks + 1 /\ turn.heard
  BY <1>1, <1>2 DEF TalkInv, TalkTypes
<1>6. /\ chat' \in Window /\ chat'.conv = c /\ chat'.draft = chat.draft /\ chat'.approving = chat.approving
  BY <1>1 DEF TalkInv, TalkTypes, Window
<1> HIDE DEF row, turn
<1>7. /\ convs' \in Seq(Talk) /\ Len(convs') = Len(convs) /\ convs'[c] = row
      /\ \A d \in 1 .. Len(convs) : d # c => convs'[d] = convs[d]
      /\ TakenOnce' /\ ApprovedAsShown'
  BY <1>1, <1>3, <1>4, OpenChanged
<1>8. TalkTypes'
  <2>1. \A d \in 1 .. Len(convs) : convs'[d].draft.of <= convs'[d].asks
    <3>1. row.draft.of <= row.asks
      BY <1>2, <1>3
    <3> QED BY <1>7, <3>1 DEF TalkInv, TalkTypes
  <2>2. \A t \in turns : t.conv \in 1 .. Len(convs) /\ t.ask \in 1 .. convs'[t.conv].asks
    <3> SUFFICES ASSUME NEW t \in turns PROVE t.conv \in 1 .. Len(convs) /\ t.ask \in 1 .. convs'[t.conv].asks
      OBVIOUS
    <3>1. t.conv \in 1 .. Len(convs) /\ t.ask \in 1 .. convs[t.conv].asks
      BY DEF TalkInv, TalkTypes
    <3> QED BY <1>2, <1>3, <1>7, <3>1
  <2>3. turn.conv \in 1 .. Len(convs) /\ turn.ask \in 1 .. convs'[turn.conv].asks
    BY <1>1, <1>2, <1>3, <1>5, <1>7
  <2>4. \A t \in turns' : t.conv \in 1 .. Len(convs) /\ t.ask \in 1 .. convs'[t.conv].asks
    BY <1>1, <2>2, <2>3
  <2>5. turns' \subseteq [conv : Nat, ask : Nat, heard : BOOLEAN]
    BY <1>1, <1>5 DEF TalkInv, TalkTypes
  <2> QED BY <1>1, <1>6, <1>7, <2>1, <2>4, <2>5 DEF TalkInv, TalkTypes
<1>9. LastAsked'
  <2>1. \A d \in (1 .. Len(convs')) \ crossed' : convs'[d].status = "converged" => convs'[d].draft.of = convs'[d].asks
    BY <1>1, <1>3, <1>7 DEF TalkInv, LastAsked, ConvergedOnLastMessage
  <2>2. \A t \in turns' : t.conv \notin crossed' => t.ask = convs'[t.conv].asks
    BY <1>1, <1>3, <1>5, <1>7 DEF TalkInv, LastAsked, TalkTypes
  <2> QED BY <2>1, <2>2 DEF LastAsked, ConvergedOnLastMessage
<1>10. WindowHears'
  BY <1>1, <1>3, <1>5, <1>6, <1>7 DEF TalkInv, WindowHears
<1>11. ClickStands'
  BY <1>1, <1>6, <1>7 DEF ClickStands
<1> QED BY <1>7, <1>8, <1>9, <1>10, <1>11 DEF TalkInv

LEMMA ProposeStep ==
  ASSUME TalkInv, NEW t \in turns, NEW size \in Proposals, Propose(t, size)
  PROVE  TalkInv'
<1> DEFINE c == t.conv
           draft == [of |-> t.ask, size |-> size]
           row == [convs[c] EXCEPT !.status = "converged", !.draft = draft]
<1>1. /\ turns' = turns \ {t} /\ Hear(t, View(c)) /\ UNCHANGED <<crossed, unheard, blind, clicked, taken, halved>>
      /\ convs' = IF Open(c) THEN [convs EXCEPT ![c].status = "converged", ![c].draft = draft] ELSE convs
  BY DEF Propose, sight
<1>2. c \in 1 .. Len(convs) /\ c \in Nat /\ t.ask \in 1 .. convs[c].asks /\ t.ask \in Nat /\ t.heard \in BOOLEAN
  BY DEF TalkInv, TalkTypes
<1>3. /\ convs[c] \in Talk /\ convs[c].status \in Statuses /\ convs[c].draft \in Drafts /\ convs[c].asks \in Nat
  BY <1>2, ConvType DEF TalkInv
<1>4. draft \in Drafts
  BY <1>2 DEF Drafts
<1>5. row \in Talk /\ row.status = "converged" /\ row.draft = draft /\ row.asks = convs[c].asks
  <2> HIDE DEF draft
  <2> QED BY <1>3, <1>4 DEF Talk, Drafts
<1>6. ASSUME t.heard, View(c) \in Window, View(c).conv = c
      PROVE  /\ chat' \in Window /\ chat'.conv = c /\ chat.conv = c
             /\ chat'.draft = View(c).draft /\ chat'.approving = chat.approving
  BY <1>1, <1>6 DEF Hear, Window, TalkInv, TalkTypes, WindowHears
<1>7. CASE ~Open(c)
  <2>1. convs' = convs
    BY <1>1, <1>7
  <2>2. View(c) \in Window /\ View(c).conv = c /\ View(c).draft = convs[c].draft
    BY <1>2, <1>3, <2>1, ViewIs
  <2>3. CASE t.heard
    BY <1>1, <1>2, <1>6, <2>1, <2>2, <2>3, QuietStep DEF TalkInv, TalkTypes, sight
  <2>4. CASE ~t.heard
    BY <1>1, <2>1, <2>4, QuietStep DEF Hear, TalkInv, TalkTypes, sight
  <2> QED BY <1>2, <2>3, <2>4
<1>8. CASE Open(c)
  <2>1. convs' = [convs EXCEPT ![c] = row]
    BY <1>1, <1>2, <1>3, <1>8 DEF TalkInv, TalkTypes, Talk
  <2>d. draft.of = t.ask
    OBVIOUS
  <2> HIDE DEF row, draft
  <2>2. /\ convs' \in Seq(Talk) /\ Len(convs') = Len(convs) /\ convs'[c] = row
        /\ \A d \in 1 .. Len(convs) : d # c => convs'[d] = convs[d]
        /\ TakenOnce' /\ ApprovedAsShown'
    BY <1>1, <1>2, <1>5, <1>8, <2>1, OpenChanged
  <2>3. View(c) \in Window /\ View(c).conv = c /\ View(c).draft = row.draft
    BY <1>2, <1>4, <1>5, <2>2, ViewIs DEF Statuses
  <2>4. /\ chat' \in Window /\ chat'.conv = chat.conv /\ chat'.approving = chat.approving
        /\ IF t.heard THEN chat.conv = c /\ chat'.draft = row.draft ELSE chat'.draft = chat.draft
    <3>1. CASE t.heard
      BY <1>6, <2>3, <3>1
    <3>2. CASE ~t.heard
      BY <1>1, <3>2 DEF Hear, TalkInv, TalkTypes
    <3> QED BY <1>2, <3>1, <3>2
  <2>5. TalkTypes'
    <3>1. \A d \in 1 .. Len(convs) : convs'[d].draft.of <= convs'[d].asks /\ convs'[d].asks = convs[d].asks
      <4>1. row.draft.of <= row.asks
        BY <1>2, <1>5, <2>d
      <4>2. \A d \in 1 .. Len(convs) : convs[d].draft.of <= convs[d].asks
        BY DEF TalkInv, TalkTypes
      <4> QED BY <1>5, <2>2, <4>1, <4>2
    <3>2. chat.conv = 0 => chat'.draft = NoDraft /\ ~chat'.approving
      BY <1>2, <2>4 DEF TalkInv, TalkTypes
    <3> QED BY <1>1, <2>2, <2>4, <3>1, <3>2 DEF TalkInv, TalkTypes
  <2>6. LastAsked'
    <3>1. c \notin crossed => t.ask = convs[c].asks
      BY DEF TalkInv, LastAsked
    <3>2. \A d \in (1 .. Len(convs')) \ crossed' : convs'[d].status = "converged" => convs'[d].draft.of = convs'[d].asks
      BY <1>1, <1>5, <2>2, <2>d, <3>1 DEF TalkInv, LastAsked, ConvergedOnLastMessage
    <3>3. \A s \in turns' : s.conv \notin crossed' => s.ask = convs'[s.conv].asks
      BY <1>1, <1>5, <2>2 DEF TalkInv, LastAsked, TalkTypes
    <3> QED BY <3>2, <3>3 DEF LastAsked, ConvergedOnLastMessage
  <2>7. WindowHears'
    <3>1. chat.conv # 0 /\ chat.conv \notin unheard => chat'.draft = convs'[chat.conv].draft
      <4>1. CASE t.heard
        BY <2>2, <2>4, <4>1
      <4>2. CASE ~t.heard
        <5>1. c \in unheard
          BY <4>2 DEF TalkInv, WindowHears
        <5>2. chat.conv # 0 /\ chat.conv \notin unheard => chat.conv \in 1 .. Len(convs) /\ chat.conv # c
          BY <5>1 DEF TalkInv, TalkTypes, Window
        <5> QED BY <2>2, <2>4, <4>2, <5>2 DEF TalkInv, WindowHears
      <4> QED BY <1>2, <4>1, <4>2
    <3> QED BY <1>1, <2>4, <3>1 DEF TalkInv, WindowHears
  <2>8. ClickStands'
    <3>1. ASSUME chat.approving, chat.conv \notin blind \cup unheard
          PROVE  clicked = convs'[chat.conv].draft /\ \A s \in turns : s.conv # chat.conv
      <4>1. chat.conv # c /\ chat.conv \in 1 .. Len(convs)
        BY <3>1 DEF TalkInv, ClickStands, TalkTypes, Window
      <4> QED BY <2>2, <3>1, <4>1 DEF TalkInv, ClickStands
    <3> QED BY <1>1, <2>2, <2>4, <3>1 DEF ClickStands
  <2> QED BY <2>2, <2>5, <2>6, <2>7, <2>8 DEF TalkInv
<1> QED BY <1>7, <1>8

(* What the window hears or shows without the conversation changing.       *)
LEMMA WindowStep ==
  ASSUME TalkInv, SendRefused \/ RequestAdjustments \/ ApproveRefused
                  \/ \E t \in turns : Reply(t) \/ TurnFails(t)
  PROVE  TalkInv'
<1>1. /\ UNCHANGED <<convs, crossed, unheard, sight, taken>> /\ turns' \subseteq turns /\ halved' \in BOOLEAN
  BY DEF SendRefused, RequestAdjustments, ApproveRefused, Reply, TurnFails, talk, TalkInv, TalkTypes
<1>2. ASSUME NEW c \in 1 .. Len(convs)
      PROVE  View(c) \in Window /\ View(c).conv = c /\ View(c).draft = convs[c].draft
  BY <1>1, ConvType, ViewIs DEF TalkInv, TalkTypes
<1>3. ASSUME NEW c \in 1 .. Len(convs), c = chat.conv, chat' = [View(c) EXCEPT !.approving = chat.approving]
      PROVE  TalkInv'
  <2>1. View(c) \in Window /\ View(c).conv = c /\ View(c).draft = convs[c].draft /\ c # 0
    BY <1>2
  <2>2. /\ chat' \in Window /\ chat'.conv = chat.conv /\ chat'.draft = convs[chat.conv].draft
        /\ chat'.approving = chat.approving
    BY <1>3, <2>1 DEF Window, TalkInv, TalkTypes
  <2> QED BY <1>1, <1>3, <2>1, <2>2, QuietStep
<1>4. CASE SendRefused
  <2>1. chat.conv \in 1 .. Len(convs) /\ chat' = [View(chat.conv) EXCEPT !.approving = chat.approving]
    BY <1>4 DEF SendRefused, TalkInv, TalkTypes, Window
  <2> QED BY <1>3, <2>1
<1>5. CASE RequestAdjustments \/ ApproveRefused
  <2>1. /\ chat' \in Window /\ chat'.conv = chat.conv /\ chat'.draft = chat.draft /\ (chat'.approving => chat.approving)
    BY <1>5 DEF RequestAdjustments, ApproveRefused, TalkInv, TalkTypes, Window, Statuses
  <2> QED BY <1>1, <2>1, QuietStep
<1>6. ASSUME NEW t \in turns, Reply(t) \/ TurnFails(t)
      PROVE  TalkInv'
  <2>1. CASE ~t.heard
    <3>1. chat' = chat
      BY <1>6, <2>1 DEF Reply, TurnFails, Hear
    <3> QED BY <1>1, <3>1, QuietStep DEF TalkInv, TalkTypes
  <2>2. CASE t.heard /\ Reply(t)
    <3>1. /\ chat' \in Window /\ chat'.conv = chat.conv /\ chat'.draft = chat.draft /\ (chat'.approving => chat.approving)
      BY <2>2 DEF Reply, Hear, TalkInv, TalkTypes, Window
    <3> QED BY <1>1, <3>1, QuietStep
  <2>3. CASE t.heard /\ TurnFails(t)
    <3>1. t.conv = chat.conv /\ t.conv \in 1 .. Len(convs)
      BY <2>3 DEF TalkInv, WindowHears, TalkTypes
    <3>2. chat' = [View(t.conv) EXCEPT !.approving = chat.approving]
      BY <2>3 DEF TurnFails, Hear
    <3> QED BY <1>3, <3>1, <3>2
  <2> QED BY <1>6, <2>1, <2>2, <2>3 DEF TalkInv, TalkTypes
<1> QED BY <1>4, <1>5, <1>6

LEMMA ClickStep ==
  ASSUME TalkInv, ClickApprove
  PROVE  TalkInv'
<1>1. /\ chat.draft.size > 0 /\ chat' = [chat EXCEPT !.approving = TRUE] /\ clicked' = chat.draft
      /\ blind' = IF \E t \in turns : t.conv = chat.conv THEN blind \cup {chat.conv} ELSE blind
      /\ UNCHANGED <<convs, turns, crossed, unheard, taken, halved>>
  BY DEF ClickApprove, talk
<1>2. chat.conv # 0 /\ chat \in Window /\ chat.draft \in Drafts
  BY <1>1 DEF TalkInv, TalkTypes, NoDraft, Window
<1>3. chat' \in Window /\ chat'.conv = chat.conv /\ chat'.draft = chat.draft
  BY <1>1, <1>2 DEF Window
<1>4. TalkTypes'
  BY <1>1, <1>2, <1>3 DEF TalkInv, TalkTypes
<1>5. LastAsked' /\ TakenOnce' /\ WindowHears'
  BY <1>1, <1>3 DEF TalkInv, LastAsked, ConvergedOnLastMessage, TakenOnce, ArchivedIsClosed, WindowHears
<1>6. ClickStands'
  BY <1>1, <1>2, <1>3 DEF TalkInv, ClickStands, ApprovedAsShown, WindowHears
<1> QED BY <1>4, <1>5, <1>6 DEF TalkInv

-----------------------------------------------------------------------------
(* Approvals, kits and what they leave in the quote.                       *)

LEMMA CodesCount ==
  ASSUME NEW S, NEW codes \in Seq(S), Distinct(codes)
  PROVE  Cardinality({codes[i] : i \in DOMAIN codes}) = Len(codes)
<1> DEFINE T == {codes[i] : i \in DOMAIN codes}
<1>1. Len(codes) \in Nat /\ DOMAIN codes = 1 .. Len(codes) /\ codes \in [1 .. Len(codes) -> T]
  OBVIOUS
<1>2. codes \in Injection(1 .. Len(codes), T)
  BY <1>1 DEF Injection, IsInjective, Distinct
<1>3. codes \in Surjection(1 .. Len(codes), T)
  BY <1>1 DEF Surjection
<1>4. IsFiniteSet(1 .. Len(codes)) /\ Cardinality(1 .. Len(codes)) = Len(codes)
  BY <1>1, FS_Interval
<1> HIDE DEF T
<1>5. Cardinality(T) = Len(codes)
  BY <1>2, <1>3, <1>4, FS_Surjection
<1> QED BY <1>5 DEF T

LEMMA StoriesGrow ==
  ASSUME TakenStories, stories \subseteq stories', tasked \subseteq tasked', taken' = taken
  PROVE  TakenStories'
BY DEF TakenStories, CodesOf

LEMMA StoriesStay ==
  ASSUME StoryInv, TakenStories, UNCHANGED <<stories, tasked, taken>>,
         Latest \in Nat, Latest' \in Nat, Latest <= Latest'
  PROVE  StoryInv' /\ TakenStories'
BY DEF StoryInv, CodesNameOneStory, Exists, TakenStories, CodesOf

LEMMA LatestStays ==
  ASSUME UNCHANGED quotes
  PROVE  Latest' = Latest
BY DEF Latest

(* An approval archives the conversation with the draft that was clicked.  *)
LEMMA MaterializedStep ==
  ASSUME TalkInv, StoryInv, TakenStories, Latest \in Nat \ {0}, Latest' = Latest,
         NEW c, c = chat.conv, NEW codes, codes = Fresh(c, Latest),
         chat.approving, Approvable(c), UNCHANGED <<turns, crossed, unheard, sight, halved>>,
         Room(codes) = Len(codes), Commit(codes, Len(codes), Len(codes), Latest),
         convs' = [convs EXCEPT ![c].status = "archived"],
         taken' = Append(taken, [conv |-> c, shown |-> clicked, quote |-> Latest,
                                 codes |-> {codes[i] : i \in DOMAIN codes}]),
         chat' = [chat EXCEPT !.approving = FALSE, !.status = "archived"]
  PROVE  TalkInv' /\ StoryInv' /\ TakenStories'
<1> DEFINE T == {codes[i] : i \in DOMAIN codes}
           row == [convs[c] EXCEPT !.status = "archived"]
           new == [conv |-> c, shown |-> clicked, quote |-> Latest, codes |-> T]
<1>1. c \in 1 .. Len(convs) /\ c \in Nat /\ convs \in Seq(Talk) /\ taken \in Seq(Taken)
  BY DEF TalkInv, TalkTypes, Window
<1>2. /\ convs[c] \in Talk /\ convs[c].status = "converged" /\ convs[c].draft \in Drafts
      /\ convs[c].draft.size \in Nat
  BY <1>1, ConvType, ScopeBounds DEF TalkInv, Approvable, Drafts
<1>3. row \in Talk /\ row.status = "archived" /\ row.draft = convs[c].draft /\ row.asks = convs[c].asks
  BY <1>2 DEF Talk
<1>4. convs' = [convs EXCEPT ![c] = row]
  BY <1>1, <1>2 DEF Talk
<1>5. codes \in Seq(StoryCodes) /\ Distinct(codes) /\ Len(codes) >= convs[c].draft.size /\ Len(codes) \in Nat
  BY <1>1, FreshDistinct, LenProperties
<1>6. T \in SUBSET StoryCodes /\ Cardinality(T) = Len(codes)
  BY <1>5, CodesCount
<1>7. StoryInv' /\ stories \subseteq stories' /\ tasked \subseteq tasked'
  BY <1>5, Committed
<1>8. T \subseteq CodesOf(Latest)' \cap tasked'
  <2> SUFFICES ASSUME NEW i \in 1 .. Len(codes) PROVE codes[i] \in CodesOf(Latest)' /\ codes[i] \in tasked'
    BY <1>5
  <2>1. codes[i] \in tasked' /\ [code |-> codes[i], quote |-> Latest] \in stories'
    BY DEF Commit
  <2> QED BY <2>1 DEF CodesOf
<1>9. new \in Taken /\ new.conv = c /\ new.shown = clicked /\ new.quote = Latest /\ new.codes = T
  <2> HIDE DEF T
  <2> QED BY <1>1, <1>6 DEF Taken, TalkInv, TalkTypes
<1>10. taken' = Append(taken, new)
  OBVIOUS
<1> HIDE DEF row, new, T
<1>11. /\ convs' \in Seq(Talk) /\ Len(convs') = Len(convs) /\ convs'[c] = row
       /\ \A d \in 1 .. Len(convs) : d # c => convs'[d] = convs[d]
  BY <1>1, <1>3, <1>4
<1>12. /\ taken' \in Seq(Taken) /\ Len(taken') = Len(taken) + 1 /\ Len(taken) \in Nat
       /\ DOMAIN taken = 1 .. Len(taken) /\ DOMAIN taken' = 1 .. Len(taken) + 1
       /\ taken'[Len(taken) + 1] = new /\ \A i \in 1 .. Len(taken) : taken'[i] = taken[i]
  BY <1>1, <1>9, <1>10, AppendProperties
<1>12a. \A i \in DOMAIN taken' : (i = Len(taken) + 1 /\ taken'[i] = new) \/ (i \in 1 .. Len(taken) /\ taken'[i] = taken[i])
  BY <1>12
<1>13. /\ chat' \in Window /\ chat'.conv = c /\ chat'.draft = chat.draft /\ ~chat'.approving
  BY DEF TalkInv, TalkTypes, Window, Statuses
<1>14. \A d \in 1 .. Len(convs) : convs'[d].draft = convs[d].draft /\ convs'[d].asks = convs[d].asks
  BY <1>3, <1>11
<1>15. TalkTypes'
  BY <1>1, <1>11, <1>12, <1>13, <1>14 DEF TalkInv, TalkTypes, sight
<1>16. LastAsked'
  BY <1>3, <1>11, <1>14 DEF TalkInv, LastAsked, ConvergedOnLastMessage, TalkTypes
<1>17. WindowHears'
  BY <1>1, <1>13, <1>14 DEF TalkInv, WindowHears
<1>18. \A i \in 1 .. Len(taken) : taken[i].conv \in 1 .. Len(convs) /\ taken[i].conv # c
  BY <1>2, <1>12 DEF TalkInv, TakenOnce, ArchivedIsClosed
<1>19. ClickStands'
  <2>1. c \notin blind \cup unheard => clicked = convs[c].draft
    BY DEF TalkInv, ClickStands
  <2>2. \A i \in 1 .. Len(taken) + 1 :
          taken'[i].conv \notin blind \cup unheard => taken'[i].shown = convs'[taken'[i].conv].draft
    BY <1>1, <1>9, <1>12, <1>14, <1>18, <2>1 DEF TalkInv, ClickStands, ApprovedAsShown
  <2> QED BY <1>12, <1>13, <2>2 DEF ClickStands, ApprovedAsShown, sight
<1>20. TakenOnce'
  <2>1. \A i \in DOMAIN taken' : /\ taken'[i].conv \in 1 .. Len(convs)
                                 /\ Cardinality(taken'[i].codes) >= convs'[taken'[i].conv].draft.size
    <3>1. Cardinality(new.codes) >= convs'[new.conv].draft.size /\ new.conv \in 1 .. Len(convs)
      BY <1>1, <1>5, <1>6, <1>9, <1>14
    <3>2. ASSUME NEW i \in 1 .. Len(taken)
          PROVE  /\ taken[i].conv \in 1 .. Len(convs)
                 /\ Cardinality(taken[i].codes) >= convs'[taken[i].conv].draft.size
      BY <1>12, <1>14, <1>18 DEF TalkInv, TakenOnce
    <3> QED BY <1>12a, <3>1, <3>2
  <2>2. \A i, j \in DOMAIN taken' : taken'[i].conv = taken'[j].conv => i = j
    BY <1>9, <1>12, <1>18 DEF TalkInv, TakenOnce, ArchivedIsClosed
  <2>3. \A d \in 1 .. Len(convs) : convs'[d].status = "archived" <=> \E i \in DOMAIN taken' : taken'[i].conv = d
    <3> SUFFICES ASSUME NEW d \in 1 .. Len(convs)
                 PROVE  convs'[d].status = "archived" <=> \E i \in DOMAIN taken' : taken'[i].conv = d
      OBVIOUS
    <3>1. CASE d = c
      BY <1>3, <1>9, <1>11, <1>12, <3>1
    <3>2. CASE d # c
      <4>1. convs[d].status = "archived" <=> \E i \in 1 .. Len(taken) : taken[i].conv = d
        BY <1>12 DEF TalkInv, TakenOnce, ArchivedIsClosed
      <4>2. \A i \in 1 .. Len(taken) : i \in DOMAIN taken' /\ taken'[i] = taken[i]
        BY <1>12
      <4>3. (\E i \in DOMAIN taken' : taken'[i].conv = d) <=> \E i \in 1 .. Len(taken) : taken[i].conv = d
        BY <1>9, <1>12a, <3>2, <4>2
      <4>4. convs'[d] = convs[d]
        BY <1>11, <3>2
      <4> QED BY <4>1, <4>3, <4>4
    <3> QED BY <3>1, <3>2
  <2>4. ArchivedIsClosed'
    <3>1. \A d \in 1 .. Len(convs') :
              convs'[d].status = "archived" <=> \E i \in DOMAIN taken' : taken'[i].conv = d
      BY <1>11, <2>3
    <3> QED BY <2>2, <3>1 DEF ArchivedIsClosed
  <2>5. \A i \in DOMAIN taken' : /\ taken'[i].conv \in 1 .. Len(convs')
                                 /\ Cardinality(taken'[i].codes) >= convs'[taken'[i].conv].draft.size
    BY <1>11, <2>1
  <2> QED BY <2>4, <2>5 DEF TakenOnce
<1>21. TakenStories'
  <2> DEFINE after(v) == {s.code : s \in {r \in stories' : r.quote = v}}
  <2>1. T \subseteq after(Latest) \cap tasked'
    BY <1>8 DEF CodesOf
  <2>2. ASSUME NEW i \in 1 .. Len(taken) PROVE taken[i].codes \subseteq after(taken[i].quote) \cap tasked'
    BY <1>7, <1>12 DEF TakenStories, CodesOf
  <2> HIDE DEF after
  <2>3. \A i \in DOMAIN taken' : taken'[i].codes \subseteq after(taken'[i].quote) \cap tasked'
    BY <1>12a, <1>9, <2>1, <2>2
  <2> QED BY <2>3 DEF TakenStories, CodesOf, after
<1> QED BY <1>7, <1>15, <1>16, <1>17, <1>19, <1>20, <1>21 DEF TalkInv

LEMMA MaterializeStep ==
  ASSUME TalkInv, StoryInv, TakenStories, Latest \in Nat \ {0}, Materialize
  PROVE  TalkInv' /\ StoryInv' /\ TakenStories'
<1> DEFINE c == chat.conv
           codes == Fresh(c, Latest)
<1>1. /\ chat.approving /\ Approvable(c) /\ UNCHANGED <<turns, crossed, unheard, sight, quotes>>
      /\ Latest' = Latest
  BY LatestStays DEF Materialize, pricing
<1>2. CASE /\ Room(codes) = Len(codes)
           /\ Commit(codes, Len(codes), Len(codes), Latest)
           /\ convs' = [convs EXCEPT ![c].status = "archived"]
           /\ taken' = Append(taken, [conv |-> c, shown |-> clicked, quote |-> Latest,
                                      codes |-> {codes[i] : i \in DOMAIN codes}])
           /\ chat' = [chat EXCEPT !.approving = FALSE, !.status = "archived"]
           /\ UNCHANGED halved
  <2> HIDE DEF c, codes
  <2>1. c = chat.conv /\ codes = Fresh(c, Latest)
    BY DEF c, codes
  <2> QED BY <1>1, <1>2, <2>1, MaterializedStep
<1>3. CASE /\ Room(codes) < Len(codes)
           /\ Commit(codes, Room(codes), Room(codes), Latest)
           /\ chat' = [chat EXCEPT !.approving = FALSE]
           /\ halved' = TRUE
           /\ UNCHANGED <<convs, taken>>
  <2>1. /\ chat' \in Window /\ chat'.conv = chat.conv /\ chat'.draft = chat.draft /\ ~chat'.approving
    BY <1>3 DEF TalkInv, TalkTypes, Window
  <2>2. TalkInv'
    BY <1>1, <1>3, <2>1, QuietStep
  <2>3. c \in 1 .. Len(convs) /\ convs \in Seq(Talk)
    BY <1>1 DEF TalkInv, TalkTypes, Window
  <2>4. codes \in Seq(StoryCodes) /\ Distinct(codes)
    BY <2>3, FreshDistinct
  <2> HIDE DEF codes
  <2>5. Room(codes) \in 0 .. Room(codes) /\ Latest \in 1 .. Latest
    BY <2>4, RoomIsNew
  <2>6. StoryInv' /\ stories \subseteq stories' /\ tasked \subseteq tasked'
    BY <1>1, <1>3, <2>4, <2>5, Committed
  <2> QED BY <1>3, <2>2, <2>6, StoriesGrow
<1> QED BY <1>2, <1>3 DEF Materialize

LEMMA CutStep ==
  ASSUME TalkInv, StoryInv, TakenStories, Latest \in Nat \ {0}, CutMaterialize
  PROVE  TalkInv' /\ StoryInv' /\ TakenStories'
<1> DEFINE c == chat.conv
           codes == Fresh(c, Latest)
<1>1. /\ chat.approving /\ turns' = {} /\ halved' = TRUE /\ Latest' = Latest
      /\ UNCHANGED <<convs, crossed, unheard, sight, taken>>
      /\ chat' = [chat EXCEPT !.approving = FALSE, !.sending = FALSE]
  BY LatestStays DEF CutMaterialize, DieInHandler
<1>2. PICK n \in 0 .. Room(codes), t \in {0, 1} : t <= n /\ Commit(codes, n, n - t, Latest)
  BY DEF CutMaterialize
<1>3. /\ chat' \in Window /\ chat'.conv = chat.conv /\ chat'.draft = chat.draft /\ ~chat'.approving
  BY <1>1 DEF TalkInv, TalkTypes, Window
<1>4. TalkInv'
  BY <1>1, <1>3, QuietStep
<1>5. c \in 1 .. Len(convs) /\ convs \in Seq(Talk)
  BY <1>1 DEF TalkInv, TalkTypes, Window
<1>6. codes \in Seq(StoryCodes) /\ Distinct(codes)
  BY <1>5, FreshDistinct
<1> HIDE DEF codes
<1>7. n - t \in 0 .. n /\ Latest \in 1 .. Latest
  BY <1>2
<1>8. StoryInv' /\ stories \subseteq stories' /\ tasked \subseteq tasked'
  BY <1>1, <1>2, <1>6, <1>7, Committed
<1> QED BY <1>1, <1>4, <1>8, StoriesGrow

LEMMA KitStep ==
  ASSUME TalkInv, StoryInv, TakenStories, Latest \in Nat \ {0}, Latest' = Latest, InstantiateKit \/ CutKit
  PROVE  TalkInv' /\ StoryInv' /\ TakenStories'
<1> DEFINE codes == KitCodes(Latest)
<1>1. codes \in Seq({codes[i] : i \in 1 .. KitSize}) /\ Len(codes) = KitSize /\ Distinct(codes)
  BY KitCodesDistinct
<1>2. PICK n \in 0 .. Room(codes) : Commit(codes, n, 0, Latest)
  <2>1. KitSize \in Nat /\ Room(codes) \in 0 .. KitSize
    BY <1>1, RoomIsNew, ScopeBounds
  <2>2. CASE InstantiateKit
    <3>1. \/ Commit(codes, KitSize, 0, Latest) /\ Room(codes) = KitSize
          \/ Commit(codes, Room(codes), 0, Latest)
      BY <2>2 DEF InstantiateKit
    <3> HIDE DEF codes
    <3> QED BY <2>1, <3>1
  <2>3. CASE CutKit
    BY <2>3 DEF CutKit
  <2> QED BY <2>2, <2>3
<1>3. /\ UNCHANGED <<convs, crossed, unheard, sight, taken>> /\ turns' \subseteq turns
      /\ halved' \in {halved, TRUE} /\ chat' \in {chat, [chat EXCEPT !.sending = FALSE, !.approving = FALSE]}
  BY DEF InstantiateKit, CutKit, DieInHandler, talk
<1>4. /\ chat' \in Window /\ chat'.conv = chat.conv /\ chat'.draft = chat.draft /\ (chat'.approving => chat.approving)
      /\ halved' \in BOOLEAN
  BY <1>3 DEF TalkInv, TalkTypes, Window
<1>5. TalkInv'
  BY <1>3, <1>4, QuietStep
<1> HIDE DEF codes
<1>6. 0 \in 0 .. n /\ Latest \in 1 .. Latest
  <2>1. n \in Nat
    BY <1>2
  <2> QED BY <2>1
<1>7. StoryInv' /\ stories \subseteq stories' /\ tasked \subseteq tasked'
  BY <1>1, <1>2, <1>6, Committed
<1> QED BY <1>3, <1>5, <1>7, StoriesGrow

LEMMA ByHandStep ==
  ASSUME TalkInv, StoryInv, TakenStories, Latest' = Latest,
         \E code, v : CreateStory(code, v) \/ CreateTask(code)
  PROVE  TalkInv' /\ StoryInv' /\ TakenStories'
<1>1. UNCHANGED <<convs, turns, crossed, unheard, sight, taken, chat, halved>>
  BY DEF CreateStory, CreateTask, talk
<1>2. TalkInv'
  BY <1>1, QuietStep DEF TalkInv, TalkTypes
<1>3. stories \subseteq stories' /\ tasked \subseteq tasked' /\ StoryInv'
  BY DEF CreateStory, CreateTask, StoryInv, CodesNameOneStory, Exists
<1> QED BY <1>1, <1>2, <1>3, StoriesGrow

ScopeInv == IInv /\ TalkInv /\ StoryInv /\ TakenStories

LEMMA ScopeInitInv == QuoteInit /\ ScopeInit => ScopeInv
<1> SUFFICES ASSUME QuoteInit, ScopeInit PROVE ScopeInv
  OBVIOUS
<1>1. TalkTypes
  <2>1. convs = <<>> /\ turns = {} /\ chat = NoView /\ clicked = NoDraft /\ taken = <<>> /\ halved = FALSE
    BY DEF ScopeInit
  <2>2. NoDraft \in Drafts
    BY DEF NoDraft, Drafts
  <2>3. NoView \in Window /\ NoView.conv = 0 /\ NoView.draft = NoDraft /\ ~NoView.approving
    BY <2>2 DEF NoView, Window
  <2>4. convs \in Seq(Talk) /\ Len(convs) = 0 /\ taken \in Seq(Taken)
    BY <2>1
  <2>5. halved \in BOOLEAN
    BY <2>1
  <2>6. (\A c \in 1 .. Len(convs) : convs[c].draft.of <= convs[c].asks) /\ chat.conv <= Len(convs)
    BY <2>1, <2>3, <2>4
  <2>7. clicked \in Drafts /\ chat \in Window /\ (chat.conv = 0 => chat.draft = NoDraft /\ ~chat.approving)
    BY <2>1, <2>2, <2>3
  <2>8. /\ turns \subseteq [conv : Nat, ask : Nat, heard : BOOLEAN]
        /\ \A t \in turns : t.conv \in 1 .. Len(convs) /\ t.ask \in 1 .. convs[t.conv].asks
    BY <2>1
  <2> QED BY <2>4, <2>5, <2>6, <2>7, <2>8 DEF TalkTypes
<1>2. LastAsked /\ WindowHears /\ ClickStands /\ TakenOnce
  BY DEF ScopeInit, LastAsked, WindowHears, ClickStands, TakenOnce, ArchivedIsClosed, ApprovedAsShown,
     ConvergedOnLastMessage, NoView
<1>3. StoryInv /\ TakenStories
  BY DEF ScopeInit, StoryInv, TakenStories, CodesNameOneStory
<1> QED BY <1>1, <1>2, <1>3, InitInv DEF ScopeInv, TalkInv

LEMMA ScopeStepInv == ScopeInv /\ [ScopeNext]_<<quoteVars, scopeVars>> => ScopeInv'
<1> SUFFICES ASSUME ScopeInv, [ScopeNext]_<<quoteVars, scopeVars>> PROVE ScopeInv'
  OBVIOUS
<1>1. TalkInv /\ StoryInv /\ TakenStories /\ IInv'
  BY ScopeKeepsQuote DEF ScopeInv
<1>2. Latest \in Nat \ {0} /\ Latest' \in Nat /\ Latest <= Latest'
  BY LatestGrows DEF ScopeInv
<1>3. CASE UNCHANGED scopeVars
  <2>1. UNCHANGED <<convs, turns, crossed, unheard, sight, taken, chat, halved, stories, tasked>>
    BY <1>3 DEF scopeVars
  <2>2. TalkInv'
    BY <1>1, <2>1, QuietStep DEF TalkInv, TalkTypes
  <2> QED BY <1>1, <1>2, <2>1, <2>2, StoriesStay DEF ScopeInv
<1>4. CASE KitNext
  <2>1. Latest' = Latest
    <3>1. CASE UNCHANGED quotes
      BY <3>1, LatestStays
    <3>2. CASE Recompute(items, Latest)
      <4>1. Latest \in 1 .. Latest /\ items \in [Items -> ItemRecord] /\ DealTypes
        BY <1>2 DEF ScopeInv, IInv, RowTypes
      <4> QED BY <3>2, <4>1, Recomputed
    <3> QED BY <1>4, <3>1, <3>2 DEF KitNext, CreateTask, InstantiateKit, CutKit, pricing
  <2> QED BY <1>1, <1>2, <1>4, <2>1, KitStep, ByHandStep DEF KitNext, ScopeInv
<1>5. CASE TalkNext
  <2>1. Latest' = Latest
    <3>1. UNCHANGED quotes
      BY <1>5 DEF TalkNext, CreateStory, Mount, Send, SendRefused, Propose, Reply, TurnFails,
         RequestAdjustments, ClickApprove, Materialize, ApproveRefused, CutMaterialize, pricing
    <3> QED BY <3>1, LatestStays
  <2>2. ASSUME UNCHANGED <<stories, tasked, taken>> PROVE StoryInv' /\ TakenStories'
    BY <1>1, <1>2, <2>2, StoriesStay
  <2>3. CASE Mount \/ Send \/ ClickApprove
    <3>1. UNCHANGED <<stories, tasked, taken>>
      BY <2>3 DEF Mount, Send, ClickApprove
    <3> QED BY <1>1, <2>2, <2>3, <3>1, MountStep, SendStep, ClickStep DEF ScopeInv
  <2>4. CASE \E t \in turns, size \in Proposals : Propose(t, size)
    <3>1. UNCHANGED <<stories, tasked, taken>>
      BY <2>4 DEF Propose
    <3> QED BY <1>1, <2>2, <2>4, <3>1, ProposeStep DEF ScopeInv
  <2>5. CASE SendRefused \/ RequestAdjustments \/ ApproveRefused \/ \E t \in turns : Reply(t) \/ TurnFails(t)
    <3>1. UNCHANGED <<stories, tasked, taken>>
      BY <2>5 DEF SendRefused, RequestAdjustments, ApproveRefused, Reply, TurnFails
    <3> QED BY <1>1, <2>2, <2>5, <3>1, WindowStep DEF ScopeInv
  <2>6. CASE Materialize \/ CutMaterialize
    BY <1>1, <1>2, <2>6, MaterializeStep, CutStep DEF ScopeInv
  <2>7. CASE \E code, v : CreateStory(code, v)
    BY <1>1, <2>1, <2>7, ByHandStep DEF ScopeInv
  <2> QED BY <1>5, <2>3, <2>4, <2>5, <2>6, <2>7 DEF TalkNext
<1> QED BY <1>3, <1>4, <1>5 DEF ScopeNext

LEMMA ScopeInvariant == ScopeSpec => []ScopeInv
BY ScopeInitInv, ScopeStepInv, PTL DEF ScopeSpec

(* Kits and conversations leave the quote in order: its versions, its      *)
(* phases and its totals.                                                  *)
THEOREM QuoteUnderStories == ScopeSpec => [](QuotesInOrder /\ TotalsFollowItems)
<1>1. ScopeInv => QuotesInOrder /\ TotalsFollowItems
  BY DEF ScopeInv, IInv, QuotesInOrder
<1> QED BY <1>1, ScopeInvariant, PTL

(* For any number of conversations, messages, kits and crashes: what an    *)
(* approval leaves is the draft that was clicked, whole, under codes that  *)
(* no other story of the database has.                                     *)
THEOREM MaterializedAsApprovedHolds == ScopeSpec => []MaterializedAsApproved
<1>1. ScopeInv => MaterializedAsApproved
  BY DEF ScopeInv, TalkInv, StoryInv, TakenStories, TakenOnce, ClickStands, MaterializedAsApproved, MaterializedWhole
<1> QED BY <1>1, ScopeInvariant, PTL

(* A conversation converges on its last message and is closed by its one   *)
(* approval, however turns overlap and whenever they answer.               *)
THEOREM ConversationStaysInOrder == ScopeSpec => ConversationInOrder
<1>1. ASSUME ScopeInv PROVE ScopeTypeOK /\ ConvergedOnLastMessage /\ ArchivedIsClosed
  <2>1. \A c \in 1 .. Len(convs) : /\ convs[c].status \in {"active", "converged", "archived"}
                                   /\ convs[c].draft.of \in 0 .. convs[c].asks
                                   /\ convs[c].draft.size \in Proposals \cup {0}
    BY <1>1, ConvType DEF ScopeInv, TalkInv, Statuses, Drafts
  <2>2. chat.conv \in 0 .. Len(convs)
    BY <1>1 DEF ScopeInv, TalkInv, TalkTypes, Window
  <2> QED BY <1>1, <2>1, <2>2 DEF ScopeInv, TalkInv, TalkTypes, StoryInv, LastAsked, TakenOnce, ScopeTypeOK
<1>2. ASSUME ScopeInv, [ScopeNext]_<<quoteVars, scopeVars>>, NEW c \in 1 .. Len(convs), ~Open(c)
      PROVE  convs'[c] = convs[c]
  <2>1. convs \in Seq(Talk)
    BY <1>2 DEF ScopeInv, TalkInv, TalkTypes
  <2>2. CASE UNCHANGED convs
    BY <2>2
  <2>3. CASE \E row : convs' = Append(convs, row)
    BY <2>1, <2>3
  <2>4. CASE \E d, row : Open(d) /\ convs' = [convs EXCEPT ![d] = row]
    BY <1>2, <2>1, <2>4
  <2>5. CASE Mount
    BY <2>2, <2>3, <2>5 DEF Mount
  <2>6. CASE Send
    <3>1. Open(chat.conv) /\ \E row : convs' = [convs EXCEPT ![chat.conv] = row]
      BY <2>6, Zenon DEF Send
    <3> QED BY <2>4, <3>1
  <2>7. ASSUME NEW t \in turns, NEW size, Propose(t, size) PROVE convs'[c] = convs[c]
    <3>1. Open(t.conv) => \E row : convs' = [convs EXCEPT ![t.conv] = row]
      BY <2>7, Zenon DEF Propose
    <3>2. ~Open(t.conv) => convs' = convs
      BY <2>7 DEF Propose
    <3> QED BY <2>4, <3>1, <3>2
  <2>8. CASE Materialize
    <3>1. Open(chat.conv)
      BY <1>2, <2>8 DEF Materialize, Approvable, Open, ScopeInv, TalkInv, TalkTypes, Window
    <3>2. UNCHANGED convs \/ \E row : convs' = [convs EXCEPT ![chat.conv] = row]
      BY <2>8, Zenon DEF Materialize
    <3> QED BY <2>2, <2>4, <3>1, <3>2
  <2>9. UNCHANGED convs \/ Mount \/ Send \/ Materialize \/ \E t \in turns, size \in Proposals : Propose(t, size)
    BY <1>2 DEF ScopeNext, KitNext, CreateTask, InstantiateKit, CutKit, TalkNext, CreateStory, SendRefused, Reply,
       TurnFails, RequestAdjustments, ClickApprove, ApproveRefused, CutMaterialize, talk, scopeVars
  <2> QED BY <2>2, <2>5, <2>6, <2>7, <2>8, <2>9
<1>3. ScopeInv /\ [ScopeNext]_<<quoteVars, scopeVars>> =>
        [\A c \in 1 .. Len(convs) : ~Open(c) => convs'[c] = convs[c]]_<<quoteVars, scopeVars>>
  BY <1>2
<1> QED BY <1>1, <1>3, ScopeInvariant, PTL DEF ScopeSpec, ConversationInOrder, DraftFrozen
====
