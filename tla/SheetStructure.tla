--------------------------- MODULE SheetStructure ---------------------------
(***************************************************************************)
(* The structure of one worksheet along one axis (rows; columns run the    *)
(* same code with r and c exchanged), as one client edits it.              *)
(*                                                                         *)
(* Cells and comment threads are keyed by stable row ids, everything else  *)
(* by visual index, so an insert, delete or move rewrites each kind of     *)
(* metadata with a function of its own (module AxisShift).  An action is   *)
(* one call of the Sheet engine together with the Yorkie transaction it    *)
(* runs.  Cells are those of one column; a merged block is an interval of  *)
(* rows of that column.                                                    *)
(***************************************************************************)
EXTENDS AxisShift, FiniteSets

CONSTANTS
    RowId,        \* ids createWorksheetAxisId can return
    Values,       \* plain cell contents
    Heights,      \* custom row heights
    ThreadIds,    \* comment threads that may be opened
    NoChart,      \* the sheet holds no chart
    MaxRows,      \* bound: visual rows in use
    MaxCells,     \* bound: cells holding data
    MaxFormulas,  \* bound: of those, formulas
    MaxHeights,   \* bound: rows with a custom height
    MaxHidden,    \* bound: rows hidden by the user
    MaxMerges,    \* bound: merged blocks created by the user
    MaxRules,     \* bound: ranges of conditional-format rules
    MaxFrozen,    \* bound: frozen rows set by the user
    WithChart     \* whether the user may insert a chart

ASSUME MaxRowsAssumption == MaxRows \in Nat \ {0}
ASSUME MaxFrozenAssumption == MaxFrozen \in 0 .. MaxRows

Indices == 1 .. MaxRows
Ranges == {r \in [from : Indices, to : Indices] : r.from <= r.to}
References == [from : Indices, to : Indices] \cup {GoneRange}
Contents == Values \cup References
\* A cell holds a value or a formula.
ASSUME ValuesAssumption == Values \cap References = {}
Charts == [anchor : Indices, source : Ranges]

VARIABLES
    order,        \* rowOrder: list of row ids, shorter than the visual sheet
    cells,        \* cells: row id -> content
    heights,      \* rowHeights: index -> height
    hidden,       \* Sheet.userHiddenRows, the engine's cached set of indices
    savedHidden,  \* hiddenRows in the document
    merges,       \* merges: intervals of rows, at most one per anchor
    rules,        \* ranges of the conditional-format / data-validation rules
    chart,        \* a chart over this sheet, or NoChart
    frozen,       \* frozenRows
    threads       \* comments: thread id -> row id of its anchor

vars == <<order, cells, heights, hidden, savedHidden, merges, rules, chart,
          frozen, threads>>

-----------------------------------------------------------------------------
Position(s, id) == CHOOSE i \in DOMAIN s : s[i] = id

\* createWorksheetAxisId, k times: different ids, none of them in the order.  Ids
\* are only compared for equality, so one choice stands for all of them.
FreshIds(k) ==
    {t \in [1 .. k -> RowId \ RowsOf(order)] :
        \A i, j \in 1 .. k : t[i] = t[j] => i = j}
NewIds(k) ==
    IF \E t \in FreshIds(k) : TRUE THEN {CHOOSE t \in FreshIds(k) : TRUE} ELSE {}

\* ensureAxisLength: how many ids are missing to reach length len.
Missing(len) == MaxOf(0, len - Len(order))

Drop(f, S) == [x \in DOMAIN f \ S |-> f[x]]
Put(f, x, y) == [z \in DOMAIN f \cup {x} |-> IF z = x THEN y ELSE f[z]]

FormulaIds == {id \in DOMAIN cells : cells[id] \in References}

\* rewriteFormulaCells: every stored formula of a row of the order.
RewriteFormulas(f, ord, Rewrite(_)) ==
    [id \in DOMAIN f |->
        IF f[id] \in References \ {GoneRange} /\ id \in RowsOf(ord)
        THEN Rewrite(f[id]) ELSE f[id]]

\* A map keyed by the anchor holds one block per anchor.
OnePerAnchor(M) ==
    {S \in SUBSET M :
        /\ {m.from : m \in S} = {m.from : m \in M}
        /\ \A a, b \in S : a.from = b.from => a = b}

Meets(a, b) == a.from <= b.to /\ b.from <= a.to
Covers(m, i) == m.from <= i /\ i <= m.to

\* getAnchorSrefForRef: a merge's own anchor first, else a block covering i.
AnchorsOf(i) ==
    IF \E m \in merges : m.from = i THEN {i}
    ELSE IF \E m \in merges : Covers(m, i)
         THEN {m.from : m \in {b \in merges : Covers(b, i)}}
    ELSE {i}

\* Indices some index-keyed metadata names.
RangeEnds(S) == {r.from : r \in S} \cup {r.to : r \in S}
Used ==
    (1 .. Len(order)) \cup DOMAIN heights \cup hidden \cup RangeEnds(merges)
      \cup RangeEnds(rules) \cup {frozen}
      \cup RangeEnds({cells[id] : id \in FormulaIds})
      \cup (IF chart = NoChart THEN {}
            ELSE {chart.anchor, chart.source.from, chart.source.to})

-----------------------------------------------------------------------------
Init ==
    /\ order = <<>>
    /\ cells = <<>> /\ heights = <<>> /\ threads = <<>>
    /\ hidden = {} /\ savedHidden = {}
    /\ merges = {} /\ rules = {}
    /\ chart = NoChart
    /\ frozen = 0

(* Sheet.setData: the edit goes to the anchor of the merged block, and     *)
(* writeWorksheetCell grows the order up to the row it writes.             *)
SetCell(i, content) ==
    \E at \in AnchorsOf(i) : \E new \in NewIds(Missing(at)) :
        LET id     == (order \o new)[at]
            others == DOMAIN cells \ {id}
        IN  /\ Cardinality(others) < MaxCells
            /\ content \in References => Cardinality(FormulaIds \ {id}) < MaxFormulas
            /\ order' = order \o new
            /\ cells' = Put(cells, id, content)
            /\ UNCHANGED <<heights, hidden, savedHidden, merges, rules, chart,
                           frozen, threads>>

\* Clearing a cell deletes it if it is stored, and grows nothing.
ClearCell(i) ==
    \E at \in AnchorsOf(i) :
        /\ at <= Len(order) /\ order[at] \in DOMAIN cells
        /\ cells' = Drop(cells, {order[at]})
        /\ UNCHANGED <<order, heights, hidden, savedHidden, merges, rules, chart,
                       frozen, threads>>

SetRowHeight(i, h) ==
    /\ Cardinality(DOMAIN heights \cup {i}) <= MaxHeights
    /\ heights' = Put(heights, i, h)
    /\ UNCHANGED <<order, cells, hidden, savedHidden, merges, rules, chart, frozen,
                   threads>>

\* hideRows and showRows persist the whole set.
HideRow(i) ==
    /\ Cardinality(hidden \cup {i}) <= MaxHidden
    /\ hidden' = hidden \cup {i}
    /\ savedHidden' = hidden'
    /\ UNCHANGED <<order, cells, heights, merges, rules, chart, frozen, threads>>

ShowRow(i) ==
    /\ i \in hidden
    /\ hidden' = hidden \ {i}
    /\ savedHidden' = hidden'
    /\ UNCHANGED <<order, cells, heights, merges, rules, chart, frozen, threads>>

\* A remote change, an undo or a redo reloads the cached state from the document.
Reload ==
    /\ hidden' = savedHidden
    /\ UNCHANGED <<order, cells, heights, savedHidden, merges, rules, chart, frozen,
                   threads>>

CrossesFrozen(m) == m.from <= frozen /\ m.to > frozen

\* mergeSelection: the covered cells lose their data.
MergeRows(m) ==
    /\ m.from < m.to
    /\ ~CrossesFrozen(m)
    /\ \A b \in merges : ~Meets(m, b)
    /\ Cardinality(merges) < MaxMerges
    /\ merges' = merges \cup {m}
    /\ cells' = Drop(cells, {order[i] : i \in ((m.from + 1) .. m.to) \cap DOMAIN order})
    /\ UNCHANGED <<order, heights, hidden, savedHidden, rules, chart, frozen, threads>>

\* unmergeSelection takes apart every block that meets the selection.
UnmergeRows(selection) ==
    /\ \E b \in merges : Meets(selection, b)
    /\ merges' = {b \in merges : ~Meets(selection, b)}
    /\ UNCHANGED <<order, cells, heights, hidden, savedHidden, rules, chart, frozen,
                   threads>>

AddRule(r) ==
    /\ Cardinality(rules \cup {r}) <= MaxRules
    /\ rules' = rules \cup {r}
    /\ UNCHANGED <<order, cells, heights, hidden, savedHidden, merges, chart, frozen,
                   threads>>

\* A chart is inserted over a selection of at least two rows; dragging it or
\* editing it then sets its anchor and its source freely.
InsertChart(r) ==
    /\ WithChart
    /\ chart = NoChart
    /\ r.from < r.to
    /\ chart' = [anchor |-> r.from, source |-> r]
    /\ UNCHANGED <<order, cells, heights, hidden, savedHidden, merges, rules, frozen,
                   threads>>

UpdateChart(c) ==
    /\ chart # NoChart
    /\ chart' = c
    /\ UNCHANGED <<order, cells, heights, hidden, savedHidden, merges, rules, frozen,
                   threads>>

SetFreezePane(k) ==
    /\ k <= MaxFrozen
    /\ frozen' = k
    /\ UNCHANGED <<order, cells, heights, hidden, savedHidden, merges, rules, chart,
                   threads>>

\* The composer first grows the order over the active cell (ensureAxisOrder).
AddThread(t, i) ==
    \E new \in NewIds(Missing(i)) :
        /\ t \notin DOMAIN threads
        /\ order' = order \o new
        /\ threads' = Put(threads, t, (order \o new)[i])
        /\ UNCHANGED <<cells, heights, hidden, savedHidden, merges, rules, chart, frozen>>

-----------------------------------------------------------------------------
(* Sheet.shiftCells after the order has changed: every kind of metadata.   *)
ShiftMetadata(index, count) ==
    /\ heights' = ShiftDimensionMap(heights, index, count)
    /\ hidden' = ShiftIndexSet(hidden, index, count)
    /\ merges' \in OnePerAnchor(ShiftMergeMap(merges, index, count))
    /\ rules' = {ShiftRuleRange(r, index, count) : r \in rules}
    /\ chart' = IF chart = NoChart THEN NoChart
                ELSE LET at  == ShiftIndex(chart.anchor, index, count)
                         src == ShiftA1Range(chart.source, index, count)
                     IN  [anchor |-> IF at = Gone THEN MaxOf(1, index) ELSE at,
                          source |-> IF src = GoneRange THEN chart.source ELSE src]
    /\ frozen' = ShiftFrozen(frozen, index, count)
    /\ UNCHANGED savedHidden

ShiftFormulas(f, ord, index, count) ==
    LET Rewrite(ref) == ShiftReference(ref, index, count)
    IN  RewriteFormulas(f, ord, Rewrite)

InsertRows(index, n) ==
    /\ \A u \in Used : u + n <= MaxRows
    /\ index + n <= MaxRows + 1
    /\ \E new \in NewIds(Missing(index - 1) + n) :
          LET pad  == SubSeq(new, 1, Missing(index - 1))
              made == SubSeq(new, Missing(index - 1) + 1, Len(new))
          IN  order' = PutBefore(order \o pad, index, made)
    /\ cells' = ShiftFormulas(cells, order', index, n)
    /\ ShiftMetadata(index, n)
    /\ UNCHANGED threads

(* Mutant: threads of the rows that stay are removed. *)
AnchoredElsewhere(removed) == {t \in DOMAIN threads : threads[t] \notin removed}
\* deleteThreadsForAxis: the threads whose anchor row is removed.
Anchored(removed) == {t \in DOMAIN threads : threads[t] \in removed}

DeleteRows(index, n) ==
    LET removed == RowsOf(Taken(order, index, n))
    IN  /\ index + n <= MaxRows + 1
        /\ order' = Without(order, index, n)
        /\ cells' = ShiftFormulas(Drop(cells, removed), order', index, -n)
        /\ ShiftMetadata(index, -n)
        /\ threads' = Drop(threads, Anchored(removed))

MoveFormulas(f, ord, src, n, dst) ==
    LET Rewrite(ref) == MoveReference(ref, src, n, dst)
    IN  RewriteFormulas(f, ord, Rewrite)

\* Sheet.moveCells: refused in place and where it would split a merged block.
MoveRows(src, n, dst) ==
    /\ src + n <= MaxRows + 1
    /\ dst \notin src .. (src + n)
    /\ \A m \in merges : ~IsMergeSplitByMove(m, src, n)
    /\ \E new \in NewIds(Missing(MaxOf(src + n - 1, dst - 1))) :
          order' = MoveOrder(order \o new, src, n, dst)
    /\ cells' = MoveFormulas(cells, order', src, n, dst)
    /\ heights' = MoveDimensionMap(heights, src, n, dst)
    /\ hidden' = MoveIndexSet(hidden, src, n, dst)
    /\ merges' \in OnePerAnchor(MoveMergeMap(merges, src, n, dst))
    /\ rules' = {MoveHull(r, src, n, dst) : r \in rules}
    /\ chart' = IF chart = NoChart THEN NoChart
                ELSE [anchor |-> RemapIndex(chart.anchor, src, n, dst),
                      source |-> MoveHull(chart.source, src, n, dst)]
    /\ UNCHANGED <<savedHidden, frozen, threads>>

-----------------------------------------------------------------------------
Edit ==
    \/ \E i \in Indices, c \in Values \cup [from : Indices, to : Indices] : SetCell(i, c)
    \/ \E i \in Indices : ClearCell(i)
    \/ \E i \in Indices, h \in Heights : SetRowHeight(i, h)
    \/ \E i \in Indices : HideRow(i)
    \/ \E i \in Indices : ShowRow(i)
    \/ Reload
    \/ \E m \in Ranges : MergeRows(m)
    \/ \E r \in Ranges : UnmergeRows(r)
    \/ \E r \in Ranges : AddRule(r)
    \/ \E r \in Ranges : InsertChart(r)
    \/ \E c \in Charts : UpdateChart(c)
    \/ \E k \in 0 .. MaxFrozen : SetFreezePane(k)
    \/ \E t \in ThreadIds, i \in Indices : AddThread(t, i)

Shift ==
    \/ \E index, n \in Indices : InsertRows(index, n)
    \/ \E index, n \in Indices : DeleteRows(index, n)

Move == \E src, n \in Indices, dst \in 1 .. (MaxRows + 1) : MoveRows(src, n, dst)

Next == Edit \/ Shift \/ Move

Spec == Init /\ [][Next]_vars

-----------------------------------------------------------------------------
(* Properties.                                                             *)

OrderOK ==
    order \in Seq(RowId) /\ Len(order) <= MaxRows /\ Distinct(order)
CellsOK == DOMAIN cells \subseteq RowId /\ \A id \in DOMAIN cells : cells[id] \in Contents
HeightsOK ==
    DOMAIN heights \subseteq Indices /\ \A i \in DOMAIN heights : heights[i] \in Heights
HiddenOK == hidden \subseteq Indices /\ savedHidden \subseteq Indices
RangesOK ==
    merges \subseteq Ranges /\ rules \subseteq Ranges /\ chart \in Charts \cup {NoChart}
FrozenOK == frozen \in 0 .. MaxRows
ThreadsOK ==
    DOMAIN threads \subseteq ThreadIds /\ \A t \in DOMAIN threads : threads[t] \in RowId

\* The state is well formed: the order never names a row twice, ranges are
\* proper intervals inside the window, a formula is a reference or #REF!.
TypeOK ==
    OrderOK /\ CellsOK /\ HeightsOK /\ HiddenOK /\ RangesOK /\ FrozenOK /\ ThreadsOK

\* Nothing is stored under a row id that is not in the order.  An id can be
\* handed out again (createWorksheetAxisId only avoids ids of the order), so
\* data left behind by a delete would come back in an inserted row.
NoOrphans ==
    /\ DOMAIN cells \subseteq RowsOf(order)
    /\ \A t \in DOMAIN threads : threads[t] \in RowsOf(order)

\* A comment thread is removed with its row and with nothing else: every
\* structural edit keeps exactly the threads whose row is still there.
ThreadsLiveWithTheirRow ==
    [][Shift \/ Move =>
          DOMAIN threads' = {t \in DOMAIN threads : threads[t] \in RowsOf(order')}]_vars

\* What the outside sees of a row, and the list of whole rows this implements.
RowAt(i) ==
    [data   |-> IF i \in DOMAIN order /\ order[i] \in DOMAIN cells
                THEN IF cells[order[i]] \in Values THEN cells[order[i]] ELSE "formula"
                ELSE "nothing",
     height |-> IF i \in DOMAIN heights THEN heights[i] ELSE "nothing"]

Rows == INSTANCE RowList WITH
            rows <- [i \in Indices |-> RowAt(i)],
            CellData <- Values \cup {"formula"},
            Nothing <- "nothing"

\* Data keyed by row id and heights keyed by index move as one: every step is
\* a step of a list of whole rows.
ImplementsRowList == Rows!Spec

\* Where a structural step sends the row at index i of the old order.
Survives(i) == order[i] \in RowsOf(order')
NewIndex(i) == Position(order', order[i])

\* After an insert, delete or move a formula still names the rows it named:
\* an endpoint follows its row, and a formula with a deleted endpoint is #REF!.
ReferencesFollowRows ==
    [][(\A id \in FormulaIds \cap DOMAIN cells' :
            LET old == cells[id]
                new == cells'[id]
            IN  old # GoneRange /\ {old.from, old.to} \subseteq DOMAIN order =>
                IF Survives(old.from) /\ Survives(old.to)
                THEN new = [from |-> NewIndex(old.from), to |-> NewIndex(old.to)]
                ELSE new = GoneRange)
       \/ ~(Shift \/ Move)]_vars

RowsAt(ord, set) == {ord[i] : i \in set \cap DOMAIN ord}
RowsIn(ord, r) == RowsAt(ord, r.from .. r.to)

\* Hidden rows stay hidden, and no other row becomes hidden, when rows are
\* inserted, deleted or moved (as the engine's cache sees it).
HiddenFollowRows ==
    [][\/ RowsAt(order', hidden') \cap RowsOf(order)
            = RowsAt(order, hidden) \cap RowsOf(order')
       \/ ~(Shift \/ Move)]_vars

\* Inserts and deletes leave the frozen band on the same rows.
FrozenFollowsRows ==
    [][\/ RowsAt(order', 1 .. frozen') \cap RowsOf(order)
            = RowsAt(order, 1 .. frozen) \cap RowsOf(order')
       \/ ~Shift]_vars

\* Inserts and deletes never push a merged block across the frozen edge.
ShiftKeepsFrozenEdge ==
    [][\/ \E m \in merges : CrossesFrozen(m)
       \/ (\A m \in merges : ~CrossesFrozen(m))'
       \/ ~Shift]_vars

\* After an insert or delete each merged block covers the surviving rows it
\* covered and no other old row, no block comes from nowhere, and blocks that
\* were apart stay apart.
MergesApart == \A a, b \in merges : a # b => ~Meets(a, b)
MergesFollowRows ==
    [][\/ LET Left(m) == RowsIn(order, m) \cap RowsOf(order')
              Kept(m) == RowsIn(order', m) \cap RowsOf(order)
          IN  /\ \A m \in merges :
                    Cardinality(Left(m)) > 1 => \E b \in merges' : Kept(b) = Left(m)
              /\ \A b \in merges' : \E m \in merges : Kept(b) = Left(m)
              /\ MergesApart'
       \/ ~MergesApart
       \/ ~Shift]_vars

\* An insert or delete never takes a formatting rule away from a surviving row.
RulesKeepSurvivors ==
    [][\/ \A r \in rules : \E s \in rules' :
            RowsIn(order, r) \cap RowsOf(order') \subseteq RowsIn(order', s)
       \/ ~Shift]_vars

\* While a row of a chart's source survives, an insert or delete leaves the
\* source on exactly the surviving rows; the anchor follows its row if it can.
ChartFollowsRows ==
    [][\/ chart = NoChart
       \/ LET left == RowsIn(order, chart.source) \cap RowsOf(order')
          IN  /\ left # {} => RowsIn(order', chart'.source) \cap RowsOf(order) = left
              /\ chart.anchor \in DOMAIN order /\ Survives(chart.anchor)
                   => chart'.anchor = NewIndex(chart.anchor)
       \/ ~Shift]_vars

\* Everything that is kept by index stays on the rows it was put on, each kind by
\* the function of its own that shifts it.
MetadataFollowsRows ==
    /\ HiddenFollowRows
    /\ FrozenFollowsRows
    /\ ShiftKeepsFrozenEdge
    /\ MergesFollowRows
    /\ RulesKeepSurvivors
    /\ ChartFollowsRows
=============================================================================
