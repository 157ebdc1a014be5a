---------------------------- MODULE FilteredSheet ----------------------------
(***************************************************************************)
(* A worksheet with formulas, a filter and sorting over its store          *)
(* (packages/sheets, sheet.ts): what a call writes, what it recalculates   *)
(* and which rows the filter hides afterwards, under undo and redo.        *)
(*                                                                         *)
(* A call gives way to nobody, as the store answers at once: it is one     *)
(* step.  The header is above the rows and never changes.                  *)
(***************************************************************************)
EXTENDS WorksheetStore, SequencesExt

CONSTANTS
    Typed,        \* pairs <<cell, number, formula or Blank>> users type
    Selections,   \* sets of cells users clear
    Filters,      \* filter ranges: [columns, last row]
    Shown         \* sets of values users leave checked

VARIABLES
    filter,       \* the filter the sheet holds in memory
    missed        \* history: a formula was left out that a document still shows

vars == <<doc, past, future, index, filter, missed>>

Texts == Nat \cup {Blank}
Content == Rows \cup {Whole, None}

\* Column A has numbers, and column B the formulas that read them.
ASSUME TypedAssumption ==
    \A t \in Typed :
        /\ t[1] \in Cells /\ t[2] \in Texts /\ t[3] \in Content
        /\ t[1][1] = A => t[3] = None
ASSUME FiltersAssumption ==
    /\ \A range \in Filters : range.columns \subseteq {A, B} /\ range.last \in Rows
    /\ \A selection \in Selections : selection \subseteq Cells

-----------------------------------------------------------------------------
(* Calculation.                                                            *)

\* The sum of the numbers a function gives, as that many pairs.
Total(number) == Cardinality(UNION {{p} \X (1 .. number[p]) : p \in DOMAIN number})
Evaluate(b, f) ==
    LET filled == {p \in Reads(b, f) : Get(b, p).v # Blank}
    IN  IF f = Whole THEN Total([p \in filled |-> Get(b, p).v]) ELSE Get(b, <<A, f>>).v

\* calculate, for formulas that read no formula: those that have changed, and
\* those that read what has; written where the value is another.
Calculate(b, changed) ==
    LET fresh == EnsureIndex(b)
        due == (changed \cap Formulas(fresh)) \cup Dependants(fresh, changed)
        value == [p \in due |-> Evaluate(fresh, Get(fresh, p).f)]
        other == {p \in due : value[p] # Get(fresh, p).v}
    IN  SetGrid(fresh, [p \in other |-> Cell(value[p], Get(fresh, p).f)])

-----------------------------------------------------------------------------
(* The filter.                                                             *)

\* rowMatchesFilters: the row passes every condition, but that of one column.
Passes(b, state, row, but) ==
    \A col \in DOMAIN state.conditions \ {but} : Get(b, <<col, row>>).v \in state.conditions[col]

Failing(b, state) == {r \in 1 .. state.last : ~Passes(b, state, r, None)}
\* recomputeFilterHiddenRows
Recompute(b, state) == [b EXCEPT !.filter = <<[state EXCEPT !.hidden = Failing(b, state)]>>]
Refiltered(b) == IF filter = None THEN b ELSE Recompute(b, filter)

\* The call ends, and what it stored is what the sheet holds.
End(b) ==
    /\ Flush(b)
    /\ filter' = IF b.filter = <<>> THEN filter ELSE b.filter[1]

\* A filter is made over a range; there are no conditions outside its columns.
SetFilterRange(range) ==
    LET kept == IF filter = None THEN {} ELSE DOMAIN filter.conditions \cap range.columns
        state == [columns |-> range.columns, last |-> range.last, hidden |-> {},
                  conditions |-> [col \in kept |-> filter.conditions[col]]]
    IN  End(Recompute(Begin, state))

ClearFilter == End([Begin EXCEPT !.filter = <<None>>])

\* setColumnIncludedValues: of the values in rows the other conditions let pass,
\* those left checked; no condition when all are.
SetColumnIncludedValues(col, checked) ==
    /\ filter # None
    /\ col \in filter.columns
    /\ LET rows == {r \in 1 .. filter.last : Passes(Begin, filter, r, col)}
           options == {Get(Begin, <<col, r>>).v : r \in rows}
           others == [c \in DOMAIN filter.conditions \ {col} |-> filter.conditions[c]]
           chosen == IF options \subseteq checked THEN others
                     ELSE [c \in {col} \cup DOMAIN others |->
                                   IF c = col THEN options \cap checked ELSE others[c]]
       IN  End(Recompute(Begin, [filter EXCEPT !.conditions = chosen]))

ClearColumnFilter(col) ==
    /\ filter # None
    /\ col \in DOMAIN filter.conditions
    /\ End(Recompute(Begin, [filter EXCEPT !.conditions =
              [c \in DOMAIN @ \ {col} |-> @[c]]]))

-----------------------------------------------------------------------------
(* Edits.                                                                  *)

SetData(p, v, f) ==
    LET b == IF v = Blank /\ f = None THEN Delete(Begin, p) ELSE Put(Begin, p, Cell(v, f))
    IN  End(Refiltered(Calculate(b, {p})))

(* Mutant: the filter is not looked at again. *)
RemoveDataUnfiltered(selection) ==
    LET removed == DOMAIN Grid(Begin, selection)
        b == SetGrid(EnsureIndex(Begin), [p \in removed |-> Absent])
    IN  IF removed = {} THEN End(b) ELSE End(Calculate(b, removed))
RemoveData(selection) ==
    LET removed == DOMAIN Grid(Begin, selection)
        b == SetGrid(EnsureIndex(Begin), [p \in removed |-> Absent])
    IN  IF removed = {} THEN End(b) ELSE End(Refiltered(Calculate(b, removed)))

\* Rows in the order wanted: empty ones last either way, equal ones as they are, or
\* turned around when descending.
Precedes(v, r, w, s) == (v # Blank /\ w # Blank /\ v < w) \/ (v = w /\ r < s)
Before(col, ascending, r, s) ==
    LET v == Get(Begin, <<col, r>>).v
        w == Get(Begin, <<col, s>>).v
    IN  \/ v # Blank /\ w = Blank
        \/ (v = Blank <=> w = Blank) /\ IF ascending THEN Precedes(v, r, w, s)
                                        ELSE Precedes(w, s, v, r)
NewRow(col, ascending) ==
    [r \in 1 .. filter.last |->
        1 + Cardinality({s \in 1 .. filter.last : s # r /\ Before(col, ascending, s, r)})]

InRange(columns, last) == columns \X (1 .. last)
\* The cells of the range at their new rows.
Moved(newRow) ==
    LET grid == Grid(Begin, InRange(filter.columns, filter.last))
        oldRow(r) == CHOOSE s \in DOMAIN newRow : newRow[s] = r
        to == {<<p[1], newRow[p[2]]>> : p \in DOMAIN grid}
    IN  [p \in to |-> grid[<<p[1], oldRow(p[2])>>]]

(* Mutant: the new rows are written and then the old ones deleted. *)
SortedDeletedLast(newRow) ==
    LET range == InRange(filter.columns, filter.last)
        b == DeleteRange(SetGrid(EnsureIndex(Begin), Moved(newRow)), DOMAIN Grid(Begin, range))
    IN  Recompute(Calculate(b, FormulaGrid(b)), filter)
(* Mutant: formulas keep the values they had. *)
SortedUncalculated(newRow) ==
    LET b == DeleteRange(Begin, InRange(filter.columns, filter.last))
    IN  Recompute(SetGrid(b, Moved(newRow)), filter)
\* The range is deleted and written anew, then all formulas are calculated.
Sorted(newRow) ==
    LET b == DeleteRange(Begin, InRange(filter.columns, filter.last))
        written == SetGrid(b, Moved(newRow))
    IN  Recompute(Calculate(written, FormulaGrid(written)), filter)

SortFilterByColumn(col, ascending) ==
    /\ filter # None
    /\ col \in filter.columns
    /\ LET newRow == NewRow(col, ascending)
       IN  /\ \E r \in DOMAIN newRow : newRow[r] # r
           /\ End(Sorted(newRow))

-----------------------------------------------------------------------------
(* Undo, redo and painting.                                                *)

UndoEdit == Undo /\ filter' = doc'.filter
RedoEdit == Redo /\ filter' = doc'.filter

\* render fetches what is in view, which brings the index up to date.
Paint ==
    /\ index = Dirty
    /\ index' = EnsureIndex(Begin).index
    /\ UNCHANGED <<doc, past, future, filter>>

-----------------------------------------------------------------------------
(* The sheet.                                                              *)

\* The cells as a sheet that has just loaded the document sees them.
Fresh(d) == [base |-> d, overlay |-> <<>>, filter |-> <<>>, index |-> Dirty]
Current(d) ==
    \A p \in Formulas(Fresh(d)) : d.cells[p].v = Evaluate(Fresh(d), d.cells[p].f)

\* What leaves a formula out: typing before the index is up to date, clearing what
\* stands lowest, and sorting a formula to where there was none.
LowestCleared == ~(UsedRows(Fresh(doc)) \subseteq UsedRows(Fresh(doc')))
FormulaLands == \E p \in Cells : doc.cells[p].f = None /\ doc'.cells[p].f # None
Missing(cause) ==
    missed' = /\ missed \/ cause
              /\ \E d \in {doc'} \cup ToSet(past') \cup ToSet(future') : ~Current(d)

Init == StoreInit /\ filter = None /\ missed = FALSE

Type ==
    /\ \E t \in Typed : SetData(t[1], t[2], t[3])
    /\ Missing(index = Dirty \/ LowestCleared)
Clear ==
    /\ \E selection \in Selections : RemoveData(selection)
    /\ Missing(LowestCleared)
Filter ==
    /\ \/ \E range \in Filters : SetFilterRange(range)
       \/ ClearFilter
       \/ \E col \in {A, B} : \/ \E checked \in Shown : SetColumnIncludedValues(col, checked)
                              \/ ClearColumnFilter(col)
    /\ UNCHANGED missed
Sort ==
    /\ \E col \in {A, B}, ascending \in BOOLEAN : SortFilterByColumn(col, ascending)
    /\ Missing(FormulaLands)
TakeBack == (UndoEdit \/ RedoEdit) /\ UNCHANGED missed
Render == Paint /\ UNCHANGED missed

Next == Type \/ Clear \/ Filter \/ Sort \/ TakeBack \/ Render
Spec == Init /\ [][Next]_vars

-----------------------------------------------------------------------------
(* Properties.                                                             *)

Conditions == [{} -> SUBSET Texts] \cup [{A} -> SUBSET Texts] \cup [{B} -> SUBSET Texts]
                 \cup [{A, B} -> SUBSET Texts]
FilterType == {None} \cup [columns : SUBSET {A, B}, last : Rows, hidden : SUBSET Rows,
                           conditions : Conditions]

TypeOK ==
    /\ doc.cells \in [Cells -> [v : Texts, f : Content]]
    /\ {doc.filter, filter} \subseteq FilterType
    /\ Len(past) <= MaxUndo
    /\ index \in (SUBSET Cells) \cup {Dirty} /\ missed \in BOOLEAN

\* The rows a filter hides are those that show a value nobody left checked, by the
\* values shown now, and the sheet hides the rows the document says: after edits and
\* the formulas they reach, sorts, undo and redo.
FilterHidesWhatFails ==
    /\ filter = doc.filter
    /\ filter # None => filter.hidden = Failing(Begin, filter)

\* Every formula shows what it evaluates to, as long as no edit came before the
\* repaint, took away the lowest cells or sorted a formula to where there was none.
FormulasAreCurrent == ~missed => Current(doc)

\* Whatever a call changes, cells, formulas they reach and filter, one undo takes
\* back.
CallsUndoAtOnce ==
    [][doc' # doc /\ future' = <<>> /\ ~Redo => past'[Len(past')] = doc]_vars

\* Rows of the range under a new number each, in the columns of the range.
Rearranged(newRow) ==
    /\ {newRow[r] : r \in DOMAIN newRow} = DOMAIN newRow
    /\ \A r \in DOMAIN newRow, col \in filter.columns :
          LET old == doc.cells[<<col, r>>]
              new == doc'.cells[<<col, newRow[r]>>]
          IN  new.f = old.f /\ (old.f = None => new.v = old.v)
\* A sort keeps the rows of the range together, loses none, and leaves the numbers it
\* sorts by in order, with the empty rows last.
SortsKeepRows ==
    [][\A col \in {A, B}, ascending \in BOOLEAN :
          doc.cells # doc'.cells /\ SortFilterByColumn(col, ascending) =>
            /\ \E newRow \in [1 .. filter.last -> 1 .. filter.last] : Rearranged(newRow)
            /\ col = A => \A r \in 1 .. filter.last - 1 :
                  LET v == doc'.cells[<<A, r>>].v
                      w == doc'.cells[<<A, r + 1>>].v
                  IN  w # Blank => v # Blank /\ (IF ascending THEN v <= w ELSE w <= v)]_vars

\* Clearing cells reaches the formulas that read their column (formula.md: "editing
\* any cell in a referenced column/row still triggers recalculation").
ClearingReachesFormulas == [][Current(doc) /\ Clear => Current(doc')]_vars

\* The store knows its cells, and the sheet its filter is one over them.
StoreAgrees == TypeOK /\ IndexIsCurrent
=============================================================================
