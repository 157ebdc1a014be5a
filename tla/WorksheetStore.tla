--------------------------- MODULE WorksheetStore ---------------------------
(***************************************************************************)
(* The store of one worksheet in one browser (yorkie-store.ts): calls of   *)
(* the sheet buffer their writes in a batch that ends in one update of the *)
(* document, which one undo takes back.  The store keeps an index of the   *)
(* populated cells, to walk ranges and to know where the data ends, and    *)
(* builds it anew when it may be out of date.                              *)
(*                                                                         *)
(* A batch is a record: the document it started from, the index, the cells *)
(* written so far (Absent when deleted) and the filter to be stored.  The  *)
(* history of the document is Yorkie's; this client has it to itself.      *)
(***************************************************************************)
EXTENDS Naturals, Sequences, FiniteSets, FiniteSetsExt

CONSTANTS
    A, B,         \* two columns: numbers, and formulas that read them
    Height,       \* number of rows below the header
    Whole,        \* the formula that sums the whole column A
    None,         \* no formula, no filter
    Blank,        \* the value of a cell without any
    Dirty,        \* stands for an index that is out of date: nobody looks at it
    MaxUndo       \* bound: steps the history keeps

VARIABLES
    doc,          \* the worksheet: its cells, its filter
    past, future, \* the history: what undo and redo restore
    index         \* cellIndex, or Dirty when it may be out of date

Rows == 1 .. Height
Cells == {A, B} \X Rows

\* Values are numbers, and the names that stand for something else are others.
ASSUME StoreAssumption ==
    /\ A # B
    /\ Height \in Nat \ {0} /\ MaxUndo \in Nat \ {0}
    /\ Blank \notin Nat /\ Whole \notin Nat /\ None \notin Nat /\ Whole # None
    /\ \A cells \in SUBSET Cells : Dirty # cells

\* A formula is Whole, or the row of column A it shows.
Cell(v, f) == [v |-> v, f |-> f]
Absent == Cell(Blank, None)
Populated(cells) == {p \in Cells : cells[p] # Absent}

-----------------------------------------------------------------------------
(* Batches.                                                                *)

\* beginBatch.  Reads before it are reads of a batch with nothing in it.
Begin == [base |-> doc, overlay |-> <<>>, filter |-> <<>>, index |-> index]

\* The index is that of the document, whatever the batch has written.
EnsureIndex(b) ==
    IF b.index = Dirty THEN [b EXCEPT !.index = Populated(b.base.cells)] ELSE b

Get(b, p) == IF p \in DOMAIN b.overlay THEN b.overlay[p] ELSE b.base.cells[p]

\* setGrid, and set for one cell.
Over(grid, cells) ==
    [p \in DOMAIN grid \cup DOMAIN cells |-> IF p \in DOMAIN grid THEN grid[p] ELSE cells[p]]
SetGrid(b, grid) ==
    LET kept == {p \in DOMAIN grid : grid[p] # Absent}
    IN  [b EXCEPT !.overlay = Over(grid, @),
                  !.index = IF @ = Dirty THEN Dirty ELSE (@ \ DOMAIN grid) \cup kept]
Put(b, p, cell) == SetGrid(b, [q \in {p} |-> cell])
Delete(b, p) == IF Get(b, p) = Absent THEN b ELSE Put(b, p, Absent)

\* getGrid and deleteRange: what the index knows of the range.
Grid(b, range) ==
    LET known == {p \in EnsureIndex(b).index \cap range : Get(b, p) # Absent}
    IN  [p \in known |-> Get(b, p)]
DeleteRange(b, range) ==
    LET fresh == EnsureIndex(b)
        hit == fresh.index \cap range
    IN  [fresh EXCEPT !.overlay = Over([p \in hit |-> Absent], @), !.index = @ \ hit]

\* getUsedBounds: the rows down to the last with a cell; the header has one.
UsedRows(b) == {r \in Rows : \E p \in EnsureIndex(b).index : r <= p[2]}

Reads(b, f) == {A} \X (IF f = Whole THEN UsedRows(b) ELSE {f})
Formulas(b) == {p \in Cells : Get(b, p).f # None}
\* buildDependantsMap, for the cells that have changed.
Dependants(b, changed) == {p \in Formulas(b) : Reads(b, Get(b, p).f) \cap changed # {}}
\* getFormulaGrid: the document's, not the batch's.
FormulaGrid(b) == {p \in Cells : b.base.cells[p].f # None}

-----------------------------------------------------------------------------
(* Updates of the document.                                                *)

Remember(docs) == SubSeq(docs, Max({1, Len(docs) - MaxUndo + 1}), Len(docs))

Untouched(b) == b.overlay = <<>> /\ b.filter = <<>>

(* Mutant: the cells and the rest are two updates. *)
FlushInTwo(b) ==
    LET written == [doc EXCEPT !.cells = [p \in Cells |-> Get(b, p)]]
        halfway == IF b.overlay = <<>> \/ b.filter = <<>> THEN <<>> ELSE <<written>>
    IN  IF Untouched(b) THEN index' = b.index /\ UNCHANGED <<doc, past, future>>
        ELSE /\ doc' = IF b.filter = <<>> THEN written ELSE [written EXCEPT !.filter = b.filter[1]]
             /\ past' = Remember(Append(past, doc) \o halfway)
             /\ future' = <<>>
             /\ index' = Dirty
\* endBatch: the cells, then the filter, in one update; nothing for nothing.
Flush(b) ==
    IF Untouched(b) THEN index' = b.index /\ UNCHANGED <<doc, past, future>>
    ELSE /\ doc' = [cells |-> [p \in Cells |-> Get(b, p)],
                    filter |-> IF b.filter = <<>> THEN doc.filter ELSE b.filter[1]]
         /\ past' = Remember(Append(past, doc))
         /\ future' = <<>>
         /\ index' = Dirty

\* Yorkie's history takes back the last update of this client.
UndoUpdate ==
    /\ past # <<>>
    /\ doc' = past[Len(past)]
    /\ past' = SubSeq(past, 1, Len(past) - 1)
    /\ future' = Append(future, doc)
RedoUpdate ==
    /\ future # <<>>
    /\ doc' = future[Len(future)]
    /\ future' = SubSeq(future, 1, Len(future) - 1)
    /\ past' = Append(past, doc)

(* Mutant: the index is kept. *)
UndoKeepsIndex == UndoUpdate /\ UNCHANGED index
Undo == UndoUpdate /\ index' = Dirty
Redo == RedoUpdate /\ index' = Dirty

-----------------------------------------------------------------------------
StoreInit ==
    /\ doc = [cells |-> [p \in Cells |-> Absent], filter |-> None]
    /\ past = <<>> /\ future = <<>>
    /\ index = Dirty

\* When the index passes for up to date it holds exactly the populated cells,
\* after any order of batches, undo and redo.
IndexIsCurrent == index # Dirty => index = Populated(doc.cells)
=============================================================================
