------------------------- MODULE FilteredSheetProofs -------------------------
(***************************************************************************)
(* Theorems of FilteredSheet, for any number of rows and undo steps, and   *)
(* whatever users type, clear and filter.                                  *)
(*                                                                         *)
(* A call works on a batch, step after step, and ends with it.  So there   *)
(* is one lemma per step, which says what the batch holds after it, and    *)
(* one lemma for the end, which says what a batch must be like for the     *)
(* sheet to be sound afterwards.                                           *)
(***************************************************************************)
EXTENDS FilteredSheet, SequenceTheorems, FiniteSetTheorems, TLAPS

CellType == [v : Texts, f : Content]
Overlays == UNION {[written -> CellType] : written \in SUBSET Cells}
Filters1 == {<<>>} \cup {<<state>> : state \in FilterType}

\* Numbers are in column A, and no formulas.
NumbersInA(d) == \A r \in Rows : d.cells[<<A, r>>].f = None
\* The filter of a document hides the rows that fail by its cells.
HidesFailing(d) == d.filter # None => d.filter.hidden = Failing(Fresh(d), d.filter)
Documents == {d \in [cells : [Cells -> CellType], filter : FilterType] :
                 NumbersInA(d) /\ HidesFailing(d)}
Batches == [base : Documents, overlay : Overlays, filter : Filters1,
            index : (SUBSET Cells) \cup {Dirty}]

\* The cells as the batch leaves them.
CellsOf(b) == [p \in Cells |-> Get(b, p)]

-----------------------------------------------------------------------------
(* Batches.                                                                *)

\* A function on nothing is the empty sequence, which a batch starts with.
LEMMA EmptyFunction ==
    ASSUME NEW S, NEW f \in [{} -> S]
    PROVE  f = <<>>
OBVIOUS

\* The name for an index out of date is no set of cells.
LEMMA DirtyIsNoIndex == \A cells \in SUBSET Cells : cells # Dirty
BY StoreAssumption

\* What a batch reads of a cell is a cell.
LEMMA GetType ==
    ASSUME NEW b \in Batches, NEW p \in Cells
    PROVE  /\ Get(b, p) \in CellType
           /\ Get(b, p).v \in Texts /\ Get(b, p).f \in Content
<1>1. Get(b, p) \in CellType
  BY DEF Get, Batches, Overlays, Documents
<1>2. QED
  BY <1>1 DEF CellType

\* The cells of the grid are those written, and the others stay; an index that is up
\* to date stays so.
Wrote(b, c, written, grid) ==
    /\ c \in Batches
    /\ c.base = b.base /\ c.filter = b.filter
    /\ \A p \in Cells : Get(c, p) = IF p \in written THEN grid[p] ELSE Get(b, p)
    /\ c.overlay = <<>> => written = {} /\ b.overlay = <<>> /\ c.index = b.index
    /\ b.index = Dirty <=> c.index = Dirty
    /\ b.index = Populated(CellsOf(b)) => c.index = Populated(CellsOf(c))

\* setGrid writes the grid over a batch.
LEMMA SetGridWrites ==
    ASSUME NEW b \in Batches, NEW written \in SUBSET Cells,
           NEW grid \in [written -> CellType]
    PROVE  Wrote(b, SetGrid(b, grid), written, grid)
<1> DEFINE kept == {p \in DOMAIN grid : grid[p] # Absent}
           over == Over(grid, b.overlay)
           idx == IF b.index = Dirty THEN Dirty ELSE (b.index \ DOMAIN grid) \cup kept
           c == SetGrid(b, grid)
<1>1. PICK before \in SUBSET Cells : b.overlay \in [before -> CellType]
  BY DEF Batches, Overlays
<1>2. over \in [written \cup before -> CellType]
  BY <1>1 DEF Over
<1>3. over \in Overlays
  BY <1>2 DEF Overlays
<1>4. idx \in (SUBSET Cells) \cup {Dirty}
  BY DEF Batches
<1>5. c = [b EXCEPT !.overlay = over, !.index = idx]
  BY DEF SetGrid
<1>6. c \in Batches /\ c.base = b.base /\ c.filter = b.filter /\ c.overlay = over /\ c.index = idx
  BY <1>3, <1>4, <1>5 DEF Batches
<1>7. ASSUME NEW p \in Cells
      PROVE  Get(c, p) = IF p \in written THEN grid[p] ELSE Get(b, p)
  BY <1>1, <1>2, <1>6 DEF Get, Over
<1>8. c.overlay = <<>> => written = {} /\ b.overlay = <<>> /\ c.index = b.index
  <2> SUFFICES ASSUME c.overlay = <<>> PROVE written = {} /\ b.overlay = <<>> /\ c.index = b.index
    OBVIOUS
  <2>1. written = {} /\ before = {}
    BY <1>2, <1>6
  <2>2. b.overlay = <<>>
    BY <1>1, <2>1, EmptyFunction
  <2>3. QED
    BY <2>1, <2>2, <1>6
<1>9. b.index = Dirty <=> c.index = Dirty
  <2> HIDE DEF kept
  <2>1. CASE b.index = Dirty
    BY <1>6, <2>1
  <2>2. CASE b.index # Dirty
    <3> DEFINE left == (b.index \ DOMAIN grid) \cup kept
    <3>1. left \in SUBSET Cells
      BY <2>2 DEF Batches, kept
    <3>2. left # Dirty
      BY <3>1, DirtyIsNoIndex
    <3>3. c.index = left
      BY <1>6, <2>2
    <3>4. QED
      BY <2>2, <3>2, <3>3
  <2>3. QED
    BY <2>1, <2>2
<1>10. b.index = Populated(CellsOf(b)) => c.index = Populated(CellsOf(c))
  <2> SUFFICES ASSUME b.index = Populated(CellsOf(b)) PROVE c.index = Populated(CellsOf(c))
    OBVIOUS
  <2>1. b.index \in SUBSET Cells
    BY DEF Populated
  <2>2. c.index = (b.index \ DOMAIN grid) \cup kept
    BY <1>6, <2>1, StoreAssumption
  <2>3. ASSUME NEW p \in Cells
        PROVE  p \in c.index <=> p \in Populated(CellsOf(c))
    BY <1>7, <2>2 DEF Populated, CellsOf
  <2>4. QED
    BY <2>2, <2>3, <2>1 DEF Populated
<1> HIDE DEF c
<1>11. Wrote(b, c, written, grid)
  BY <1>6, <1>7, <1>8, <1>9, <1>10 DEF Wrote
<1>12. QED
  BY <1>11 DEF c

-----------------------------------------------------------------------------
(* Batches that are written to.                                            *)

\* A batch of this call before its filter is looked at.
Writing(b) ==
    /\ b \in Batches /\ b.base = doc /\ b.filter = <<>>
    /\ \A r \in Rows : Get(b, <<A, r>>).f = None
    /\ b.overlay = <<>> => b.index \in {Dirty, Populated(doc.cells)}

\* What is true between calls.
StoreInv ==
    /\ doc \in Documents /\ past \in Seq(Documents) /\ future \in Seq(Documents)
    /\ Len(past) + Len(future) <= MaxUndo
    /\ index \in {Dirty, Populated(doc.cells)}
    /\ filter = doc.filter
    /\ missed \in BOOLEAN

LEMMA BeginWrites ==
    ASSUME StoreInv
    PROVE  /\ Writing(Begin) /\ Begin.index = index /\ Begin.overlay = <<>>
           /\ \A p \in Cells : Get(Begin, p) = doc.cells[p]
<1>1. Begin = [base |-> doc, overlay |-> <<>>, filter |-> <<>>, index |-> index]
  BY DEF Begin
<1>2. <<>> \in Overlays
  BY DEF Overlays
<1>3. Begin \in Batches
  BY <1>1, <1>2 DEF StoreInv, Batches, Filters1, Populated
<1>4. \A p \in Cells : Get(Begin, p) = doc.cells[p]
  BY <1>1 DEF Get
<1>5. \A r \in Rows : <<A, r>> \in Cells /\ doc.cells[<<A, r>>].f = None
  BY DEF StoreInv, Documents, NumbersInA, Cells
<1>6. QED
  BY <1>1, <1>3, <1>4, <1>5 DEF StoreInv, Writing

\* ensureIndex: the batch reads and stores what it did, with an index of some cells.
LEMMA EnsureIndexReads ==
    ASSUME NEW b \in Batches
    PROVE  LET c == EnsureIndex(b)
           IN  /\ c \in Batches
               /\ c.base = b.base /\ c.filter = b.filter /\ c.overlay = b.overlay
               /\ \A p \in Cells : Get(c, p) = Get(b, p)
               /\ c.index \in SUBSET Cells /\ c.index # Dirty
               /\ c.index = IF b.index = Dirty THEN Populated(b.base.cells) ELSE b.index
<1> DEFINE c == EnsureIndex(b)
<1>0. Populated(b.base.cells) \in SUBSET Cells
  BY DEF Populated
<1>1. /\ c \in Batches
      /\ c.base = b.base /\ c.filter = b.filter /\ c.overlay = b.overlay
      /\ c.index = IF b.index = Dirty THEN Populated(b.base.cells) ELSE b.index
  BY <1>0 DEF EnsureIndex, Batches
<1>2. c.index \in SUBSET Cells
  BY <1>0, <1>1 DEF Batches
<1>3. c.index # Dirty
  BY <1>2, DirtyIsNoIndex
<1>4. \A p \in Cells : Get(c, p) = Get(b, p)
  BY <1>1 DEF Get
<1> HIDE DEF c
<1>5. QED
  BY <1>1, <1>2, <1>3, <1>4 DEF c

LEMMA EnsureIndexWrites ==
    ASSUME NEW b, Writing(b)
    PROVE  Writing(EnsureIndex(b))
<1> DEFINE c == EnsureIndex(b)
<1>1. /\ b \in Batches /\ b.base = doc /\ b.filter = <<>>
      /\ \A r \in Rows : Get(b, <<A, r>>).f = None
      /\ b.overlay = <<>> => b.index \in {Dirty, Populated(doc.cells)}
  BY DEF Writing
<1>2. /\ c \in Batches
      /\ c.base = b.base /\ c.filter = b.filter /\ c.overlay = b.overlay
      /\ \A p \in Cells : Get(c, p) = Get(b, p)
      /\ c.index = IF b.index = Dirty THEN Populated(b.base.cells) ELSE b.index
  BY <1>1, EnsureIndexReads
<1>3. \A r \in Rows : <<A, r>> \in Cells
  BY DEF Cells
<1> HIDE DEF c
<1>4. Writing(c)
  BY <1>1, <1>2, <1>3 DEF Writing
<1>5. QED
  BY <1>4 DEF c

LEMMA SetGridKeepsWriting ==
    ASSUME NEW b, Writing(b), NEW written \in SUBSET Cells,
           NEW grid \in [written -> CellType],
           \A r \in Rows : <<A, r>> \in written => grid[<<A, r>>].f = None
    PROVE  Writing(SetGrid(b, grid))
<1> DEFINE c == SetGrid(b, grid)
<1>1. /\ b \in Batches /\ b.base = doc /\ b.filter = <<>>
      /\ \A r \in Rows : Get(b, <<A, r>>).f = None
      /\ b.overlay = <<>> => b.index \in {Dirty, Populated(doc.cells)}
  BY DEF Writing
<1>2. /\ c \in Batches
      /\ c.base = b.base /\ c.filter = b.filter
      /\ \A p \in Cells : Get(c, p) = IF p \in written THEN grid[p] ELSE Get(b, p)
      /\ c.overlay = <<>> => written = {} /\ b.overlay = <<>> /\ c.index = b.index
  <2>1. Wrote(b, c, written, grid)
    BY <1>1, SetGridWrites
  <2>2. QED
    BY <2>1 DEF Wrote
<1>3. \A r \in Rows : <<A, r>> \in Cells
  BY DEF Cells
<1> HIDE DEF c
<1>4. Writing(c)
  BY <1>1, <1>2, <1>3 DEF Writing
<1>5. QED
  BY <1>4 DEF c

LEMMA AbsentIsACell == Absent \in CellType /\ Absent.f = None /\ Absent.v = Blank
BY DEF Absent, Cell, CellType, Texts, Content

\* deleteRange writes nothing over what the index knows of the range.
LEMMA DeleteRangeIsSetGrid ==
    ASSUME NEW b \in Batches, NEW range
    PROVE  DeleteRange(b, range)
              = SetGrid(EnsureIndex(b), [p \in EnsureIndex(b).index \cap range |-> Absent])
<1> DEFINE c == EnsureIndex(b)
           hit == c.index \cap range
           grid == [p \in hit |-> Absent]
           kept == {p \in DOMAIN grid : grid[p] # Absent}
<1>1. c.index # Dirty
  BY EnsureIndexReads
<1>2. kept = {} /\ DOMAIN grid = hit
  OBVIOUS
<1>3. (c.index \ DOMAIN grid) \cup kept = c.index \ hit
  BY <1>2
<1>4. SetGrid(c, grid)
         = [[c EXCEPT !.overlay = Over(grid, c.overlay)] EXCEPT !.index = c.index \ hit]
  <2>1. SetGrid(c, grid)
         = [[c EXCEPT !.overlay = Over(grid, c.overlay)] EXCEPT
               !.index = IF c.index = Dirty THEN Dirty ELSE (c.index \ DOMAIN grid) \cup kept]
    <3> HIDE DEF c, grid
    <3>1. QED
      BY DEF SetGrid
  <2>2. QED
    BY <2>1, <1>1, <1>3
<1>5. DeleteRange(b, range)
         = [[c EXCEPT !.overlay = Over(grid, c.overlay)] EXCEPT !.index = c.index \ hit]
  BY DEF DeleteRange
<1>6. QED
  BY <1>4, <1>5

-----------------------------------------------------------------------------
(* Calculation.                                                            *)

LEMMA CellsFinite == IsFiniteSet(Cells) /\ IsFiniteSet(Rows)
<1>1. IsFiniteSet(Rows)
  BY StoreAssumption, FS_Interval DEF Rows
<1>2. IsFiniteSet({A, B})
  <2>1. IsFiniteSet({A}) /\ IsFiniteSet({B})
    BY FS_Singleton
  <2>2. {A, B} = {A} \cup {B}
    OBVIOUS
  <2>3. QED
    BY <2>1, <2>2, FS_Union
<1>3. QED
  BY <1>1, <1>2, FS_Product DEF Cells

\* The sum of numbers is a number.
LEMMA TotalType ==
    ASSUME NEW S, IsFiniteSet(S), NEW number \in [S -> Nat]
    PROVE  Total(number) \in Nat
<1> DEFINE parts == {{p} \X (1 .. number[p]) : p \in S}
           part == [p \in S |-> {p} \X (1 .. number[p])]
<1>1. ASSUME NEW p \in S
      PROVE  IsFiniteSet({p} \X (1 .. number[p]))
  <2>1. 1 \in Int /\ number[p] \in Int
    OBVIOUS
  <2>2. IsFiniteSet(1 .. number[p])
    BY <2>1, FS_Interval
  <2>3. IsFiniteSet({p})
    BY FS_Singleton
  <2>4. QED
    BY <2>2, <2>3, FS_Product
<1>2. \A part1 \in parts : IsFiniteSet(part1)
  BY <1>1
<1>3. part \in Surjection(S, parts)
  BY DEF Surjection
<1>4. IsFiniteSet(parts)
  <2> HIDE DEF part, parts
  <2>1. QED
    BY <1>3, FS_Surjection
<1>5. IsFiniteSet(UNION parts)
  <2> HIDE DEF part, parts
  <2>1. QED
    BY <1>2, <1>4, FS_UNION
<1>6. Cardinality(UNION parts) \in Nat
  BY <1>5, FS_CardinalityType
<1>7. Total(number) = Cardinality(UNION parts)
  BY DEF Total
<1>8. QED
  BY <1>6, <1>7

\* A formula reads cells of column A.
LEMMA ReadsType ==
    ASSUME NEW b, NEW f \in Content, f # None
    PROVE  /\ Reads(b, f) \subseteq {A} \X Rows /\ Reads(b, f) \subseteq Cells
           /\ f # Whole => f \in Rows /\ <<A, f>> \in Cells
BY StoreAssumption DEF Reads, UsedRows, Content, Cells

LEMMA EvaluateType ==
    ASSUME NEW b \in Batches, NEW f \in Content, f # None
    PROVE  Evaluate(b, f) \in Texts
<1> DEFINE filled == {p \in Reads(b, f) : Get(b, p).v # Blank}
           number == [p \in filled |-> Get(b, p).v]
<1>1. Reads(b, f) \subseteq Cells
  BY ReadsType
<1>2. ASSUME NEW p \in filled
      PROVE  Get(b, p).v \in Nat
  BY <1>1, GetType DEF Texts
<1>3. number \in [filled -> Nat]
  BY <1>2
<1>4. IsFiniteSet(filled)
  BY <1>1, CellsFinite, FS_Subset
<1>5. Total(number) \in Nat
  <2> HIDE DEF number, filled
  <2>1. QED
    BY <1>3, <1>4, TotalType
<1>6. CASE f = Whole
  BY <1>5, <1>6 DEF Evaluate, Texts
<1>7. CASE f # Whole
  BY <1>7, ReadsType, GetType DEF Evaluate
<1>8. QED
  BY <1>6, <1>7

\* The formulas that are calculated.
Due(b, changed) ==
    (changed \cap Formulas(EnsureIndex(b))) \cup Dependants(EnsureIndex(b), changed)

LEMMA DueAreFormulas ==
    ASSUME NEW b \in Batches, NEW changed \in SUBSET Cells
    PROVE  /\ Due(b, changed) \subseteq Cells
           /\ \A p \in Due(b, changed) : Get(b, p).f # None /\ Get(b, p).f \in Content
<1> DEFINE c == EnsureIndex(b)
<1>1. \A p \in Cells : Get(c, p) = Get(b, p)
  BY EnsureIndexReads
<1> HIDE DEF c
<1>2. \A p \in Formulas(c) : p \in Cells /\ Get(b, p).f # None /\ Get(b, p).f \in Content
  BY <1>1, GetType DEF Formulas
<1>3. Due(b, changed) = (changed \cap Formulas(c)) \cup Dependants(c, changed)
  BY DEF Due, c
<1>4. Due(b, changed) \subseteq Formulas(c)
  BY <1>3 DEF Dependants
<1>5. QED
  BY <1>2, <1>4

\* What calculate leaves: in the formulas that are due what they evaluate to, and
\* the other cells as they were.
Calculated(b, c, changed) ==
    \A p \in Cells :
        Get(c, p) = IF p \in Due(b, changed)
                    THEN Cell(Evaluate(EnsureIndex(b), Get(b, p).f), Get(b, p).f)
                    ELSE Get(b, p)

LEMMA CalculateWrites ==
    ASSUME NEW b, Writing(b), NEW changed \in SUBSET Cells
    PROVE  LET c == Calculate(b, changed)
           IN  /\ Writing(c) /\ Calculated(b, c, changed)
               /\ c.index # Dirty
               /\ EnsureIndex(b).index = Populated(CellsOf(EnsureIndex(b)))
                     => c.index = Populated(CellsOf(c))
<1> DEFINE fresh == EnsureIndex(b)
           due == Due(b, changed)
           value == [p \in due |-> Evaluate(fresh, Get(fresh, p).f)]
           other == {p \in due : value[p] # Get(fresh, p).v}
           grid == [p \in other |-> Cell(value[p], Get(fresh, p).f)]
           c == SetGrid(fresh, grid)
<1>1. Writing(fresh) /\ fresh \in Batches /\ fresh.index # Dirty
      /\ \A p \in Cells : Get(fresh, p) = Get(b, p)
  BY EnsureIndexWrites, EnsureIndexReads DEF Writing
<1>2. b \in Batches
  BY DEF Writing
<1>3. due \subseteq Cells /\ \A p \in due : Get(b, p).f # None /\ Get(b, p).f \in Content
  BY <1>2, DueAreFormulas
<1>4. Calculate(b, changed) = c
  BY DEF Calculate, Due
<1> HIDE DEF fresh, due
<1>5. ASSUME NEW p \in due
      PROVE  Cell(Evaluate(fresh, Get(fresh, p).f), Get(fresh, p).f) \in CellType
  BY <1>1, <1>3, EvaluateType DEF Cell, CellType
<1>6. other \in SUBSET Cells
  BY <1>3
<1>7. grid \in [other -> CellType]
  BY <1>5
<1>8. ASSUME NEW r \in Rows
      PROVE  <<A, r>> \notin due
  BY <1>3 DEF Writing
<1>9. Writing(c)
  <2>1. \A r \in Rows : <<A, r>> \in other => grid[<<A, r>>].f = None
    BY <1>8
  <2> HIDE DEF grid, other
  <2>2. QED
    BY <1>1, <1>6, <1>7, <2>1, SetGridKeepsWriting
<1>10. Wrote(fresh, c, other, grid)
  <2> HIDE DEF grid, other
  <2>1. QED
    BY <1>1, <1>6, <1>7, SetGridWrites
<1>11. Calculated(b, c, changed)
  <2> SUFFICES ASSUME NEW p \in Cells
               PROVE  Get(c, p) = IF p \in due THEN Cell(Evaluate(fresh, Get(b, p).f), Get(b, p).f)
                                  ELSE Get(b, p)
    BY DEF Calculated, due, fresh
  <2>1. Get(c, p) = IF p \in other THEN grid[p] ELSE Get(b, p)
    <3> HIDE DEF c, grid, other
    <3>1. QED
      BY <1>1, <1>10 DEF Wrote
  <2>2. CASE p \in other
    BY <2>1, <2>2, <1>1
  <2>3. CASE p \notin due
    BY <2>1, <2>3
  <2>4. CASE p \in due /\ p \notin other
    <3>1. Get(b, p).v = Evaluate(fresh, Get(b, p).f)
      BY <2>4, <1>1
    <3>2. Get(b, p) \in CellType
      BY <1>2, GetType
    <3>3. Get(b, p) = Cell(Get(b, p).v, Get(b, p).f)
      BY <3>2 DEF CellType, Cell
    <3>4. Get(c, p) = Get(b, p)
      BY <2>1, <2>4
    <3>5. QED
      BY <3>1, <3>3, <3>4, <2>4
  <2>5. QED
    BY <2>2, <2>3, <2>4
<1>12. c.index # Dirty /\ (fresh.index = Populated(CellsOf(fresh)) => c.index = Populated(CellsOf(c)))
  <2> HIDE DEF c, grid, other
  <2>1. QED
    BY <1>1, <1>10 DEF Wrote
<1>13. QED
  <2> HIDE DEF c
  <2>1. QED
    BY <1>4, <1>9, <1>11, <1>12 DEF fresh

-----------------------------------------------------------------------------
(* The filter, and the end of a call.                                      *)

\* A batch a call may end with: its filter hides what fails by its cells.
Ready(b) ==
    /\ b \in Batches /\ b.base = doc
    /\ \A r \in Rows : Get(b, <<A, r>>).f = None
    /\ b.overlay = <<>> => b.index \in {Dirty, Populated(doc.cells)}
    /\ IF b.filter = <<>> THEN filter = None \/ b.overlay = <<>>
       ELSE b.filter[1] # None => b.filter[1].hidden = Failing(b, b.filter[1])

FilterRecords ==
    [columns : SUBSET {A, B}, last : Rows, hidden : SUBSET Rows, conditions : Conditions]

LEMMA ConditionsShape ==
    \A c \in Conditions : DOMAIN c \subseteq {A, B} /\ \A col \in DOMAIN c : c[col] \in SUBSET Texts
<1> SUFFICES ASSUME NEW c \in Conditions
             PROVE  DOMAIN c \subseteq {A, B} /\ \A col \in DOMAIN c : c[col] \in SUBSET Texts
  OBVIOUS
<1>1. PICK columns \in {{}, {A}, {B}, {A, B}} : c \in [columns -> SUBSET Texts]
  BY DEF Conditions
<1>2. QED
  BY <1>1

LEMMA ConditionsMade ==
    ASSUME NEW columns \in SUBSET {A, B}, NEW c \in [columns -> SUBSET Texts]
    PROVE  c \in Conditions
<1>1. columns \in {{}, {A}, {B}, {A, B}}
  OBVIOUS
<1>2. QED
  BY <1>1 DEF Conditions

\* Which rows fail is a matter of the cells, the conditions and the last row.
LEMMA FailingOf ==
    ASSUME NEW b, NEW c, NEW state, NEW other, state.last \in Rows,
           state.conditions \in Conditions,
           other.last = state.last, other.conditions = state.conditions,
           \A p \in Cells : Get(b, p) = Get(c, p)
    PROVE  Failing(b, state) = Failing(c, other)
<1>1. ASSUME NEW r \in 1 .. state.last
      PROVE  Passes(b, state, r, None) <=> Passes(c, other, r, None)
  <2>1. r \in Rows
    BY StoreAssumption DEF Rows
  <2>2. \A col \in DOMAIN state.conditions : <<col, r>> \in Cells
    BY <2>1, ConditionsShape DEF Cells
  <2>3. QED
    BY <2>2 DEF Passes
<1>2. QED
  BY <1>1 DEF Failing

LEMMA RecomputeReady ==
    ASSUME NEW b, Writing(b), NEW state \in FilterRecords
    PROVE  Ready(Recompute(b, state))
<1> DEFINE new == [state EXCEPT !.hidden = Failing(b, state)]
           c == Recompute(b, state)
<1>1. Failing(b, state) \in SUBSET Rows
  BY StoreAssumption DEF Failing, FilterRecords, Rows
<1>2. new \in FilterRecords /\ new.last = state.last /\ new.conditions = state.conditions
      /\ new.hidden = Failing(b, state)
  BY <1>1 DEF FilterRecords
<1>3. new \in FilterType
  BY <1>2 DEF FilterType, FilterRecords
<1>4. <<new>> \in Filters1 /\ <<new>> # <<>> /\ <<new>>[1] = new
  BY <1>3 DEF Filters1
<1>5. c = [b EXCEPT !.filter = <<new>>]
  BY DEF Recompute
<1> HIDE DEF new
<1>6. c \in Batches /\ c.base = b.base /\ c.overlay = b.overlay /\ c.index = b.index
      /\ c.filter = <<new>>
  BY <1>4, <1>5 DEF Writing, Batches
<1>7. \A p \in Cells : Get(c, p) = Get(b, p)
  BY <1>6 DEF Get
<1>8. Failing(c, new) = Failing(b, state)
  BY <1>7, <1>2, FailingOf DEF FilterRecords
<1> HIDE DEF c
<1>9. \A r \in Rows : Get(c, <<A, r>>).f = None
  BY <1>7 DEF Writing, Cells
<1>10. Ready(c)
  BY <1>2, <1>4, <1>6, <1>8, <1>9 DEF Ready, Writing
<1>11. QED
  BY <1>10 DEF c

\* The filter is looked at after the cells are written.
LEMMA RecomputeReads ==
    ASSUME NEW b \in Batches, NEW state
    PROVE  \A p \in Cells : Get(Recompute(b, state), p) = Get(b, p)
BY DEF Recompute, Get, Batches

LEMMA RefilteredReady ==
    ASSUME StoreInv, NEW b, Writing(b)
    PROVE  Ready(Refiltered(b))
<1>1. CASE filter = None
  BY <1>1 DEF Refiltered, Ready, Writing
<1>2. CASE filter # None
  <2>1. filter \in FilterRecords
    BY <1>2 DEF StoreInv, Documents, FilterType, FilterRecords
  <2>2. Ready(Recompute(b, filter))
    BY <2>1, RecomputeReady
  <2>3. QED
    BY <2>2, <1>2 DEF Refiltered
<1>3. QED
  BY <1>1, <1>2

\* Remember keeps the last of the documents it is given, and at most MaxUndo.
LEMMA RememberKeepsLast ==
    ASSUME NEW S, NEW docs \in Seq(S), docs # <<>>
    PROVE  /\ Remember(docs) \in Seq(S)
           /\ Len(Remember(docs)) \in 1 .. MaxUndo
           /\ Remember(docs)[Len(Remember(docs))] = docs[Len(docs)]
<1> DEFINE n == Len(docs)
           first == IF n <= MaxUndo THEN 1 ELSE n - MaxUndo + 1
<1>1. n \in Nat \ {0} /\ MaxUndo \in Nat \ {0}
  BY StoreAssumption
<1>2. Max({1, n - MaxUndo + 1}) = first
  BY <1>1 DEF Max
<1>3. first \in 1 .. n
  BY <1>1
<1>4. Remember(docs) = SubSeq(docs, first, n)
  BY <1>2 DEF Remember
<1> HIDE DEF first
<1>5. /\ SubSeq(docs, first, n) \in Seq(S) /\ Len(SubSeq(docs, first, n)) = n - first + 1
      /\ SubSeq(docs, first, n)[n - first + 1] = docs[n]
  BY <1>1, <1>3
<1>6. n - first + 1 \in 1 .. MaxUndo
  BY <1>1 DEF first
<1>7. QED
  BY <1>4, <1>5, <1>6

\* What fresh eyes read of a document are its cells.
LEMMA FreshReads ==
    ASSUME NEW d \in [cells : [Cells -> CellType], filter : FilterType]
    PROVE  /\ \A p \in Cells : Get(Fresh(d), p) = d.cells[p]
           /\ EnsureIndex(Fresh(d)).index = Populated(d.cells)
           /\ CellsOf(EnsureIndex(Fresh(d))) = d.cells
           /\ \A p \in Cells : Get(EnsureIndex(Fresh(d)), p) = d.cells[p]
<1>1. Fresh(d) = [base |-> d, overlay |-> <<>>, filter |-> <<>>, index |-> Dirty]
  BY DEF Fresh
<1> DEFINE c == EnsureIndex(Fresh(d))
<1>2. c = [Fresh(d) EXCEPT !.index = Populated(Fresh(d).base.cells)]
  BY <1>1 DEF EnsureIndex
<1>3. c.base = d /\ c.overlay = <<>> /\ c.index = Populated(d.cells)
  BY <1>1, <1>2
<1>4. \A p \in Cells : Get(Fresh(d), p) = d.cells[p]
  BY <1>1 DEF Get
<1> HIDE DEF c
<1>5. \A p \in Cells : Get(c, p) = d.cells[p]
  BY <1>3 DEF Get
<1>6. CellsOf(c) = d.cells
  BY <1>5 DEF CellsOf
<1>7. QED
  BY <1>3, <1>4, <1>5, <1>6 DEF c

\* The document a batch ends in.
Outcome(b) == [cells |-> CellsOf(b), filter |-> IF b.filter = <<>> THEN doc.filter ELSE b.filter[1]]

LEMMA OutcomeType ==
    ASSUME StoreInv, NEW b, Ready(b)
    PROVE  Outcome(b) \in Documents
<1> DEFINE stored == IF b.filter = <<>> THEN doc.filter ELSE b.filter[1]
           new == Outcome(b)
<1>0. b \in Batches /\ b.base = doc
  BY DEF Ready
<1>1. CellsOf(b) \in [Cells -> CellType]
  BY <1>0, GetType DEF CellsOf
<1>2. stored \in FilterType
  BY <1>0 DEF Batches, Filters1, StoreInv, Documents
<1>3. new = [cells |-> CellsOf(b), filter |-> stored]
  BY DEF Outcome
<1>4. new \in [cells : [Cells -> CellType], filter : FilterType] /\ new.cells = CellsOf(b)
      /\ new.filter = stored
  BY <1>1, <1>2, <1>3
<1>5. \A p \in Cells : Get(Fresh(new), p) = Get(b, p)
  BY <1>4, FreshReads DEF CellsOf
<1> HIDE DEF new, stored
<1>6. NumbersInA(new)
  BY <1>4 DEF NumbersInA, Ready, CellsOf, Cells
<1>7. HidesFailing(new)
  <2>1. CASE b.filter = <<>> /\ filter = None
    BY <2>1, <1>4 DEF HidesFailing, stored, StoreInv
  <2>2. CASE b.filter = <<>> /\ b.overlay = <<>>
    <3>1. \A p \in Cells : Get(b, p) = doc.cells[p]
      BY <2>2, <1>0 DEF Get
    <3>2. doc.cells \in [Cells -> CellType] /\ new.cells \in [Cells -> CellType]
      BY <1>4 DEF StoreInv, Documents
    <3>3. new.cells = doc.cells
      BY <3>1, <3>2, <1>4 DEF CellsOf
    <3>4. new = doc
      <4>1. doc = [cells |-> doc.cells, filter |-> doc.filter]
        BY DEF StoreInv, Documents
      <4>2. stored = doc.filter /\ new.cells = CellsOf(b)
        BY <2>2, <1>4 DEF stored
      <4>3. QED
        BY <3>3, <4>1, <4>2, <1>3
    <3>5. QED
      BY <3>4 DEF StoreInv, Documents
  <2>3. CASE b.filter # <<>>
    <3> SUFFICES ASSUME stored # None
                 PROVE  stored.hidden = Failing(Fresh(new), stored)
      BY <1>4 DEF HidesFailing
    <3>1. stored.hidden = Failing(b, stored)
      BY <2>3 DEF Ready, stored
    <3>2. stored.last \in Rows /\ stored.conditions \in Conditions
      BY <1>2 DEF FilterType
    <3>3. Failing(b, stored) = Failing(Fresh(new), stored)
      BY <3>2, <1>5, FailingOf
    <3>4. QED
      BY <3>1, <3>3
  <2>4. QED
    BY <2>1, <2>2, <2>3 DEF Ready
<1>8. QED
  BY <1>4, <1>6, <1>7 DEF Documents, new

\* A call ends: the history takes the document as it was, or nothing has happened.
LEMMA EndOutcome ==
    ASSUME StoreInv, NEW b, Ready(b), End(b)
    PROVE  /\ doc' = Outcome(b) /\ filter' = doc'.filter
           /\ \/ doc' = doc /\ UNCHANGED <<past, future>> /\ index' \in {Dirty, Populated(doc.cells)}
              \/ past' = Remember(Append(past, doc)) /\ future' = <<>> /\ index' = Dirty
<1>0. b \in Batches /\ b.base = doc
  BY DEF Ready
<1>1. CASE Untouched(b)
  <2>1. b.overlay = <<>> /\ b.filter = <<>>
    BY <1>1 DEF Untouched
  <2>2. doc' = doc /\ UNCHANGED <<past, future>> /\ index' = b.index /\ filter' = filter
    BY <1>1, <2>1 DEF End, Flush
  <2>3. \A p \in Cells : Get(b, p) = doc.cells[p]
    BY <2>1, <1>0 DEF Get
  <2>4. CellsOf(b) = doc.cells
    BY <2>3 DEF CellsOf, StoreInv, Documents
  <2>5. doc = [cells |-> doc.cells, filter |-> doc.filter]
    BY DEF StoreInv, Documents
  <2>6. Outcome(b) = doc
    BY <2>1, <2>4, <2>5 DEF Outcome
  <2>7. b.index \in {Dirty, Populated(doc.cells)}
    BY <2>1 DEF Ready
  <2>8. QED
    BY <2>2, <2>6, <2>7 DEF StoreInv
<1>2. CASE ~Untouched(b)
  <2>1. /\ doc' = [cells |-> [p \in Cells |-> Get(b, p)],
                   filter |-> IF b.filter = <<>> THEN doc.filter ELSE b.filter[1]]
        /\ past' = Remember(Append(past, doc))
        /\ future' = <<>>
        /\ index' = Dirty
        /\ filter' = IF b.filter = <<>> THEN filter ELSE b.filter[1]
    BY <1>2 DEF End, Flush
  <2>2. doc' = Outcome(b)
    BY <2>1 DEF Outcome, CellsOf
  <2>3. filter' = doc'.filter
    BY <2>1 DEF StoreInv
  <2>4. QED
    BY <2>1, <2>2, <2>3
<1>3. QED
  BY <1>1, <1>2

LEMMA EndKeeps ==
    ASSUME StoreInv, NEW b, Ready(b), End(b), missed' \in BOOLEAN
    PROVE  StoreInv'
<1>1. doc' \in Documents
  BY OutcomeType, EndOutcome
<1>2. CASE doc' = doc /\ UNCHANGED <<past, future>> /\ index' \in {Dirty, Populated(doc.cells)}
  BY <1>1, <1>2, EndOutcome DEF StoreInv
<1>3. CASE past' = Remember(Append(past, doc)) /\ future' = <<>> /\ index' = Dirty
  <2>1. Append(past, doc) \in Seq(Documents) /\ Append(past, doc) # <<>>
    BY DEF StoreInv
  <2>2. past' \in Seq(Documents) /\ Len(past') \in 1 .. MaxUndo
    BY <2>1, <1>3, RememberKeepsLast
  <2>3. future' \in Seq(Documents) /\ Len(future') = 0
    BY <1>3
  <2>4. Len(past') + Len(future') <= MaxUndo
    BY <2>2, <2>3, StoreAssumption
  <2>5. QED
    BY <1>1, <1>3, <2>2, <2>3, <2>4, EndOutcome DEF StoreInv
<1>4. QED
  BY <1>2, <1>3, EndOutcome

-----------------------------------------------------------------------------
(* The order of a sort.                                                    *)

\* A strict total order.
Orders(R, N) ==
    /\ \A r \in N : <<r, r>> \notin R
    /\ \A r, s \in N : r # s => <<r, s>> \in R \/ <<s, r>> \in R
    /\ \A r, s, t \in N : <<r, s>> \in R /\ <<s, t>> \in R => <<r, t>> \in R

\* Every place is taken, by one, and the places are in order.
Arranges(place, N, R) ==
    /\ place \in [N -> N]
    /\ \A r, s \in N : place[r] = place[s] => r = s
    /\ \A r, s \in N : place[r] < place[s] => <<r, s>> \in R
    /\ {place[r] : r \in N} = N

\* Places that rise along a total order of the places themselves are all taken.
LEMMA RisingPlaces ==
    ASSUME NEW N \in SUBSET Int, IsFiniteSet(N), NEW R, NEW place \in [N -> N],
           Orders(R, N),
           \A r, s \in N : <<r, s>> \in R => place[r] < place[s]
    PROVE  Arranges(place, N, R)
<1>1. \A r \in N : place[r] \in Int
  OBVIOUS
<1>2. ASSUME NEW r \in N, NEW s \in N, place[r] = place[s]
      PROVE  r = s
  <2> SUFFICES ASSUME r # s PROVE FALSE
    OBVIOUS
  <2>1. <<r, s>> \in R \/ <<s, r>> \in R
    BY DEF Orders
  <2>2. place[r] < place[s] \/ place[s] < place[r]
    BY <2>1
  <2>3. QED
    BY <2>2, <1>1, <1>2
<1>3. ASSUME NEW r \in N, NEW s \in N, place[r] < place[s]
      PROVE  <<r, s>> \in R
  <2>1. r # s
    BY <1>1, <1>3
  <2>2. <<s, r>> \in R => place[s] < place[r]
    OBVIOUS
  <2>3. <<r, s>> \in R \/ <<s, r>> \in R
    BY <2>1 DEF Orders
  <2>4. QED
    BY <2>2, <2>3, <1>1, <1>3
<1> DEFINE taken == {place[r] : r \in N}
           back == [k \in taken |-> CHOOSE r \in N : place[r] = k]
<1>4. taken \in SUBSET N
  OBVIOUS
<1>5. \A r \in N : back[place[r]] = r
  BY <1>2
<1>6. back \in Surjection(taken, N)
  <2>1. \A k \in taken : back[k] \in N
    OBVIOUS
  <2>2. back \in [taken -> N]
    BY <2>1
  <2>3. \A r \in N : place[r] \in taken
    OBVIOUS
  <2> HIDE DEF taken, back
  <2>4. QED
    BY <1>5, <2>2, <2>3 DEF Surjection
<1>7. taken = N
  <2> HIDE DEF taken, back
  <2>1. IsFiniteSet(taken) /\ Cardinality(taken) <= Cardinality(N)
    BY <1>4, FS_Subset
  <2>2. Cardinality(N) <= Cardinality(taken)
    BY <1>6, <2>1, FS_Surjection
  <2>3. Cardinality(N) \in Nat /\ Cardinality(taken) \in Nat
    BY <2>1, FS_CardinalityType
  <2>4. Cardinality(N) = Cardinality(taken)
    BY <2>1, <2>2, <2>3
  <2>5. QED
    BY <1>4, <2>4, FS_Subset
<1>8. QED
  BY <1>2, <1>3, <1>7 DEF Arranges

\* The place of each element of a strict total order: how many come before.
Places(N, R) == [r \in N |-> 1 + Cardinality({s \in N : s # r /\ <<s, r>> \in R})]

LEMMA PlacesArePermuted ==
    ASSUME NEW n \in Nat, NEW N, N = 1 .. n, NEW R,
           Orders(R, N)
    PROVE  Arranges(Places(N, R), N, R)
<1> DEFINE place == Places(N, R)
           Below(r) == {s \in N : s # r /\ <<s, r>> \in R}
           count == [r \in N |-> Cardinality(Below(r))]
<1>1. IsFiniteSet(N) /\ Cardinality(N) = n
  BY FS_Interval
<1>2. ASSUME NEW r \in N
      PROVE  IsFiniteSet(Below(r)) /\ count[r] \in 0 .. n - 1
  <2>1. IsFiniteSet(N \ {r}) /\ Cardinality(N \ {r}) = n - 1
    BY <1>1, FS_RemoveElement
  <2>2. Below(r) \in SUBSET (N \ {r})
    OBVIOUS
  <2>3. IsFiniteSet(Below(r)) /\ Cardinality(Below(r)) <= n - 1
    <3> HIDE DEF Below
    <3>1. QED
      BY <2>1, <2>2, FS_Subset
  <2>4. Cardinality(Below(r)) \in Nat
    BY <2>3, FS_CardinalityType
  <2>5. count[r] = Cardinality(Below(r))
    OBVIOUS
  <2> HIDE DEF count, Below
  <2>6. QED
    BY <2>3, <2>4, <2>5
<1>3. ASSUME NEW r \in N, NEW s \in N, <<r, s>> \in R
      PROVE  count[r] < count[s]
  <2>1. ASSUME NEW t \in Below(r)
        PROVE  t \in Below(s)
    <3>1. t \in N /\ <<t, r>> \in R
      OBVIOUS
    <3>2. <<t, s>> \in R
      BY <3>1, <1>3 DEF Orders
    <3>3. t # s
      BY <3>1, <3>2 DEF Orders
    <3>4. QED
      BY <3>1, <3>2, <3>3
  <2>2. r \in Below(s) /\ r \notin Below(r)
    BY <1>3 DEF Orders
  <2>3. Below(r) # Below(s) /\ Below(r) \in SUBSET Below(s)
    BY <2>1, <2>2
  <2>4. count[s] = Cardinality(Below(s)) /\ count[r] = Cardinality(Below(r))
    OBVIOUS
  <2>5. IsFiniteSet(Below(s)) /\ count[s] \in 0 .. n - 1 /\ count[r] \in 0 .. n - 1
    BY <1>2
  <2> HIDE DEF Below, count
  <2>6. count[r] <= count[s] /\ count[r] # count[s]
    BY <2>3, <2>4, <2>5, FS_Subset
  <2>7. QED
    BY <2>5, <2>6
<1>4. \A r \in N : place[r] = 1 + count[r]
  BY DEF Places
<1>5. DOMAIN place = N /\ place = [r \in N |-> place[r]]
  BY DEF Places
<1> HIDE DEF Below, count, place
<1>6. \A r \in N : place[r] \in N
  <2>1. \A r \in N : count[r] \in 0 .. n - 1
    BY <1>2
  <2>2. QED
    BY <2>1, <1>4
<1>7. place \in [N -> N]
  BY <1>5, <1>6
<1>8. \A r, s \in N : <<r, s>> \in R => place[r] < place[s]
  <2>1. \A r \in N : count[r] \in Int
    BY <1>2
  <2>2. QED
    BY <2>1, <1>3, <1>4
<1>9. N \in SUBSET Int /\ IsFiniteSet(N)
  BY <1>1
<1>10. Arranges(place, N, R)
  BY <1>7, <1>8, <1>9, RisingPlaces
<1>11. QED
  BY <1>10 DEF place

\* What NewRow orders by is a strict total order of the rows of the filter.
LEMMA NewRowPermutes ==
    ASSUME StoreInv, filter # None, NEW col \in {A, B}, NEW ascending \in BOOLEAN
    PROVE  LET newRow == NewRow(col, ascending)
               N == 1 .. filter.last
           IN  /\ filter.last \in Nat /\ N \subseteq Rows
               /\ newRow \in [N -> N]
               /\ \A r, s \in N : newRow[r] = newRow[s] => r = s
               /\ \A r, s \in N : newRow[r] < newRow[s] => Before(col, ascending, r, s)
               /\ {newRow[r] : r \in N} = N
<1> DEFINE newRow == NewRow(col, ascending)
           N == 1 .. filter.last
           R == {p \in N \X N : Before(col, ascending, p[1], p[2])}
           value == [r \in N |-> Get(Begin, <<col, r>>).v]
<1>1. filter.last \in Nat /\ N \subseteq Rows
  <2>1. filter.last \in Rows
    BY DEF StoreInv, Documents, FilterType
  <2>2. QED
    BY <2>1, StoreAssumption DEF Rows
<1>2. \A r \in N : value[r] \in Nat \cup {Blank}
  <2>1. \A r \in N : <<col, r>> \in Cells
    BY <1>1 DEF Cells
  <2>2. Begin \in Batches
    BY BeginWrites DEF Writing
  <2>3. QED
    BY <2>1, <2>2, GetType DEF Texts
<1>3. \A r, s \in N :
         <<r, s>> \in R <=>
           \/ value[r] # Blank /\ value[s] = Blank
           \/ (value[r] = Blank <=> value[s] = Blank)
                /\ IF ascending
                   THEN (value[r] # Blank /\ value[s] # Blank /\ value[r] < value[s])
                           \/ (value[r] = value[s] /\ r < s)
                   ELSE (value[s] # Blank /\ value[r] # Blank /\ value[s] < value[r])
                           \/ (value[s] = value[r] /\ s < r)
  BY DEF Before, Precedes
<1>4. N \subseteq Nat
  BY <1>1
<1> HIDE DEF N, value, R
<1>5. \A r \in N : <<r, r>> \notin R
  BY <1>2, <1>3, <1>4
<1>6. \A r, s \in N : r # s => <<r, s>> \in R \/ <<s, r>> \in R
  BY <1>2, <1>3, <1>4, StoreAssumption
<1>7. \A r, s, t \in N : <<r, s>> \in R /\ <<s, t>> \in R => <<r, t>> \in R
  <2> SUFFICES ASSUME NEW r \in N, NEW s \in N, NEW t \in N, <<r, s>> \in R, <<s, t>> \in R
               PROVE  <<r, t>> \in R
    OBVIOUS
  <2>1. CASE ascending
    BY <2>1, <1>2, <1>3, <1>4, StoreAssumption
  <2>2. CASE ~ascending
    BY <2>2, <1>2, <1>3, <1>4, StoreAssumption
  <2>3. QED
    BY <2>1, <2>2
<1>8. newRow = Places(N, R)
  <2>1. ASSUME NEW r \in N
        PROVE  {s \in N : s # r /\ <<s, r>> \in R}
                  = {s \in N : s # r /\ Before(col, ascending, s, r)}
    BY DEF R
  <2>2. newRow = [r \in N |-> 1 + Cardinality({s \in N : s # r /\ Before(col, ascending, s, r)})]
    BY DEF NewRow, N
  <2>3. QED
    BY <2>1, <2>2 DEF Places
<1>9. Arranges(newRow, N, R)
  <2>1. Orders(R, N)
    BY <1>5, <1>6, <1>7 DEF Orders
  <2>2. N = 1 .. filter.last
    BY DEF N
  <2> HIDE DEF newRow
  <2>3. QED
    BY <1>1, <1>8, <2>1, <2>2, PlacesArePermuted
<1>10. \A r, s \in N : <<r, s>> \in R => Before(col, ascending, r, s)
  BY DEF R
<1> HIDE DEF newRow
<1>11. \A r, s \in N : newRow[r] < newRow[s] => Before(col, ascending, r, s)
  BY <1>9, <1>10 DEF Arranges
<1>12. QED
  BY <1>1, <1>9, <1>11 DEF N, newRow, Arranges

-----------------------------------------------------------------------------
(* What the calls write.                                                   *)

\* A call starts with the cells of the document, and with an index of them once
\* it has asked for it.
LEMMA BeginIndexed ==
    ASSUME StoreInv
    PROVE  LET c == EnsureIndex(Begin)
           IN  /\ c \in Batches /\ Writing(c)
               /\ \A p \in Cells : Get(c, p) = doc.cells[p]
               /\ c.index = Populated(doc.cells) /\ CellsOf(c) = doc.cells
<1> DEFINE c == EnsureIndex(Begin)
<1>1. Writing(Begin) /\ Begin \in Batches /\ Begin.base = doc /\ Begin.index = index
      /\ \A p \in Cells : Get(Begin, p) = doc.cells[p]
  BY BeginWrites DEF Writing
<1>2. /\ c \in Batches /\ Writing(c)
      /\ \A p \in Cells : Get(c, p) = Get(Begin, p)
      /\ c.index = IF Begin.index = Dirty THEN Populated(Begin.base.cells) ELSE Begin.index
  BY <1>1, EnsureIndexReads, EnsureIndexWrites
<1> HIDE DEF c
<1>3. c.index = Populated(doc.cells)
  BY <1>1, <1>2 DEF StoreInv
<1>4. doc.cells \in [Cells -> CellType]
  BY DEF StoreInv, Documents
<1>5. CellsOf(c) = doc.cells
  BY <1>1, <1>2, <1>4 DEF CellsOf
<1>6. QED
  BY <1>1, <1>2, <1>3, <1>5 DEF c

\* getGrid: the populated cells of the range.
LEMMA GridOfRange ==
    ASSUME StoreInv, NEW range
    PROVE  /\ Grid(Begin, range) = [p \in Populated(doc.cells) \cap range |-> doc.cells[p]]
           /\ DOMAIN Grid(Begin, range) = Populated(doc.cells) \cap range
<1> DEFINE known == {p \in EnsureIndex(Begin).index \cap range : Get(Begin, p) # Absent}
<1>1. EnsureIndex(Begin).index = Populated(doc.cells)
  BY BeginIndexed
<1>2. \A p \in Cells : Get(Begin, p) = doc.cells[p]
  BY BeginWrites
<1>3. known = Populated(doc.cells) \cap range
  BY <1>1, <1>2 DEF Populated
<1>4. \A p \in known : Get(Begin, p) = doc.cells[p]
  BY <1>2, <1>3 DEF Populated
<1>5. Grid(Begin, range) = [p \in known |-> Get(Begin, p)]
  BY DEF Grid
<1> HIDE DEF known
<1>6. Grid(Begin, range) = [p \in known |-> doc.cells[p]]
  BY <1>4, <1>5
<1>7. QED
  BY <1>3, <1>6

\* A sort writes every row of its range to its new place, in the columns of the
\* filter, and nothing elsewhere.
LEMMA SortWrites ==
    ASSUME StoreInv, filter # None, NEW newRow, NEW R,
           Arranges(newRow, 1 .. filter.last, R)
    PROVE  LET b == SetGrid(DeleteRange(Begin, InRange(filter.columns, filter.last)),
                            Moved(newRow))
           IN  /\ Writing(b) /\ b.index = Populated(CellsOf(b))
               /\ \A c \in filter.columns, r \in 1 .. filter.last :
                     Get(b, <<c, newRow[r]>>) = doc.cells[<<c, r>>]
               /\ \A p \in Cells \ InRange(filter.columns, filter.last) :
                     Get(b, p) = doc.cells[p]
<1> DEFINE N == 1 .. filter.last
           range == InRange(filter.columns, filter.last)
           known == Populated(doc.cells) \cap range
           grid == Grid(Begin, range)
           oldRow(r) == CHOOSE s \in DOMAIN newRow : newRow[s] = r
           to == {<<p[1], newRow[p[2]]>> : p \in DOMAIN grid}
           moved == [p \in to |-> grid[<<p[1], oldRow(p[2])>>]]
           start == EnsureIndex(Begin)
           none == [p \in start.index \cap range |-> Absent]
           cleared == SetGrid(start, none)
           b == SetGrid(DeleteRange(Begin, range), Moved(newRow))
<1>1. filter.columns \subseteq {A, B} /\ N \subseteq Rows
  BY StoreAssumption DEF StoreInv, Documents, FilterType, Rows
<1>2. range = filter.columns \X N
  BY DEF InRange
<1>3. range \subseteq Cells
  BY <1>1, <1>2 DEF Cells
<1>4. DOMAIN grid = known /\ \A p \in known : grid[p] = doc.cells[p]
  <2>1. grid = [p \in known |-> doc.cells[p]]
    BY GridOfRange
  <2> HIDE DEF grid, known
  <2>2. QED
    BY <2>1
<1>5. Moved(newRow) = moved
  BY DEF Moved
<1>6. doc.cells \in [Cells -> CellType]
  BY DEF StoreInv, Documents
<1>7. /\ DOMAIN newRow = N /\ \A r \in N : newRow[r] \in N
      /\ \A r, s \in N : newRow[r] = newRow[s] => r = s
      /\ \A k \in N : \E r \in N : newRow[r] = k
  <2>1. newRow \in [N -> N] /\ {newRow[r] : r \in N} = N
        /\ \A r, s \in N : newRow[r] = newRow[s] => r = s
    BY DEF Arranges
  <2> HIDE DEF N
  <2>2. QED
    BY <2>1
<1>8. Writing(start) /\ start \in Batches /\ start.index = Populated(doc.cells)
      /\ CellsOf(start) = doc.cells /\ \A p \in Cells : Get(start, p) = doc.cells[p]
  BY BeginIndexed
<1>9. DeleteRange(Begin, range) = cleared
  <2>1. Begin \in Batches
    BY BeginWrites DEF Writing
  <2>2. QED
    BY <2>1, DeleteRangeIsSetGrid
<1> HIDE DEF N, range, grid, start
<1>10. ASSUME NEW r \in N
       PROVE  oldRow(newRow[r]) = r
  BY <1>7
<1>11. ASSUME NEW c \in filter.columns, NEW r \in N
       PROVE  <<c, newRow[r]>> \in to <=> <<c, r>> \in known
  <2>1. ASSUME <<c, r>> \in known PROVE <<c, newRow[r]>> \in to
    <3>1. <<c, r>> \in DOMAIN grid
      BY <2>1, <1>4
    <3>2. <<<<c, r>>[1], newRow[<<c, r>>[2]]>> \in to
      BY <3>1
    <3>3. QED
      BY <3>2
  <2>2. ASSUME <<c, newRow[r]>> \in to PROVE <<c, r>> \in known
    <3>1. PICK p \in known : <<c, newRow[r]>> = <<p[1], newRow[p[2]]>>
      BY <2>2, <1>4
    <3>2. p \in filter.columns \X N
      BY <1>2
    <3>3. p[1] = c /\ p[2] = r /\ p = <<p[1], p[2]>>
      BY <3>1, <3>2, <1>7
    <3>4. QED
      BY <3>3
  <2>3. QED
    BY <2>1, <2>2
<1>12. \A q \in to : \E c \in filter.columns, r \in N : q = <<c, newRow[r]>>
  BY <1>2, <1>4
<1>13. \A c \in filter.columns, r \in N :
          <<c, newRow[r]>> \in to => moved[<<c, newRow[r]>>] = doc.cells[<<c, r>>]
  <2> SUFFICES ASSUME NEW c \in filter.columns, NEW r \in N, <<c, newRow[r]>> \in to
               PROVE  moved[<<c, newRow[r]>>] = doc.cells[<<c, r>>]
    OBVIOUS
  <2>1. moved[<<c, newRow[r]>>] = grid[<<c, oldRow(newRow[r])>>]
    OBVIOUS
  <2>2. <<c, r>> \in known
    BY <1>11
  <2>3. QED
    BY <2>1, <2>2, <1>4, <1>10
<1> HIDE DEF oldRow, to, moved
<1>14. to \in SUBSET Cells /\ moved \in [to -> CellType]
       /\ \A r \in Rows : <<A, r>> \in to => moved[<<A, r>>].f = None
  <2>1. \A c \in filter.columns, r \in N : <<c, r>> \in Cells /\ <<c, newRow[r]>> \in Cells
    BY <1>1, <1>7 DEF Cells
  <2>2. to \in SUBSET Cells
    BY <2>1, <1>12
  <2>3. ASSUME NEW q \in to
        PROVE  moved[q] \in CellType /\ (q[1] = A => moved[q].f = None)
    <3>1. PICK c \in filter.columns, r \in N : q = <<c, newRow[r]>>
      BY <1>12
    <3>2. moved[q] = doc.cells[<<c, r>>]
      BY <3>1, <1>13
    <3>3. c = A => r \in Rows /\ doc.cells[<<A, r>>].f = None
      BY <1>1 DEF StoreInv, Documents, NumbersInA
    <3>4. QED
      BY <3>1, <3>2, <3>3, <2>1, <1>6
  <2>4. moved = [q \in to |-> moved[q]]
    BY DEF moved
  <2>5. moved \in [to -> CellType]
    BY <2>3, <2>4
  <2>6. QED
    BY <2>2, <2>3, <2>5
<1>15. Wrote(start, cleared, start.index \cap range, none) /\ Writing(cleared) /\ cleared \in Batches
  <2>1. start.index \cap range \in SUBSET Cells
    BY <1>3
  <2>2. none \in [start.index \cap range -> CellType]
    BY AbsentIsACell
  <2>3. \A r \in Rows : <<A, r>> \in start.index \cap range => none[<<A, r>>].f = None
    BY AbsentIsACell
  <2> HIDE DEF none
  <2>4. QED
    BY <2>1, <2>2, <2>3, <1>8, SetGridWrites, SetGridKeepsWriting DEF Writing
<1>16. cleared.index = Populated(CellsOf(cleared))
  BY <1>8, <1>15 DEF Wrote
<1>17. \A p \in Cells : Get(cleared, p) = IF p \in known THEN Absent ELSE doc.cells[p]
  <2>1. start.index \cap range = known
    BY <1>8
  <2>2. QED
    BY <2>1, <1>8, <1>15 DEF Wrote
<1> HIDE DEF cleared, none
<1>18. b = SetGrid(cleared, moved)
  BY <1>5, <1>9
<1>19. Wrote(cleared, b, to, moved) /\ Writing(b)
  BY <1>14, <1>15, <1>18, SetGridWrites, SetGridKeepsWriting
<1>20. b.index = Populated(CellsOf(b))
  BY <1>16, <1>19 DEF Wrote
<1>21. ASSUME NEW c \in filter.columns, NEW r \in N
       PROVE  Get(b, <<c, newRow[r]>>) = doc.cells[<<c, r>>]
  <2> DEFINE q == <<c, newRow[r]>>
  <2>1. q \in Cells /\ q \in range /\ <<c, r>> \in Cells /\ <<c, r>> \in range
    BY <1>1, <1>2, <1>7 DEF Cells
  <2>2. Get(b, q) = IF q \in to THEN moved[q] ELSE Get(cleared, q)
    BY <2>1, <1>19 DEF Wrote
  <2>3. CASE q \in to
    BY <2>2, <2>3, <1>13
  <2>4. CASE q \notin to
    <3>1. doc.cells[<<c, r>>] = Absent
      BY <2>1, <2>4, <1>11 DEF Populated
    <3>2. Get(cleared, q) = Absent
      BY <2>1, <1>17 DEF Populated
    <3>3. QED
      BY <3>1, <3>2, <2>2, <2>4
  <2>5. QED
    BY <2>3, <2>4
<1>22. ASSUME NEW p \in Cells \ range
       PROVE  Get(b, p) = doc.cells[p]
  <2>1. p \notin to
    BY <1>2, <1>7, <1>12
  <2>2. Get(b, p) = Get(cleared, p)
    BY <2>1, <1>19 DEF Wrote
  <2>3. QED
    BY <2>2, <1>17
<1> HIDE DEF b
<1>23. QED
  BY <1>19, <1>20, <1>21, <1>22 DEF b, N, range

\* Typing writes one cell, and calculates with it.
LEMMA SetDataEnds ==
    ASSUME StoreInv, NEW p \in Cells, NEW v \in Texts, NEW f \in Content,
           p[1] = A => f = None, SetData(p, v, f)
    PROVE  \E b : /\ Writing(b)
                  /\ \A q \in Cells \ {p} : Get(b, q) = doc.cells[q]
                  /\ index # Dirty => b.index = Populated(CellsOf(b))
                  /\ End(Refiltered(Calculate(b, {p})))
<1> DEFINE put == SetGrid(Begin, [q \in {p} |-> Cell(v, f)])
           gone == SetGrid(Begin, [q \in {p} |-> Absent])
           b == IF v = Blank /\ f = None THEN Delete(Begin, p) ELSE Put(Begin, p, Cell(v, f))
<1>1. Writing(Begin) /\ Begin \in Batches /\ Begin.index = index
      /\ \A q \in Cells : Get(Begin, q) = doc.cells[q]
  BY BeginWrites DEF Writing
<1>2. index # Dirty => Begin.index = Populated(CellsOf(Begin))
  <2>1. CellsOf(Begin) = doc.cells
    BY <1>1 DEF CellsOf, StoreInv, Documents
  <2>2. QED
    BY <1>1, <2>1 DEF StoreInv
<1>3. ASSUME NEW cell \in CellType, p[1] = A => cell.f = None
      PROVE  LET c == SetGrid(Begin, [q \in {p} |-> cell])
             IN  /\ Writing(c)
                 /\ \A q \in Cells \ {p} : Get(c, q) = doc.cells[q]
                 /\ index # Dirty => c.index = Populated(CellsOf(c))
  <2> DEFINE grid == [q \in {p} |-> cell]
             c == SetGrid(Begin, grid)
  <2>1. {p} \in SUBSET Cells /\ grid \in [{p} -> CellType]
    OBVIOUS
  <2>2. \A r \in Rows : <<A, r>> \in {p} => grid[<<A, r>>].f = None
    BY <1>3
  <2> HIDE DEF grid
  <2>3. Writing(c) /\ Wrote(Begin, c, {p}, grid)
    BY <1>1, <2>1, <2>2, SetGridWrites, SetGridKeepsWriting
  <2> HIDE DEF c
  <2>4. \A q \in Cells \ {p} : Get(c, q) = doc.cells[q]
    BY <1>1, <2>3 DEF Wrote
  <2>5. index # Dirty => c.index = Populated(CellsOf(c))
    BY <1>2, <2>3 DEF Wrote
  <2>6. QED
    BY <2>3, <2>4, <2>5 DEF c, grid
<1>4. b = put \/ b = gone \/ b = Begin
  BY DEF Put, Delete
<1>5. Cell(v, f) \in CellType /\ Cell(v, f).f = f
  BY DEF Cell, CellType
<1>6. /\ Writing(b)
      /\ \A q \in Cells \ {p} : Get(b, q) = doc.cells[q]
      /\ index # Dirty => b.index = Populated(CellsOf(b))
  <2>1. CASE b = put
    BY <2>1, <1>3, <1>5
  <2>2. CASE b = gone
    BY <2>2, <1>3, AbsentIsACell
  <2>3. CASE b = Begin
    BY <2>3, <1>1, <1>2
  <2>4. QED
    BY <1>4, <2>1, <2>2, <2>3
<1>7. End(Refiltered(Calculate(b, {p})))
  BY DEF SetData
<1> HIDE DEF b
<1>8. QED
  BY <1>6, <1>7

\* Clearing takes away the populated cells of the selection, and calculates without
\* them; where there are none it changes nothing.
LEMMA RemoveDataEnds ==
    ASSUME StoreInv, NEW selection \in SUBSET Cells, RemoveData(selection)
    PROVE  \E b, removed :
              /\ removed \in SUBSET Cells /\ Writing(b)
              /\ \A p \in Cells \ removed : Get(b, p) = doc.cells[p]
              /\ b.index = Populated(CellsOf(b))
              /\ \/ End(Refiltered(Calculate(b, removed)))
                 \/ removed = {} /\ b.overlay = <<>> /\ End(b)
<1> DEFINE start == EnsureIndex(Begin)
           removed == DOMAIN Grid(Begin, selection)
           none == [p \in removed |-> Absent]
           b == SetGrid(start, none)
<1>1. removed = Populated(doc.cells) \cap selection
  BY GridOfRange
<1>2. removed \in SUBSET Cells
  BY <1>1
<1>3. /\ start \in Batches /\ Writing(start)
      /\ \A p \in Cells : Get(start, p) = doc.cells[p]
      /\ start.index = Populated(doc.cells) /\ CellsOf(start) = doc.cells
  BY BeginIndexed
<1>4. start.overlay = <<>>
  BY BeginWrites, EnsureIndexReads DEF Writing
<1>5. IF removed = {} THEN End(b) ELSE End(Refiltered(Calculate(b, removed)))
  BY DEF RemoveData
<1> HIDE DEF start, removed
<1>6. none \in [removed -> CellType] /\ \A r \in Rows : <<A, r>> \in removed => none[<<A, r>>].f = None
  BY AbsentIsACell
<1>7. removed = {} => b.overlay = <<>>
  <2> SUFFICES ASSUME removed = {} PROVE b.overlay = <<>>
    OBVIOUS
  <2>1. b.overlay = Over(none, start.overlay)
    <3>1. b.overlay = Over(none, start.overlay)
      <4> HIDE DEF none
      <4>1. start \in Batches
        BY <1>3
      <4>2. QED
        BY <4>1 DEF SetGrid, Batches
    <3>2. QED
      BY <3>1
  <2>2. Over(none, start.overlay) \in [{} -> CellType]
    BY <1>4 DEF Over
  <2>3. QED
    BY <2>1, <2>2, EmptyFunction
<1> HIDE DEF none
<1>8. Writing(b) /\ Wrote(start, b, removed, none)
  BY <1>2, <1>3, <1>6, SetGridWrites, SetGridKeepsWriting
<1> HIDE DEF b
<1>9. \A p \in Cells \ removed : Get(b, p) = doc.cells[p]
  BY <1>3, <1>8 DEF Wrote
<1>10. b.index = Populated(CellsOf(b))
  BY <1>3, <1>8 DEF Wrote
<1>11. End(Refiltered(Calculate(b, removed))) \/ (removed = {} /\ b.overlay = <<>> /\ End(b))
  BY <1>5, <1>7
<1>12. QED
  BY <1>2, <1>8, <1>9, <1>10, <1>11

\* A sort calculates the formulas it has written elsewhere.
SortBatch(col, ascending) ==
    SetGrid(DeleteRange(Begin, InRange(filter.columns, filter.last)), Moved(NewRow(col, ascending)))

LEMMA SortEnds ==
    ASSUME StoreInv, NEW col \in {A, B}, NEW ascending \in BOOLEAN,
           SortFilterByColumn(col, ascending)
    PROVE  LET b == SortBatch(col, ascending)
           IN  /\ filter # None /\ filter \in FilterRecords /\ col \in filter.columns
               /\ Writing(b) /\ b.index = Populated(CellsOf(b))
               /\ \A c \in filter.columns, r \in 1 .. filter.last :
                     Get(b, <<c, NewRow(col, ascending)[r]>>) = doc.cells[<<c, r>>]
               /\ \A p \in Cells \ InRange(filter.columns, filter.last) :
                     Get(b, p) = doc.cells[p]
               /\ End(Recompute(Calculate(b, FormulaGrid(b)), filter))
<1> DEFINE b == SortBatch(col, ascending)
           newRow == NewRow(col, ascending)
           N == 1 .. filter.last
<1>1. filter # None /\ col \in filter.columns /\ End(Sorted(newRow))
  BY DEF SortFilterByColumn
<1>2. filter \in FilterRecords
  BY <1>1 DEF StoreInv, Documents, FilterType, FilterRecords
<1>3. \E R : Arranges(newRow, N, R)
  <2> DEFINE R == {p \in N \X N : Before(col, ascending, p[1], p[2])}
  <2>1. /\ newRow \in [N -> N]
        /\ \A r, s \in N : newRow[r] = newRow[s] => r = s
        /\ \A r, s \in N : newRow[r] < newRow[s] => Before(col, ascending, r, s)
        /\ {newRow[r] : r \in N} = N
    BY <1>1, NewRowPermutes
  <2> HIDE DEF newRow, N
  <2>2. \A r, s \in N : newRow[r] < newRow[s] => <<r, s>> \in R
    BY <2>1
  <2> HIDE DEF R
  <2>3. Arranges(newRow, N, R)
    BY <2>1, <2>2 DEF Arranges
  <2>4. QED
    BY <2>3
<1>4. Sorted(newRow) = Recompute(Calculate(b, FormulaGrid(b)), filter)
  BY DEF Sorted, SortBatch
<1>5. b = SetGrid(DeleteRange(Begin, InRange(filter.columns, filter.last)), Moved(newRow))
  BY DEF SortBatch
<1>6. /\ Writing(b) /\ b.index = Populated(CellsOf(b))
      /\ \A c \in filter.columns, r \in N : Get(b, <<c, newRow[r]>>) = doc.cells[<<c, r>>]
      /\ \A p \in Cells \ InRange(filter.columns, filter.last) : Get(b, p) = doc.cells[p]
  <2> HIDE DEF b, newRow
  <2>1. QED
    BY <1>1, <1>3, <1>5, SortWrites
<1> HIDE DEF b
<1>7. QED
  BY <1>1, <1>2, <1>4, <1>6 DEF b

\* A call about the filter ends with the cells it started with.
LEMMA FilterEnds ==
    ASSUME StoreInv, Filter
    PROVE  \E b : Ready(b) /\ End(b) /\ \A p \in Cells : Get(b, p) = doc.cells[p]
<1>1. Writing(Begin) /\ Begin \in Batches /\ \A p \in Cells : Get(Begin, p) = doc.cells[p]
  BY BeginWrites DEF Writing
<1>2. ASSUME NEW state \in FilterRecords, End(Recompute(Begin, state))
      PROVE  \E b : Ready(b) /\ End(b) /\ \A p \in Cells : Get(b, p) = doc.cells[p]
  <2>1. Ready(Recompute(Begin, state))
    BY <1>1, RecomputeReady
  <2>2. \A p \in Cells : Get(Recompute(Begin, state), p) = Get(Begin, p)
    BY <1>1, RecomputeReads
  <2>3. QED
    BY <1>1, <1>2, <2>1, <2>2
<1>3. filter # None => filter \in FilterRecords
  BY DEF StoreInv, Documents, FilterType, FilterRecords
<1>4. ASSUME NEW range \in Filters, SetFilterRange(range)
      PROVE  \E b : Ready(b) /\ End(b) /\ \A p \in Cells : Get(b, p) = doc.cells[p]
  <2> DEFINE kept == IF filter = None THEN {} ELSE (DOMAIN filter.conditions) \cap range.columns
             conditions == [col \in kept |-> filter.conditions[col]]
             state == [columns |-> range.columns, last |-> range.last, hidden |-> {},
                       conditions |-> conditions]
  <2>1. range.columns \subseteq {A, B} /\ range.last \in Rows
    BY FiltersAssumption
  <2>2. kept \in SUBSET {A, B}
    BY <2>1
  <2>3. conditions \in [kept -> SUBSET Texts]
    <3>1. ASSUME NEW col \in kept PROVE filter.conditions[col] \in SUBSET Texts
      BY <1>3, ConditionsShape DEF FilterRecords
    <3>2. QED
      BY <3>1
  <2>4. conditions \in Conditions
    <3> HIDE DEF conditions, kept
    <3>1. QED
      BY <2>2, <2>3, ConditionsMade
  <2>5. state \in FilterRecords
    <3> HIDE DEF conditions
    <3>1. QED
      BY <2>1, <2>4 DEF FilterRecords
  <2>6. End(Recompute(Begin, state))
    BY <1>4 DEF SetFilterRange
  <2> HIDE DEF state
  <2>7. QED
    BY <1>2, <2>5, <2>6
<1>5. ASSUME ClearFilter
      PROVE  \E b : Ready(b) /\ End(b) /\ \A p \in Cells : Get(b, p) = doc.cells[p]
  <2> DEFINE b == [Begin EXCEPT !.filter = <<None>>]
  <2>1. b \in Batches /\ b.base = Begin.base /\ b.overlay = Begin.overlay
        /\ b.index = Begin.index /\ b.filter = <<None>>
    BY <1>1 DEF Batches, Filters1, FilterType
  <2>2. \A p \in Cells : Get(b, p) = Get(Begin, p)
    BY <2>1 DEF Get
  <2>3. End(b)
    BY <1>5 DEF ClearFilter
  <2> HIDE DEF b
  <2>4. Ready(b)
    <3>1. \A r \in Rows : Get(b, <<A, r>>).f = None
      BY <1>1, <2>2 DEF Writing, Cells
    <3>2. b.filter # <<>> /\ b.filter[1] = None
      BY <2>1
    <3>3. QED
      BY <1>1, <2>1, <3>1, <3>2 DEF Ready, Writing
  <2>5. QED
    BY <1>1, <2>2, <2>3, <2>4
<1>6. ASSUME NEW conditions \in Conditions, filter # None,
             End(Recompute(Begin, [filter EXCEPT !.conditions = conditions]))
      PROVE  \E b : Ready(b) /\ End(b) /\ \A p \in Cells : Get(b, p) = doc.cells[p]
  <2>1. [filter EXCEPT !.conditions = conditions] \in FilterRecords
    BY <1>3, <1>6 DEF FilterRecords
  <2>2. QED
    BY <1>2, <1>6, <2>1
<1>7. ASSUME NEW col \in {A, B}, NEW checked \in Shown, SetColumnIncludedValues(col, checked)
      PROVE  \E b : Ready(b) /\ End(b) /\ \A p \in Cells : Get(b, p) = doc.cells[p]
  <2> DEFINE rows == {r \in 1 .. filter.last : Passes(Begin, filter, r, col)}
             options == {Get(Begin, <<col, r>>).v : r \in rows}
             rest == (DOMAIN filter.conditions) \ {col}
             others == [c \in rest |-> filter.conditions[c]]
             one == [c \in {col} \cup DOMAIN others |->
                        IF c = col THEN options \cap checked ELSE others[c]]
             chosen == IF options \subseteq checked THEN others ELSE one
  <2>1. filter # None /\ End(Recompute(Begin, [filter EXCEPT !.conditions = chosen]))
    BY <1>7 DEF SetColumnIncludedValues
  <2>2. DOMAIN filter.conditions \subseteq {A, B}
        /\ \A c \in DOMAIN filter.conditions : filter.conditions[c] \in SUBSET Texts
    BY <1>3, <2>1, ConditionsShape DEF FilterRecords
  <2>3. options \in SUBSET Texts
    <3>1. filter.last \in Rows
      BY <1>3, <2>1 DEF FilterRecords
    <3>2. ASSUME NEW r \in rows PROVE Get(Begin, <<col, r>>).v \in Texts
      <4>1. <<col, r>> \in Cells
        BY <3>1, StoreAssumption DEF Cells, Rows
      <4>2. QED
        BY <4>1, <1>1, GetType
    <3>3. QED
      BY <3>2
  <2> HIDE DEF options
  <2>4. rest \in SUBSET {A, B} /\ others \in [rest -> SUBSET Texts]
    BY <2>2
  <2>5. {col} \cup rest \in SUBSET {A, B} /\ one \in [{col} \cup rest -> SUBSET Texts]
    <3>1. DOMAIN others = rest
      OBVIOUS
    <3>2. QED
      BY <2>2, <2>3, <3>1
  <2> HIDE DEF rest, others, one
  <2>6. chosen \in Conditions
    BY <2>4, <2>5, ConditionsMade
  <2> HIDE DEF chosen
  <2>7. QED
    BY <1>6, <2>1, <2>6
<1>8. ASSUME NEW col \in {A, B}, ClearColumnFilter(col)
      PROVE  \E b : Ready(b) /\ End(b) /\ \A p \in Cells : Get(b, p) = doc.cells[p]
  <2> DEFINE rest == (DOMAIN filter.conditions) \ {col}
             others == [c \in rest |-> filter.conditions[c]]
  <2>1. filter # None /\ End(Recompute(Begin, [filter EXCEPT !.conditions = others]))
    BY <1>8 DEF ClearColumnFilter
  <2>2. DOMAIN filter.conditions \subseteq {A, B}
        /\ \A c \in DOMAIN filter.conditions : filter.conditions[c] \in SUBSET Texts
    BY <1>3, <2>1, ConditionsShape DEF FilterRecords
  <2>3. rest \in SUBSET {A, B} /\ others \in [rest -> SUBSET Texts]
    BY <2>2
  <2> HIDE DEF rest, others
  <2>4. others \in Conditions
    BY <2>3, ConditionsMade
  <2>5. QED
    BY <1>6, <2>1, <2>4
<1>9. QED
  BY <1>4, <1>5, <1>7, <1>8 DEF Filter

-----------------------------------------------------------------------------
(* The calls keep the store and its filter.                                *)

LEMMA InitStore == Init => StoreInv
<1> SUFFICES ASSUME Init PROVE StoreInv
  OBVIOUS
<1>1. /\ doc = [cells |-> [p \in Cells |-> Absent], filter |-> None]
      /\ past = <<>> /\ future = <<>> /\ index = Dirty /\ filter = None /\ missed = FALSE
  BY DEF Init, StoreInit
<1>2. doc.cells = [p \in Cells |-> Absent] /\ doc.filter = None
  BY <1>1
<1>3. doc \in [cells : [Cells -> CellType], filter : FilterType]
  BY <1>1, AbsentIsACell DEF FilterType
<1>4. NumbersInA(doc)
  BY <1>2, AbsentIsACell DEF NumbersInA, Cells
<1>5. HidesFailing(doc)
  BY <1>2 DEF HidesFailing
<1>6. doc \in Documents
  BY <1>3, <1>4, <1>5 DEF Documents
<1>7. Len(past) + Len(future) <= MaxUndo /\ past \in Seq(Documents) /\ future \in Seq(Documents)
  BY <1>1, StoreAssumption
<1>8. QED
  BY <1>1, <1>2, <1>6, <1>7 DEF StoreInv

\* The last of a sequence, and those before it.
LEMMA AllButLast ==
    ASSUME NEW S, NEW docs \in Seq(S), docs # <<>>
    PROVE  /\ docs[Len(docs)] \in S
           /\ SubSeq(docs, 1, Len(docs) - 1) \in Seq(S)
           /\ Len(SubSeq(docs, 1, Len(docs) - 1)) = Len(docs) - 1
<1>1. Len(docs) \in Nat \ {0}
  OBVIOUS
<1>2. docs[Len(docs)] \in S
  BY <1>1
<1>3. \A i \in 1 .. Len(docs) - 1 : docs[i] \in S
  BY <1>1
<1>4. 1 \in Int /\ Len(docs) - 1 \in Int
  BY <1>1
<1>5. /\ SubSeq(docs, 1, Len(docs) - 1) \in Seq(S)
      /\ Len(SubSeq(docs, 1, Len(docs) - 1)) = IF 1 <= Len(docs) - 1 THEN Len(docs) - 1 - 1 + 1 ELSE 0
  BY <1>3, <1>4, SubSeqProperties
<1>6. Len(SubSeq(docs, 1, Len(docs) - 1)) = Len(docs) - 1
  <2> DEFINE n == Len(docs)
             k == Len(SubSeq(docs, 1, Len(docs) - 1))
  <2>1. n \in Nat \ {0} /\ k = IF 1 <= n - 1 THEN n - 1 - 1 + 1 ELSE 0
    BY <1>1, <1>5
  <2> HIDE DEF n, k
  <2>2. k = n - 1
    BY <2>1
  <2>3. QED
    BY <2>2 DEF n, k
<1>7. QED
  BY <1>2, <1>5, <1>6

\* Undo and redo bring back documents of the history.
LEMMA TakeBackHistory ==
    ASSUME StoreInv, NEW S, doc \in S, past \in Seq(S), future \in Seq(S), TakeBack
    PROVE  /\ doc' \in S /\ past' \in Seq(S) /\ future' \in Seq(S)
           /\ Len(past') + Len(future') = Len(past) + Len(future)
           /\ filter' = doc'.filter /\ index' = Dirty /\ missed' = missed
<1>1. CASE UndoEdit
  <2>1. /\ past # <<>>
        /\ doc' = past[Len(past)]
        /\ past' = SubSeq(past, 1, Len(past) - 1)
        /\ future' = Append(future, doc)
        /\ filter' = doc'.filter /\ index' = Dirty
    BY <1>1 DEF UndoEdit, Undo, UndoUpdate
  <2>2. Len(past) \in Nat \ {0}
    BY <2>1
  <2>3. doc' \in S /\ past' \in Seq(S) /\ Len(past') = Len(past) - 1
    BY <2>1, <2>2, AllButLast
  <2>4. future' \in Seq(S) /\ Len(future') = Len(future) + 1
    BY <2>1
  <2>5. Len(past') + Len(future') = Len(past) + Len(future)
    <3>1. Len(past) \in Nat /\ Len(future) \in Nat
      OBVIOUS
    <3>2. QED
      BY <3>1, <2>3, <2>4
  <2>6. missed' = missed
    BY DEF TakeBack
  <2>7. QED
    BY <2>1, <2>3, <2>4, <2>5, <2>6
<1>2. CASE RedoEdit
  <2>1. /\ future # <<>>
        /\ doc' = future[Len(future)]
        /\ future' = SubSeq(future, 1, Len(future) - 1)
        /\ past' = Append(past, doc)
        /\ filter' = doc'.filter /\ index' = Dirty
    BY <1>2 DEF RedoEdit, Redo, RedoUpdate
  <2>2. Len(future) \in Nat \ {0}
    BY <2>1
  <2>3. doc' \in S /\ future' \in Seq(S) /\ Len(future') = Len(future) - 1
    BY <2>1, <2>2, AllButLast
  <2>4. past' \in Seq(S) /\ Len(past') = Len(past) + 1
    BY <2>1
  <2>5. Len(past') + Len(future') = Len(past) + Len(future)
    <3>1. Len(past) \in Nat /\ Len(future) \in Nat
      OBVIOUS
    <3>2. QED
      BY <3>1, <2>3, <2>4
  <2>6. missed' = missed
    BY DEF TakeBack
  <2>7. QED
    BY <2>1, <2>3, <2>4, <2>5, <2>6
<1>3. QED
  BY <1>1, <1>2 DEF TakeBack

\* Every call of a user ends with a batch that is ready to.
LEMMA CallsEnd ==
    ASSUME StoreInv, Type \/ Clear \/ Filter \/ Sort
    PROVE  \E b : Ready(b) /\ End(b)
<1>1. CASE Type
  <2>1. PICK t \in Typed : SetData(t[1], t[2], t[3])
    BY <1>1 DEF Type
  <2>2. t[1] \in Cells /\ t[2] \in Texts /\ t[3] \in Content /\ (t[1][1] = A => t[3] = None)
    BY TypedAssumption
  <2>3. PICK b : Writing(b) /\ End(Refiltered(Calculate(b, {t[1]})))
    BY <2>1, <2>2, SetDataEnds
  <2>4. Writing(Calculate(b, {t[1]}))
    BY <2>2, <2>3, CalculateWrites
  <2>5. QED
    BY <2>3, <2>4, RefilteredReady
<1>2. CASE Clear
  <2>1. PICK selection \in Selections : RemoveData(selection)
    BY <1>2 DEF Clear
  <2>2. selection \in SUBSET Cells
    BY FiltersAssumption
  <2>3. PICK b, removed :
              /\ removed \in SUBSET Cells /\ Writing(b)
              /\ \/ End(Refiltered(Calculate(b, removed)))
                 \/ removed = {} /\ b.overlay = <<>> /\ End(b)
    BY <2>1, <2>2, RemoveDataEnds
  <2>4. CASE End(Refiltered(Calculate(b, removed)))
    BY <2>3, <2>4, CalculateWrites, RefilteredReady
  <2>5. CASE b.overlay = <<>> /\ End(b)
    BY <2>3, <2>5 DEF Writing, Ready
  <2>6. QED
    BY <2>3, <2>4, <2>5
<1>3. CASE Filter
  BY <1>3, FilterEnds
<1>4. CASE Sort
  <2>1. PICK col \in {A, B}, ascending \in BOOLEAN : SortFilterByColumn(col, ascending)
    BY <1>4 DEF Sort
  <2> DEFINE b == SortBatch(col, ascending)
  <2>2. /\ filter \in FilterRecords /\ Writing(b)
        /\ End(Recompute(Calculate(b, FormulaGrid(b)), filter))
    BY <2>1, SortEnds
  <2>3. FormulaGrid(b) \in SUBSET Cells
    BY DEF FormulaGrid
  <2> HIDE DEF b
  <2>4. Writing(Calculate(b, FormulaGrid(b)))
    BY <2>2, <2>3, CalculateWrites
  <2>5. QED
    BY <2>2, <2>4, RecomputeReady
<1>5. QED
  BY <1>1, <1>2, <1>3, <1>4

LEMMA StepStore == StoreInv /\ [Next]_vars => StoreInv'
<1> SUFFICES ASSUME StoreInv, [Next]_vars PROVE StoreInv'
  OBVIOUS
<1>1. CASE Type \/ Clear \/ Filter \/ Sort
  <2>1. missed' \in BOOLEAN
    BY <1>1 DEF Type, Clear, Filter, Sort, Missing, StoreInv
  <2>2. PICK b : Ready(b) /\ End(b)
    BY <1>1, CallsEnd
  <2>3. QED
    BY <2>1, <2>2, EndKeeps
<1>2. CASE TakeBack
  <2>1. /\ doc' \in Documents /\ past' \in Seq(Documents) /\ future' \in Seq(Documents)
        /\ Len(past') + Len(future') = Len(past) + Len(future)
        /\ filter' = doc'.filter /\ index' = Dirty /\ missed' = missed
    BY <1>2, TakeBackHistory DEF StoreInv
  <2>2. QED
    BY <2>1 DEF StoreInv
<1>3. CASE Render
  <2>1. /\ index' = EnsureIndex(Begin).index
        /\ UNCHANGED <<doc, past, future, filter, missed>>
    BY <1>3 DEF Render, Paint
  <2>2. index' = Populated(doc.cells)
    BY <2>1, BeginIndexed
  <2>3. QED
    BY <2>1, <2>2 DEF StoreInv
<1>4. CASE UNCHANGED vars
  BY <1>4 DEF vars, StoreInv
<1>5. QED
  BY <1>1, <1>2, <1>3, <1>4 DEF Next

THEOREM StoreIsKept == Spec => []StoreInv
BY InitStore, StepStore, PTL DEF Spec

\* The index of populated cells is that of the document whenever it passes for up to
\* date, and the sheet, the document and its history are of their types.
THEOREM IndexAgrees == Spec => []StoreAgrees
<1>1. StoreInv => StoreAgrees
  <2> SUFFICES ASSUME StoreInv PROVE StoreAgrees
    OBVIOUS
  <2>1. doc.cells \in [Cells -> [v : Texts, f : Content]] /\ doc.filter \in FilterType
    BY DEF StoreInv, Documents, CellType
  <2>2. Len(past) <= MaxUndo
    <3>1. Len(past) \in Nat /\ Len(future) \in Nat /\ MaxUndo \in Nat
      BY StoreAssumption DEF StoreInv
    <3>2. QED
      BY <3>1 DEF StoreInv
  <2>3. index \in (SUBSET Cells) \cup {Dirty} /\ missed \in BOOLEAN
    BY DEF StoreInv, Populated
  <2>4. IndexIsCurrent
    BY DEF StoreInv, IndexIsCurrent
  <2>5. QED
    BY <2>1, <2>2, <2>3, <2>4 DEF StoreAgrees, TypeOK, StoreInv
<1>2. QED
  BY <1>1, StoreIsKept, PTL

\* The rows a filter hides are those that fail by the values shown now, after edits
\* and the formulas they reach, sorts, undo and redo.
THEOREM HiddenRowsFail == Spec => []FilterHidesWhatFails
<1>1. StoreInv => FilterHidesWhatFails
  <2> SUFFICES ASSUME StoreInv, filter # None
               PROVE  filter.hidden = Failing(Begin, filter)
    BY DEF FilterHidesWhatFails, StoreInv
  <2>1. filter = doc.filter /\ doc \in [cells : [Cells -> CellType], filter : FilterType]
        /\ filter.hidden = Failing(Fresh(doc), filter)
    BY DEF StoreInv, Documents, HidesFailing
  <2>2. \A p \in Cells : Get(Fresh(doc), p) = Get(Begin, p)
    BY <2>1, FreshReads, BeginWrites
  <2>3. filter.last \in Rows /\ filter.conditions \in Conditions
    BY <2>1 DEF FilterType
  <2>4. Failing(Fresh(doc), filter) = Failing(Begin, filter)
    BY <2>2, <2>3, FailingOf
  <2>5. QED
    BY <2>1, <2>4
<1>2. QED
  BY <1>1, StoreIsKept, PTL

\* What a call changes, one undo takes back.
THEOREM OneUndoPerCall == Spec => CallsUndoAtOnce
<1>1. StoreInv /\ [Next]_vars
         => [doc' # doc /\ future' = <<>> /\ ~Redo => past'[Len(past')] = doc]_vars
  <2> SUFFICES ASSUME StoreInv, Next, doc' # doc, future' = <<>>, ~Redo
               PROVE  past'[Len(past')] = doc
    OBVIOUS
  <2>1. CASE Type \/ Clear \/ Filter \/ Sort
    <3>1. PICK b : Ready(b) /\ End(b)
      BY <2>1, CallsEnd
    <3>2. past' = Remember(Append(past, doc))
      BY <3>1, EndOutcome
    <3>3. /\ Append(past, doc) \in Seq(Documents) /\ Append(past, doc) # <<>>
          /\ Append(past, doc)[Len(Append(past, doc))] = doc
      BY DEF StoreInv
    <3>4. QED
      BY <3>2, <3>3, RememberKeepsLast
  <2>2. CASE TakeBack
    <3>1. CASE UndoEdit
      <4>1. future' = Append(future, doc)
        BY <3>1 DEF UndoEdit, Undo, UndoUpdate
      <4>2. Append(future, doc) # <<>>
        BY DEF StoreInv
      <4>3. QED
        BY <4>1, <4>2
    <3>2. CASE RedoEdit
      BY <3>2 DEF RedoEdit
    <3>3. QED
      BY <2>2, <3>1, <3>2 DEF TakeBack
  <2>3. CASE Render
    BY <2>3 DEF Render, Paint
  <2>4. QED
    BY <2>1, <2>2, <2>3 DEF Next
<1>2. QED
  BY <1>1, StoreIsKept, PTL DEF Spec, CallsUndoAtOnce

-----------------------------------------------------------------------------
(* Formulas.                                                               *)

\* What a formula shows, by the cells alone.
ShownBy(cells, f) ==
    IF f = Whole THEN Total([p \in {q \in {A} \X Rows : cells[q].v # Blank} |-> cells[p].v])
    ELSE cells[<<A, f>>].v

\* The index a batch reads by is that of its cells.
Knows(b) == EnsureIndex(b).index = Populated(CellsOf(b))

\* Then a formula evaluates to what the cells of column A say: there are none below
\* the used rows.
LEMMA EvaluateShows ==
    ASSUME NEW b \in Batches, Knows(b), NEW f \in Content, f # None
    PROVE  Evaluate(b, f) = ShownBy(CellsOf(b), f)
<1> DEFINE filled == {p \in Reads(b, f) : Get(b, p).v # Blank}
           cells == CellsOf(b)
           all == {q \in {A} \X Rows : cells[q].v # Blank}
<1>1. \A p \in Cells : cells[p] = Get(b, p)
  BY DEF CellsOf
<1>2. {A} \X Rows \subseteq Cells
  BY DEF Cells
<1>3. CASE f = Whole
  <2>1. Reads(b, f) = {A} \X UsedRows(b)
    BY <1>3 DEF Reads
  <2>2. ASSUME NEW q \in all
        PROVE  q \in filled
    <3>1. q \in Cells /\ q \in {A} \X Rows /\ q[2] \in Rows /\ Get(b, q).v # Blank
      BY <1>1, <1>2
    <3>2. cells[q] # Absent
      BY <3>1, <1>1, AbsentIsACell
    <3>3. q \in EnsureIndex(b).index
      BY <3>1, <3>2 DEF Knows, Populated
    <3>4. q[2] <= q[2]
      BY <3>1 DEF Rows
    <3>5. q[2] \in UsedRows(b)
      BY <3>1, <3>3, <3>4 DEF UsedRows
    <3>6. QED
      BY <3>1, <3>5, <2>1
  <2>3. ASSUME NEW p \in filled
        PROVE  p \in all
    <3>1. p \in {A} \X Rows
      BY <2>1 DEF UsedRows
    <3>2. QED
      BY <3>1, <1>1, <1>2
  <2>4. filled = all
    BY <2>2, <2>3
  <2>5. \A p \in all : Get(b, p).v = cells[p].v
    BY <1>1, <1>2
  <2>6. [p \in filled |-> Get(b, p).v] = [p \in all |-> cells[p].v]
    <3> HIDE DEF filled, all, cells
    <3>1. QED
      BY <2>4, <2>5
  <2>7. Evaluate(b, f) = Total([p \in filled |-> Get(b, p).v])
    BY <1>3 DEF Evaluate
  <2>8. ShownBy(cells, f) = Total([p \in all |-> cells[p].v])
    BY <1>3 DEF ShownBy
  <2> HIDE DEF filled, all, cells
  <2>9. Evaluate(b, f) = ShownBy(cells, f)
    BY <2>6, <2>7, <2>8
  <2>10. QED
    BY <2>9 DEF cells
<1>4. CASE f # Whole
  <2>1. <<A, f>> \in Cells
    BY <1>4, ReadsType
  <2>2. QED
    BY <1>1, <1>4, <2>1 DEF Evaluate, ShownBy
<1>5. QED
  BY <1>3, <1>4

\* Only the values of column A matter.
LEMMA ColumnDecides ==
    ASSUME NEW cells, NEW others, NEW f \in Content, f # None,
           \A r \in Rows : cells[<<A, r>>].v = others[<<A, r>>].v
    PROVE  ShownBy(cells, f) = ShownBy(others, f)
<1>1. \A q \in {A} \X Rows : cells[q].v = others[q].v
  OBVIOUS
<1> DEFINE here == {q \in {A} \X Rows : cells[q].v # Blank}
           there == {q \in {A} \X Rows : others[q].v # Blank}
<1>2. here = there /\ \A q \in here : cells[q].v = others[q].v
  BY <1>1
<1>3. [p \in here |-> cells[p].v] = [p \in there |-> others[p].v]
  <2> HIDE DEF here, there
  <2>1. QED
    BY <1>2
<1>4. CASE f = Whole
  <2>1. ShownBy(cells, f) = Total([p \in here |-> cells[p].v])
    BY <1>4 DEF ShownBy
  <2>2. ShownBy(others, f) = Total([p \in there |-> others[p].v])
    BY <1>4 DEF ShownBy
  <2> HIDE DEF here, there
  <2>3. QED
    BY <1>3, <2>1, <2>2
<1>5. CASE f # Whole
  BY <1>5, ReadsType DEF ShownBy
<1>6. QED
  BY <1>4, <1>5

\* A document is current when its formulas show what its cells say.
LEMMA CurrentMeans ==
    ASSUME NEW d \in Documents
    PROVE  Current(d) <=> \A p \in Cells : d.cells[p].f # None
                                  => d.cells[p].v = ShownBy(d.cells, d.cells[p].f)
<1>1. d \in [cells : [Cells -> CellType], filter : FilterType]
  BY DEF Documents
<1>2. \A p \in Cells : d.cells[p].f \in Content
  BY <1>1 DEF CellType
<1>3. Fresh(d) \in Batches
  BY DEF Fresh, Batches, Overlays, Filters1
<1>4. \A p \in Cells : Get(Fresh(d), p) = d.cells[p]
  BY <1>1, FreshReads
<1>5. CellsOf(Fresh(d)) = d.cells
  BY <1>1, <1>4 DEF CellsOf
<1>6. Knows(Fresh(d))
  BY <1>1, <1>5, FreshReads DEF Knows
<1>7. \A p \in Cells : d.cells[p].f # None
         => Evaluate(Fresh(d), d.cells[p].f) = ShownBy(d.cells, d.cells[p].f)
  BY <1>2, <1>3, <1>5, <1>6, EvaluateShows
<1>8. Formulas(Fresh(d)) = {p \in Cells : d.cells[p].f # None}
  BY <1>4 DEF Formulas
<1>9. QED
  BY <1>7, <1>8 DEF Current

\* A batch with an up-to-date index does not look for another.
LEMMA IndexedKnows ==
    ASSUME NEW b \in Batches, b.index = Populated(CellsOf(b))
    PROVE  EnsureIndex(b) = b /\ Knows(b)
<1>1. Populated(CellsOf(b)) \in SUBSET Cells
  BY DEF Populated
<1>2. b.index # Dirty
  BY <1>1, DirtyIsNoIndex
<1>3. QED
  BY <1>2 DEF EnsureIndex, Knows

\* After a calculation column A is as before, and so are the rows in use.
LEMMA CalculationLeaves ==
    ASSUME NEW b, Writing(b), NEW changed \in SUBSET Cells, NEW c, c = Calculate(b, changed)
    PROVE  /\ \A r \in Rows : CellsOf(c)[<<A, r>>] = CellsOf(b)[<<A, r>>]
           /\ \A p \in Cells : CellsOf(c)[p].f = CellsOf(b)[p].f
           /\ \A p \in Cells \ Due(b, changed) : CellsOf(c)[p] = CellsOf(b)[p]
           /\ Populated(CellsOf(c)) = Populated(CellsOf(b))
<1>1. b \in Batches
  BY DEF Writing
<1>2. \A p \in Cells : CellsOf(b)[p] = Get(b, p) /\ CellsOf(c)[p] = Get(c, p)
  BY DEF CellsOf
<1>3. \A p \in Cells :
        Get(c, p) = IF p \in Due(b, changed)
                    THEN Cell(Evaluate(EnsureIndex(b), Get(b, p).f), Get(b, p).f)
                    ELSE Get(b, p)
  BY CalculateWrites DEF Calculated
<1>4. \A p \in Due(b, changed) : Get(b, p).f # None
  BY <1>1, DueAreFormulas
<1>5. \A p \in Cells : Get(c, p).f = Get(b, p).f
  BY <1>3 DEF Cell
<1>6. ASSUME NEW r \in Rows
      PROVE  CellsOf(c)[<<A, r>>] = CellsOf(b)[<<A, r>>]
  <2>1. <<A, r>> \in Cells /\ Get(b, <<A, r>>).f = None
    BY DEF Writing, Cells
  <2>2. <<A, r>> \notin Due(b, changed)
    BY <2>1, <1>4
  <2>3. QED
    BY <2>1, <2>2, <1>2, <1>3
<1>7. ASSUME NEW p \in Cells
      PROVE  Get(c, p) = Absent <=> Get(b, p) = Absent
  <2>1. CASE p \in Due(b, changed)
    BY <2>1, <1>4, <1>5, AbsentIsACell
  <2>2. CASE p \notin Due(b, changed)
    BY <2>2, <1>3
  <2>3. QED
    BY <2>1, <2>2
<1>8. Populated(CellsOf(c)) = Populated(CellsOf(b))
  BY <1>2, <1>7 DEF Populated
<1>9. QED
  BY <1>2, <1>3, <1>5, <1>6, <1>8

\* A calculation from a current document, for all the cells that have changed, ends
\* in one that is current, unless the used rows have shrunk.
LEMMA EditKeepsCurrent ==
    ASSUME StoreInv, Current(doc), NEW changed \in SUBSET Cells, NEW b, Writing(b),
           \A p \in Cells \ changed : Get(b, p) = doc.cells[p],
           b.index = Populated(CellsOf(b)),
           NEW d \in Documents, d.cells = CellsOf(Calculate(b, changed)),
           UsedRows(Fresh(doc)) \subseteq UsedRows(Fresh(d))
    PROVE  Current(d)
<1> DEFINE c == Calculate(b, changed)
<1>1. b \in Batches
  BY DEF Writing
<1>2. EnsureIndex(b) = b /\ Knows(b)
  BY <1>1, IndexedKnows
<1>3. doc \in Documents
  BY DEF StoreInv
<1>4. \A p \in Cells : CellsOf(b)[p] = Get(b, p) /\ d.cells[p] = Get(c, p)
  BY DEF CellsOf
<1>5. /\ \A r \in Rows : d.cells[<<A, r>>] = CellsOf(b)[<<A, r>>]
      /\ \A p \in Cells : d.cells[p].f = CellsOf(b)[p].f
      /\ \A p \in Cells \ Due(b, changed) : d.cells[p] = CellsOf(b)[p]
      /\ Populated(d.cells) = Populated(CellsOf(b))
  BY CalculationLeaves
<1>6. \A p \in Due(b, changed) : d.cells[p].v = Evaluate(b, d.cells[p].f)
  <2>1. Calculated(b, c, changed)
    BY CalculateWrites
  <2>2. Due(b, changed) \subseteq Cells
    BY <1>1, DueAreFormulas
  <2> HIDE DEF c
  <2>3. QED
    BY <2>1, <2>2, <1>2, <1>4 DEF Calculated, Cell
<1> HIDE DEF c
<1>7. \A p \in Cells : d.cells[p].f \in Content
  BY DEF Documents, CellType
<1>8. \A f \in Content : f # None => Evaluate(b, f) = ShownBy(d.cells, f)
  <2> SUFFICES ASSUME NEW f \in Content, f # None PROVE Evaluate(b, f) = ShownBy(d.cells, f)
    OBVIOUS
  <2>1. Evaluate(b, f) = ShownBy(CellsOf(b), f)
    BY <1>1, <1>2, EvaluateShows
  <2>2. ShownBy(CellsOf(b), f) = ShownBy(d.cells, f)
    BY <1>5, ColumnDecides
  <2>3. QED
    BY <2>1, <2>2
<1>9. UsedRows(Fresh(d)) = UsedRows(b)
  <2>1. EnsureIndex(Fresh(d)).index = Populated(d.cells)
    BY FreshReads DEF Documents
  <2>2. EnsureIndex(b).index = Populated(d.cells)
    BY <1>2, <1>5
  <2>3. QED
    BY <2>1, <2>2 DEF UsedRows
<1>10. ASSUME NEW p \in Cells, d.cells[p].f # None
       PROVE  d.cells[p].v = ShownBy(d.cells, d.cells[p].f)
  <2> DEFINE f == d.cells[p].f
  <2>1. f \in Content /\ f # None
    BY <1>7, <1>10
  <2>2. CASE p \in Due(b, changed)
    BY <2>1, <2>2, <1>6, <1>8
  <2>3. CASE p \notin Due(b, changed)
    <3>1. Get(b, p).f = f /\ d.cells[p] = Get(b, p)
      BY <2>3, <1>4, <1>5
    <3>2. p \in Formulas(b)
      BY <2>1, <3>1 DEF Formulas
    <3>3. p \notin changed /\ Reads(b, f) \cap changed = {}
      BY <2>3, <3>1, <3>2, <1>2 DEF Due, Dependants
    <3>4. d.cells[p] = doc.cells[p]
      BY <3>1, <3>3
    <3>5. doc.cells[p].v = ShownBy(doc.cells, f)
      BY <1>3, <2>1, <3>4, CurrentMeans
    <3>6. ShownBy(doc.cells, f) = ShownBy(d.cells, f)
      <4>1. CASE f = Whole
        <5>1. ASSUME NEW r \in Rows
              PROVE  doc.cells[<<A, r>>].v = d.cells[<<A, r>>].v
          <6>1. <<A, r>> \in Cells /\ d.cells[<<A, r>>] = Get(b, <<A, r>>)
            BY <1>4, <1>5 DEF Cells
          <6>2. CASE <<A, r>> \notin changed
            BY <6>1, <6>2
          <6>3. CASE <<A, r>> \in changed
            <7>1. r \notin UsedRows(b)
              BY <3>3, <4>1, <6>3 DEF Reads
            <7>2. r \notin UsedRows(Fresh(doc)) /\ r \notin UsedRows(Fresh(d))
              BY <7>1, <1>9
            <7>3. EnsureIndex(Fresh(doc)).index = Populated(doc.cells)
                  /\ EnsureIndex(Fresh(d)).index = Populated(d.cells)
              BY <1>3, FreshReads DEF Documents
            <7>4. r <= r /\ <<A, r>>[2] = r
              BY DEF Rows
            <7>5. <<A, r>> \notin Populated(doc.cells) /\ <<A, r>> \notin Populated(d.cells)
              BY <7>2, <7>3, <7>4 DEF UsedRows
            <7>6. QED
              BY <7>5, <6>1 DEF Populated
          <6>4. QED
            BY <6>2, <6>3
        <5>2. QED
          BY <5>1, <2>1, ColumnDecides
      <4>2. CASE f # Whole
        <5>1. f \in Rows /\ <<A, f>> \in Cells
          BY <2>1, <4>2, ReadsType
        <5>2. <<A, f>> \notin changed
          BY <3>3, <4>2 DEF Reads
        <5>3. d.cells[<<A, f>>] = doc.cells[<<A, f>>]
          BY <5>1, <5>2, <1>4, <1>5
        <5>4. QED
          BY <5>3, <4>2 DEF ShownBy
      <4>3. QED
        BY <4>1, <4>2
    <3>7. QED
      BY <3>4, <3>5, <3>6
  <2>4. QED
    BY <2>2, <2>3
<1>11. QED
  BY <1>10, CurrentMeans

\* A sort that leaves no formula where there was none calculates them all.
LEMMA SortKeepsCurrent ==
    ASSUME NEW b, Writing(b), b.index = Populated(CellsOf(b)),
           NEW d \in Documents, d.cells = CellsOf(Calculate(b, FormulaGrid(b))),
           \A p \in Cells : d.cells[p].f # None => doc.cells[p].f # None
    PROVE  Current(d)
<1> DEFINE changed == FormulaGrid(b)
           c == Calculate(b, changed)
<1>1. b \in Batches /\ b.base = doc
  BY DEF Writing
<1>2. EnsureIndex(b) = b /\ Knows(b)
  BY <1>1, IndexedKnows
<1>3. changed \in SUBSET Cells
  BY DEF FormulaGrid
<1>4. \A p \in Cells : CellsOf(b)[p] = Get(b, p) /\ d.cells[p] = Get(c, p)
  BY DEF CellsOf
<1>5. /\ \A r \in Rows : d.cells[<<A, r>>] = CellsOf(b)[<<A, r>>]
      /\ \A p \in Cells : d.cells[p].f = CellsOf(b)[p].f
  BY <1>3, CalculationLeaves
<1>6. Calculated(b, c, changed)
  BY <1>3, CalculateWrites
<1> HIDE DEF c
<1>7. ASSUME NEW p \in Cells, d.cells[p].f # None
      PROVE  d.cells[p].v = ShownBy(d.cells, d.cells[p].f)
  <2>1. d.cells[p].f \in Content
    BY DEF Documents, CellType
  <2>2. p \in changed /\ p \in Formulas(b)
    BY <1>1, <1>4, <1>5, <1>7 DEF FormulaGrid, Formulas
  <2>3. p \in Due(b, changed)
    BY <2>2, <1>2 DEF Due
  <2>4. d.cells[p].v = Evaluate(b, d.cells[p].f)
    BY <2>3, <1>2, <1>4, <1>6 DEF Calculated, Cell
  <2>5. Evaluate(b, d.cells[p].f) = ShownBy(CellsOf(b), d.cells[p].f)
    BY <2>1, <1>1, <1>2, <1>7, EvaluateShows
  <2>6. ShownBy(CellsOf(b), d.cells[p].f) = ShownBy(d.cells, d.cells[p].f)
    BY <2>1, <1>5, <1>7, ColumnDecides
  <2>7. QED
    BY <2>4, <2>5, <2>6
<1>8. QED
  BY <1>7, CurrentMeans

CurrentDocuments == {d \in Documents : Current(d)}

\* Unless a formula was left out, every document in reach is current.
FormulasInv ==
    StoreInv /\ (~missed => /\ doc \in CurrentDocuments
                            /\ past \in Seq(CurrentDocuments)
                            /\ future \in Seq(CurrentDocuments))

\* What a call writes, and whether it leaves a formula out.
LEMMA CallKeepsCurrent ==
    ASSUME FormulasInv, NEW b, Ready(b), End(b), NEW cause \in BOOLEAN, Missing(cause),
           ~cause /\ Current(doc) => Current(doc')
    PROVE  FormulasInv'
<1>1. StoreInv' /\ missed' \in BOOLEAN
  <2>1. missed' \in BOOLEAN
    BY DEF Missing, FormulasInv, StoreInv
  <2>2. QED
    BY <2>1, EndKeeps DEF FormulasInv
<1>2. doc' \in Documents /\ past' \in Seq(Documents) /\ future' \in Seq(Documents)
  BY <1>1 DEF StoreInv
<1>3. ASSUME ~missed'
      PROVE  doc' \in CurrentDocuments /\ past' \in Seq(CurrentDocuments)
             /\ future' \in Seq(CurrentDocuments)
  <2>1. CASE \A d \in {doc'} \cup ToSet(past') \cup ToSet(future') : Current(d)
    <3>1. doc' \in CurrentDocuments
      BY <2>1, <1>2 DEF CurrentDocuments
    <3>2. ASSUME NEW docs \in Seq(Documents), \A d \in ToSet(docs) : Current(d)
          PROVE  docs \in Seq(CurrentDocuments)
      <4>1. ASSUME NEW i \in 1 .. Len(docs) PROVE docs[i] \in CurrentDocuments
        <5>1. docs[i] \in Documents /\ docs[i] \in ToSet(docs)
          BY DEF ToSet
        <5>2. QED
          BY <5>1, <3>2 DEF CurrentDocuments
      <4>2. docs = [i \in 1 .. Len(docs) |-> docs[i]] /\ Len(docs) \in Nat
        OBVIOUS
      <4>3. QED
        BY <4>1, <4>2
    <3>3. (\A d \in ToSet(past') : Current(d)) /\ (\A d \in ToSet(future') : Current(d))
      BY <2>1
    <3>4. QED
      BY <3>1, <3>2, <3>3, <1>2
  <2>2. CASE \E d \in {doc'} \cup ToSet(past') \cup ToSet(future') : ~Current(d)
    <3>1. ~missed /\ ~cause
      BY <2>2, <1>3 DEF Missing
    <3>2. doc \in CurrentDocuments /\ past \in Seq(CurrentDocuments)
          /\ future \in Seq(CurrentDocuments)
      BY <3>1 DEF FormulasInv
    <3>3. doc' \in CurrentDocuments
      BY <3>1, <3>2, <1>2 DEF CurrentDocuments
    <3>4. CASE UNCHANGED <<past, future>>
      BY <3>2, <3>3, <3>4
    <3>5. CASE past' = Remember(Append(past, doc)) /\ future' = <<>>
      <4>1. Append(past, doc) \in Seq(CurrentDocuments) /\ Append(past, doc) # <<>>
        BY <3>2
      <4>2. past' \in Seq(CurrentDocuments)
        BY <3>5, <4>1, RememberKeepsLast
      <4>3. QED
        BY <3>3, <3>5, <4>2
    <3>6. QED
      BY <3>4, <3>5, EndOutcome DEF FormulasInv
  <2>3. QED
    BY <2>1, <2>2
<1>4. QED
  BY <1>1, <1>3 DEF FormulasInv

\* The batch a call ends with, once its filter is looked at, has the cells that were
\* calculated.
LEMMA RefilteredCells ==
    ASSUME StoreInv, NEW b, Writing(b), End(Refiltered(b))
    PROVE  /\ Ready(Refiltered(b)) /\ doc' \in Documents
           /\ doc'.cells = CellsOf(b)
<1>1. Ready(Refiltered(b))
  BY RefilteredReady
<1>2. doc' = Outcome(Refiltered(b))
  BY <1>1, EndOutcome
<1>3. \A p \in Cells : Get(Refiltered(b), p) = Get(b, p)
  BY RecomputeReads DEF Refiltered, Writing
<1>4. CellsOf(Refiltered(b)) = CellsOf(b)
  BY <1>3 DEF CellsOf
<1>5. QED
  BY <1>1, <1>2, <1>4, OutcomeType DEF Outcome

LEMMA TypeKeepsCurrent ==
    ASSUME FormulasInv, Type
    PROVE  FormulasInv'
<1>1. PICK t \in Typed : SetData(t[1], t[2], t[3])
  BY DEF Type
<1>2. t[1] \in Cells /\ t[2] \in Texts /\ t[3] \in Content /\ (t[1][1] = A => t[3] = None)
  BY TypedAssumption
<1>3. PICK b : /\ Writing(b)
               /\ \A q \in Cells \ {t[1]} : Get(b, q) = doc.cells[q]
               /\ index # Dirty => b.index = Populated(CellsOf(b))
               /\ End(Refiltered(Calculate(b, {t[1]})))
  BY <1>1, <1>2, SetDataEnds DEF FormulasInv
<1> DEFINE c == Calculate(b, {t[1]})
<1>4. {t[1]} \in SUBSET Cells
  BY <1>2
<1>5. Writing(c)
  BY <1>3, <1>4, CalculateWrites
<1>6. Ready(Refiltered(c)) /\ doc' \in Documents /\ doc'.cells = CellsOf(c)
  BY <1>3, <1>5, RefilteredCells DEF FormulasInv
<1>7. ASSUME ~(index = Dirty \/ LowestCleared), Current(doc)
      PROVE  Current(doc')
  <2>1. index # Dirty /\ UsedRows(Fresh(doc)) \subseteq UsedRows(Fresh(doc'))
    BY <1>7 DEF LowestCleared
  <2>2. b.index = Populated(CellsOf(b))
    BY <2>1, <1>3
  <2>3. QED
    BY <2>1, <2>2, <1>3, <1>4, <1>6, <1>7, EditKeepsCurrent DEF FormulasInv
<1>8. Missing(index = Dirty \/ LowestCleared)
  BY DEF Type
<1>9. (index = Dirty \/ LowestCleared) \in BOOLEAN
  BY DEF LowestCleared
<1> HIDE DEF c
<1>10. QED
  BY <1>3, <1>6, <1>7, <1>8, <1>9, CallKeepsCurrent DEF c

LEMMA ClearKeepsCurrent ==
    ASSUME FormulasInv, Clear
    PROVE  FormulasInv'
<1>1. PICK selection \in Selections : RemoveData(selection)
  BY DEF Clear
<1>2. selection \in SUBSET Cells
  BY FiltersAssumption
<1>3. PICK b, removed :
              /\ removed \in SUBSET Cells /\ Writing(b)
              /\ \A p \in Cells \ removed : Get(b, p) = doc.cells[p]
              /\ b.index = Populated(CellsOf(b))
              /\ \/ End(Refiltered(Calculate(b, removed)))
                 \/ removed = {} /\ b.overlay = <<>> /\ End(b)
  BY <1>1, <1>2, RemoveDataEnds DEF FormulasInv
<1>4. Missing(LowestCleared) /\ LowestCleared \in BOOLEAN
  BY DEF Clear, LowestCleared
<1>5. CASE End(Refiltered(Calculate(b, removed)))
  <2> DEFINE c == Calculate(b, removed)
  <2>1. Writing(c)
    BY <1>3, CalculateWrites
  <2>2. Ready(Refiltered(c)) /\ doc' \in Documents /\ doc'.cells = CellsOf(c)
    BY <1>5, <2>1, RefilteredCells DEF FormulasInv
  <2>3. ASSUME ~LowestCleared, Current(doc)
        PROVE  Current(doc')
    <3>1. UsedRows(Fresh(doc)) \subseteq UsedRows(Fresh(doc'))
      BY <2>3 DEF LowestCleared
    <3>2. QED
      BY <3>1, <1>3, <2>2, <2>3, EditKeepsCurrent DEF FormulasInv
  <2> HIDE DEF c
  <2>4. QED
    BY <1>4, <1>5, <2>2, <2>3, CallKeepsCurrent DEF c
<1>6. CASE removed = {} /\ b.overlay = <<>> /\ End(b)
  <2>1. Ready(b)
    BY <1>3, <1>6 DEF Writing, Ready
  <2>2. doc' = Outcome(b) /\ b.filter = <<>>
    BY <2>1, <1>3, <1>6, EndOutcome DEF FormulasInv, Writing
  <2>3. doc' = doc
    <3>1. \A p \in Cells : Get(b, p) = doc.cells[p]
      BY <1>3, <1>6
    <3>2. CellsOf(b) = doc.cells
      BY <3>1 DEF CellsOf, FormulasInv, StoreInv, Documents
    <3>3. doc = [cells |-> doc.cells, filter |-> doc.filter]
      BY DEF FormulasInv, StoreInv, Documents
    <3>4. QED
      BY <3>2, <3>3, <2>2 DEF Outcome
  <2>4. QED
    BY <1>4, <1>6, <2>1, <2>3, CallKeepsCurrent
<1>7. QED
  BY <1>3, <1>5, <1>6

LEMMA SortStepKeepsCurrent ==
    ASSUME FormulasInv, Sort
    PROVE  FormulasInv'
<1>1. PICK col \in {A, B}, ascending \in BOOLEAN : SortFilterByColumn(col, ascending)
  BY DEF Sort
<1> DEFINE b == SortBatch(col, ascending)
           c == Calculate(b, FormulaGrid(b))
<1>2. /\ filter # None /\ filter \in FilterRecords /\ Writing(b)
      /\ b.index = Populated(CellsOf(b)) /\ End(Recompute(c, filter))
  BY <1>1, SortEnds DEF FormulasInv
<1>3. FormulaGrid(b) \in SUBSET Cells
  BY DEF FormulaGrid
<1>4. Missing(FormulaLands) /\ FormulaLands \in BOOLEAN
  BY DEF Sort, FormulaLands
<1> HIDE DEF b
<1>5. Writing(c)
  BY <1>2, <1>3, CalculateWrites
<1>6. Refiltered(c) = Recompute(c, filter)
  BY <1>2 DEF Refiltered
<1>7. Ready(Refiltered(c)) /\ End(Refiltered(c)) /\ doc' \in Documents /\ doc'.cells = CellsOf(c)
  BY <1>2, <1>5, <1>6, RefilteredCells DEF FormulasInv
<1>8. ASSUME ~FormulaLands
      PROVE  Current(doc')
  <2>1. \A p \in Cells : doc'.cells[p].f # None => doc.cells[p].f # None
    BY <1>8 DEF FormulaLands
  <2>2. QED
    BY <2>1, <1>2, <1>7, SortKeepsCurrent
<1> HIDE DEF c
<1>9. QED
  BY <1>4, <1>7, <1>8, CallKeepsCurrent

LEMMA StepFormulas == FormulasInv /\ [Next]_vars => FormulasInv'
<1> SUFFICES ASSUME FormulasInv, [Next]_vars PROVE FormulasInv'
  OBVIOUS
<1>0. StoreInv /\ StoreInv'
  BY StepStore DEF FormulasInv
<1>1. CASE Filter
  <2>1. PICK b : Ready(b) /\ End(b) /\ \A p \in Cells : Get(b, p) = doc.cells[p]
    BY <1>0, <1>1, FilterEnds
  <2>2. doc' = Outcome(b)
    BY <1>0, <2>1, EndOutcome
  <2>3. doc'.cells = doc.cells
    BY <2>1, <2>2, <1>0 DEF Outcome, CellsOf, StoreInv, Documents
  <2>4. doc \in Documents /\ doc' \in Documents
    BY <1>0 DEF StoreInv
  <2>5. Current(doc) => Current(doc')
    <3>1. PICK d \in Documents : d = doc'
      BY <2>4
    <3>2. d.cells = doc.cells
      BY <2>3, <3>1
    <3>3. Current(doc) => Current(d)
      BY <3>2, <2>4, CurrentMeans
    <3>4. QED
      BY <3>1, <3>3
  <2>6. missed' = missed
    BY <1>1 DEF Filter
  <2>7. CASE missed
    BY <2>6, <2>7, <1>0 DEF FormulasInv
  <2>8. CASE ~missed
    <3>1. doc \in CurrentDocuments /\ past \in Seq(CurrentDocuments)
          /\ future \in Seq(CurrentDocuments)
      BY <2>8 DEF FormulasInv
    <3>2. doc' \in CurrentDocuments
      BY <3>1, <2>4, <2>5 DEF CurrentDocuments
    <3>3. CASE UNCHANGED <<past, future>>
      BY <3>1, <3>2, <3>3, <1>0 DEF FormulasInv
    <3>4. CASE past' = Remember(Append(past, doc)) /\ future' = <<>>
      <4>1. Append(past, doc) \in Seq(CurrentDocuments) /\ Append(past, doc) # <<>>
        BY <3>1
      <4>2. past' \in Seq(CurrentDocuments)
        BY <3>4, <4>1, RememberKeepsLast
      <4>3. QED
        BY <3>2, <3>4, <4>2, <1>0 DEF FormulasInv
    <3>5. QED
      BY <3>3, <3>4, <1>0, <2>1, EndOutcome
  <2>9. QED
    BY <2>7, <2>8
<1>2. CASE TakeBack
  <2>1. missed' = missed
    BY <1>2 DEF TakeBack
  <2>2. CASE missed
    BY <2>1, <2>2, <1>0 DEF FormulasInv
  <2>3. CASE ~missed
    <3>1. doc' \in CurrentDocuments /\ past' \in Seq(CurrentDocuments)
          /\ future' \in Seq(CurrentDocuments)
      BY <2>3, <1>0, <1>2, TakeBackHistory DEF FormulasInv
    <3>2. QED
      BY <3>1, <1>0 DEF FormulasInv
  <2>4. QED
    BY <2>2, <2>3
<1>3. CASE Render
  BY <1>0, <1>3 DEF Render, Paint, FormulasInv
<1>4. CASE UNCHANGED vars
  BY <1>0, <1>4 DEF vars, FormulasInv
<1>5. QED
  BY <1>1, <1>2, <1>3, <1>4, TypeKeepsCurrent, ClearKeepsCurrent, SortStepKeepsCurrent DEF Next

\* Every formula shows what it evaluates to, unless an edit came before the repaint,
\* took away the lowest cells or sorted a formula to where there was none.
THEOREM FormulasShowCells == Spec => []FormulasAreCurrent
<1>1. Init => FormulasInv
  <2> SUFFICES ASSUME Init PROVE FormulasInv
    OBVIOUS
  <2>1. StoreInv /\ doc \in Documents
    BY InitStore DEF StoreInv
  <2>2. doc = [cells |-> [p \in Cells |-> Absent], filter |-> None] /\ past = <<>> /\ future = <<>>
    BY DEF Init, StoreInit
  <2>3. \A p \in Cells : doc.cells[p].f = None
    BY <2>2, AbsentIsACell
  <2>4. Current(doc)
    BY <2>1, <2>3, CurrentMeans
  <2>5. QED
    BY <2>1, <2>2, <2>4 DEF FormulasInv, CurrentDocuments
<1>2. FormulasInv => FormulasAreCurrent
  BY DEF FormulasInv, FormulasAreCurrent, CurrentDocuments
<1>3. QED
  BY <1>1, <1>2, StepFormulas, PTL DEF Spec

-----------------------------------------------------------------------------
(* Sorts.                                                                  *)

\* What a sort leaves at the new place of a row: its formulas, and its values where
\* there are none.
LEMMA SortMoves ==
    ASSUME StoreInv, NEW col \in {A, B}, NEW ascending \in BOOLEAN,
           SortFilterByColumn(col, ascending)
    PROVE  LET newRow == NewRow(col, ascending)
               N == 1 .. filter.last
           IN  /\ filter # None /\ col \in filter.columns /\ filter.columns \subseteq {A, B}
               /\ \A r \in N, c \in filter.columns :
                     LET old == doc.cells[<<c, r>>]
                         new == doc'.cells[<<c, newRow[r]>>]
                     IN  new.f = old.f /\ (old.f = None => new.v = old.v)
<1> DEFINE newRow == NewRow(col, ascending)
           N == 1 .. filter.last
           b == SortBatch(col, ascending)
           after == Calculate(b, FormulaGrid(b))
<1>1. /\ filter # None /\ filter \in FilterRecords /\ col \in filter.columns
      /\ Writing(b)
      /\ \A c \in filter.columns, r \in N : Get(b, <<c, newRow[r]>>) = doc.cells[<<c, r>>]
      /\ End(Recompute(after, filter))
  BY SortEnds
<1>2. FormulaGrid(b) \in SUBSET Cells
  BY DEF FormulaGrid
<1> HIDE DEF b
<1>3. Writing(after)
  BY <1>1, <1>2, CalculateWrites
<1>4. Refiltered(after) = Recompute(after, filter)
  BY <1>1 DEF Refiltered
<1>5. doc'.cells = CellsOf(after)
  BY <1>1, <1>3, <1>4, RefilteredCells
<1>6. /\ \A p \in Cells : CellsOf(after)[p].f = CellsOf(b)[p].f
      /\ \A p \in Cells \ Due(b, FormulaGrid(b)) : CellsOf(after)[p] = CellsOf(b)[p]
  BY <1>1, <1>2, CalculationLeaves
<1>7. \A p \in Due(b, FormulaGrid(b)) : Get(b, p).f # None
  BY <1>1, <1>2, DueAreFormulas DEF Writing
<1>8. \A p \in Cells : CellsOf(b)[p] = Get(b, p)
  BY DEF CellsOf
<1>9. filter.columns \subseteq {A, B} /\ N \subseteq Rows /\ newRow \in [N -> N]
  BY <1>1, NewRowPermutes DEF FilterRecords
<1> HIDE DEF N, newRow, after
<1>10. ASSUME NEW r \in N, NEW c \in filter.columns
       PROVE  LET old == doc.cells[<<c, r>>]
                  new == doc'.cells[<<c, newRow[r]>>]
              IN  new.f = old.f /\ (old.f = None => new.v = old.v)
  <2> DEFINE q == <<c, newRow[r]>>
  <2>1. q \in Cells
    BY <1>9 DEF Cells
  <2>2. Get(b, q) = doc.cells[<<c, r>>]
    BY <1>1
  <2> HIDE DEF q
  <2>3. doc'.cells[q].f = doc.cells[<<c, r>>].f
    BY <2>1, <2>2, <1>5, <1>6, <1>8
  <2>4. doc.cells[<<c, r>>].f = None => doc'.cells[q].v = doc.cells[<<c, r>>].v
    BY <2>1, <2>2, <1>5, <1>6, <1>7, <1>8
  <2>5. QED
    BY <2>3, <2>4 DEF q
<1>11. QED
  BY <1>1, <1>9, <1>10 DEF N, newRow

\* A sort puts every row of the range in a place of its own, cells of a row together,
\* and leaves the numbers it sorts by in order, with the empty rows last.
THEOREM SortsKeepWholeRows == Spec => SortsKeepRows
<1>1. StoreInv /\ Next =>
        \A col \in {A, B}, ascending \in BOOLEAN :
          doc.cells # doc'.cells /\ SortFilterByColumn(col, ascending) =>
            /\ \E newRow \in [1 .. filter.last -> 1 .. filter.last] : Rearranged(newRow)
            /\ col = A => \A r \in 1 .. filter.last - 1 :
                  LET v == doc'.cells[<<A, r>>].v
                      w == doc'.cells[<<A, r + 1>>].v
                  IN  w # Blank => v # Blank /\ (IF ascending THEN v <= w ELSE w <= v)
  <2> SUFFICES ASSUME StoreInv, NEW col \in {A, B}, NEW ascending \in BOOLEAN,
                      SortFilterByColumn(col, ascending)
               PROVE  /\ \E newRow \in [1 .. filter.last -> 1 .. filter.last] : Rearranged(newRow)
                      /\ col = A => \A r \in 1 .. filter.last - 1 :
                            LET v == doc'.cells[<<A, r>>].v
                                w == doc'.cells[<<A, r + 1>>].v
                            IN  w # Blank => v # Blank /\ (IF ascending THEN v <= w ELSE w <= v)
    OBVIOUS
  <2> DEFINE newRow == NewRow(col, ascending)
             N == 1 .. filter.last
  <2>1. /\ filter # None /\ col \in filter.columns /\ filter.columns \subseteq {A, B}
        /\ \A r \in N, c \in filter.columns :
              /\ doc'.cells[<<c, newRow[r]>>].f = doc.cells[<<c, r>>].f
              /\ doc.cells[<<c, r>>].f = None
                    => doc'.cells[<<c, newRow[r]>>].v = doc.cells[<<c, r>>].v
    BY SortMoves
  <2>2. /\ filter.last \in Nat /\ N \subseteq Rows /\ newRow \in [N -> N]
        /\ \A r, s \in N : newRow[r] < newRow[s] => Before(col, ascending, r, s)
        /\ {newRow[r] : r \in N} = N
    BY <2>1, NewRowPermutes
  <2>3. \E new \in [N -> N] : Rearranged(new)
    <3> HIDE DEF newRow, N
    <3>1. Rearranged(newRow)
      BY <2>1, <2>2 DEF Rearranged
    <3>2. QED
      BY <2>2, <3>1
  <2>4. ASSUME col = A, NEW r \in 1 .. filter.last - 1, doc'.cells[<<A, r + 1>>].v # Blank
        PROVE  LET v == doc'.cells[<<A, r>>].v
                   w == doc'.cells[<<A, r + 1>>].v
               IN  v # Blank /\ (IF ascending THEN v <= w ELSE w <= v)
    <3>1. r \in N /\ r + 1 \in N /\ r < r + 1
      BY <2>2
    <3> HIDE DEF newRow, N
    <3>2. PICK s \in N, t \in N : newRow[s] = r /\ newRow[t] = r + 1
      BY <2>2, <3>1
    <3>3. Before(A, ascending, s, t)
      BY <2>2, <2>4, <3>1, <3>2
    <3>4. /\ <<A, s>> \in Cells /\ <<A, t>> \in Cells
          /\ doc.cells[<<A, s>>].f = None /\ doc.cells[<<A, t>>].f = None
          /\ doc.cells \in [Cells -> CellType]
      BY <2>2 DEF Cells, StoreInv, Documents, NumbersInA
    <3> DEFINE v == doc.cells[<<A, s>>].v
               w == doc.cells[<<A, t>>].v
    <3>5. doc'.cells[<<A, r>>].v = v /\ doc'.cells[<<A, r + 1>>].v = w
      BY <2>1, <2>4, <3>2, <3>4
    <3>6. v \in Nat \cup {Blank} /\ w \in Nat \cup {Blank}
      BY <3>4 DEF CellType, Texts
    <3>7. Get(Begin, <<A, s>>).v = v /\ Get(Begin, <<A, t>>).v = w
      BY <3>4, BeginWrites
    <3> HIDE DEF v, w
    <3>8. \/ v # Blank /\ w = Blank
          \/ (v = Blank <=> w = Blank) /\ IF ascending THEN Precedes(v, s, w, t)
                                          ELSE Precedes(w, t, v, s)
      BY <3>3, <3>7 DEF Before
    <3>9. v # Blank /\ (IF ascending THEN v <= w ELSE w <= v)
      BY <2>4, <3>5, <3>6, <3>8 DEF Precedes
    <3>10. QED
      BY <3>5, <3>9
  <2>5. QED
    BY <2>3, <2>4
<1>2. QED
  BY <1>1, StoreIsKept, PTL DEF Spec, SortsKeepRows
=============================================================================
