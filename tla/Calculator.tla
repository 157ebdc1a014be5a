----------------------------- MODULE Calculator -----------------------------
(***************************************************************************)
(* The formulas of one worksheet: what is evaluated again after an edit,   *)
(* in which order, and what an array formula writes around itself          *)
(* (packages/sheets, calculator.ts and the edits of sheet.ts).             *)
(*                                                                         *)
(* A formula reads cells and writes itself, or itself and neighbours: the  *)
(* sum of what it reads, or its transposition, whose cells below or beside *)
(* the formula are ghosts of it.  A number is zero or not; every error is  *)
(* one error.  A cell of another worksheet can be read, but is no node of  *)
(* the graph of dependants.  An edit runs to its end without giving way to *)
(* another, as the store answers at once.                                  *)
(***************************************************************************)
EXTENDS Naturals, Sequences, FiniteSets, SequencesExt, Lists

CONSTANTS
    Cells,        \* the cells of this worksheet
    Outside,      \* cells of another worksheet
    Inputs,       \* what users type: sequence of pairs <<cell, formula or number>>
    Selections,   \* what users select to remove, in the order of the grid
    Orders,       \* orders in which the store can list the formulas
    None, Blank, Zero, Number, Error

Formulas == {Inputs[n][2] : n \in DOMAIN Inputs} \ {Number, Blank}

ASSUME CellsAssumption == IsFiniteSet(Cells \cup Outside) /\ Cells \cap Outside = {}
ASSUME NamesAssumption ==
    Cardinality({Blank, Zero, Number, Error}) = 4 /\ None \notin Cells \cup Formulas
\* A formula writes the cell it is typed into first, and an array formula a value for
\* every cell it reads.
ASSUME InputsAssumption ==
    \A n \in DOMAIN Inputs :
        LET p == Inputs[n][1]
            f == Inputs[n][2]
        IN  /\ p \in Cells
            /\ f \in Formulas =>
                  /\ f \in [reads : Seq(Cells \cup Outside), over : Seq(Cells)]
                  /\ f.over # <<>> /\ f.over[1] = p
                  /\ \A i, j \in DOMAIN f.over : f.over[i] = f.over[j] => i = j
                  /\ Len(f.over) > 1 => Len(f.reads) = Len(f.over)
ASSUME SheetAssumption ==
    /\ Selections \subseteq Seq(Cells)
    /\ \A order \in Orders :
          /\ order \in Seq(Cells) /\ Elements(order) = Cells
          /\ \A i, j \in DOMAIN order : order[i] = order[j] => i = j

VARIABLES
    cells,        \* the cells of the worksheet and of the other one
    blockers,     \* spillBlockers: blocking cell -> anchor it blocks
    typed,        \* history: what the users have put in a cell
    circular      \* history: there has been a circular reference

Values == {Blank, Zero, Number, Error}

\* over: the cells the formula writes, itself first.  spilled: spillRows is set.
Content(v, f) == [v |-> v, f |-> f, ghostOf |-> None, spilled |-> FALSE, blocked |-> FALSE]
Empty == Content(Blank, None)
Ghost(v, anchor) == [Empty EXCEPT !.v = v, !.ghostOf = anchor]

HasFormula(cs, p) == p \in Cells /\ cs[p].f # None
Reads(cs, p) == ToSet(cs[p].f.reads)

-----------------------------------------------------------------------------
(* The graph of dependants.                                                *)

\* buildDependantsMap: of every cell, the formulas that read it.
Dependants(cs, order) ==
    [p \in Cells |-> Omitting(order, {q \in Cells : ~(HasFormula(cs, q) /\ p \in Reads(cs, q))})]

Searches ==
    [sorted : Seq(Cells), cycled : SUBSET Cells, visited : SUBSET Cells, stack : SUBSET Cells]

(* Mutant: a cell that is met again is not looked for on the path. *)
VisitUnmarked(search, ref, dependants, dfs) ==
    LET calls == dependants[ref]
        below[n \in 0 .. Len(calls)] ==
            IF n = 0 THEN [search EXCEPT !.visited = @ \cup {ref}]
            ELSE dfs[calls[n]][below[n - 1]]
    IN  IF ref \in search.visited THEN search
        ELSE [below[Len(calls)] EXCEPT !.sorted = <<ref>> \o @]
\* dfs of topologicalSort, which calls itself.  A cell met again on the path marks the
\* whole path, and leaves it.
Visit(search, ref, dependants, dfs) ==
    LET marked  == IF ref \in search.stack THEN [search EXCEPT !.cycled = @ \cup search.stack]
                   ELSE search
        entered == [marked EXCEPT !.stack = @ \cup {ref}]
        calls   == dependants[ref]
        below[n \in 0 .. Len(calls)] ==
            IF n = 0 THEN [entered EXCEPT !.visited = @ \cup {ref}]
            ELSE dfs[calls[n]][below[n - 1]]
        left    == IF ref \in search.visited THEN entered
                   ELSE [below[Len(calls)] EXCEPT !.sorted = <<ref>> \o @]
    IN  [left EXCEPT !.stack = @ \ {ref}]

\* No path is longer than there are cells, as only a cell not visited before goes deeper.
TopologicalSort(dependants, refs) ==
    LET deepest == Cardinality(Cells) + 1
        dfs[depth \in 0 .. deepest] ==
            [ref \in Cells |-> [search \in Searches |->
                IF depth = 0 THEN search ELSE Visit(search, ref, dependants, dfs[depth - 1])]]
        upTo[n \in 0 .. Len(refs)] ==
            IF n = 0 THEN [sorted |-> <<>>, cycled |-> {}, visited |-> {}, stack |-> {}]
            ELSE dfs[deepest][refs[n]][upTo[n - 1]]
    IN  upTo[Len(refs)]

-----------------------------------------------------------------------------
(* Evaluation.                                                             *)

Spills(f) == Len(f.over) > 1
\* The cells around the formula it spills over.
Around(f) == Tail(f.over)

\* evaluateWithSpill: a value for every cell the formula writes.
Evaluate(cs, f) ==
    LET read == [n \in DOMAIN f.reads |-> cs[f.reads[n]].v]
    IN  IF Spills(f) THEN [n \in DOMAIN read |-> IF read[n] = Blank THEN Zero ELSE read[n]]
        ELSE IF Len(read) = 1 THEN read
        ELSE <<CASE Error \in ToSet(read) -> Error
                 [] Error \notin ToSet(read) /\ Number \in ToSet(read) -> Number
                 [] OTHER -> Zero>>

(* Mutant: whatever stands where the spill was is deleted. *)
WithoutGhostsOfAnybody(cs, anchor) ==
    IF ~cs[anchor].spilled \/ cs[anchor].blocked THEN cs
    ELSE [p \in DOMAIN cs |-> IF p \in ToSet(Around(cs[anchor].f)) THEN Empty ELSE cs[p]]
\* The ghosts of an anchor go, the cells of others stay.
WithoutGhosts(cs, anchor) ==
    IF ~cs[anchor].spilled \/ cs[anchor].blocked THEN cs
    ELSE [p \in DOMAIN cs |->
            IF p \in ToSet(Around(cs[anchor].f)) /\ cs[p].ghostOf = anchor
            THEN Empty ELSE cs[p]]

\* clearSpillBlockers
WithoutBlockers(bs, anchor) == [p \in {q \in DOMAIN bs : bs[q] # anchor} |-> bs[p]]

\* What a user typed is in the way of a spill; ghosts of others are not.
InTheWay(cs, p) == (cs[p].v # Blank \/ cs[p].f # None) /\ cs[p].ghostOf = None

\* One formula of the loop of calculate; st is the cells and the blockers.
Spill(st, ref) ==
    LET f == st.cells[ref].f
        first == SelectInSeq(Around(f), LAMBDA p : InTheWay(st.cells, p))
        blocking == Around(f)[first]
        values == Evaluate(st.cells, f)
        at(p) == values[SelectInSeq(f.over, LAMBDA q : q = p)]
    IN  IF first # 0
        THEN [cells |-> [st.cells EXCEPT ![ref] =
                            [Content(Error, f) EXCEPT !.spilled = TRUE, !.blocked = TRUE]],
              blockers |-> [p \in DOMAIN st.blockers \cup {blocking} |->
                              IF p = blocking THEN ref ELSE st.blockers[p]]]
        ELSE [cells |-> [p \in DOMAIN st.cells |->
                            IF p = ref THEN [Content(at(p), f) EXCEPT !.spilled = TRUE]
                            ELSE IF p \in ToSet(f.over) THEN Ghost(at(p), ref)
                            ELSE st.cells[p]],
              blockers |-> WithoutBlockers(st.blockers, ref)]

Calculated(st, ref, cycled) ==
    IF ~HasFormula(st.cells, ref) THEN st
    ELSE LET cell == st.cells[ref]
             cleared == [st EXCEPT !.cells = WithoutGhosts(@, ref)]
             Became(s, v) == IF cell.v = v THEN s
                             ELSE [s EXCEPT !.cells[ref] = Content(v, cell.f)]
         IN  IF ref \in cycled THEN Became(st, Error)
             ELSE IF Spills(cell.f) THEN Spill(cleared, ref)
             ELSE Became(cleared, Evaluate(cleared.cells, cell.f)[1])

Calculate(st, dependants, refs) ==
    LET search == TopologicalSort(dependants, refs)
        upTo[n \in 0 .. Len(search.sorted)] ==
            IF n = 0 THEN st ELSE Calculated(upTo[n - 1], search.sorted[n], search.cycled)
    IN  upTo[Len(search.sorted)]

-----------------------------------------------------------------------------
(* The edits.                                                              *)

\* What every cell reads, and the cells before and behind those in ps.
Reading(cs) == [p \in Cells |-> IF HasFormula(cs, p) THEN Reads(cs, p) ELSE {}]
Closure(reading, ps) ==
    LET back[qs \in SUBSET (Cells \cup Outside)] ==
            LET more == qs \cup UNION {reading[q] : q \in qs \cap Cells}
            IN  IF more = qs THEN qs ELSE back[more]
    IN  back[ps]
Upstream(cs, p) == Closure(Reading(cs), Reading(cs)[p])
Circular(cs) == {p \in Cells : p \in Upstream(cs, p)}

\* The cell goes with the ghosts it had, or with what its spill waited for.
Vacated(st, p) ==
    [cells |-> [WithoutGhosts(st.cells, p) EXCEPT ![p] = Empty],
     blockers |-> IF st.cells[p].spilled THEN WithoutBlockers(st.blockers, p)
                  ELSE st.blockers]
\* consumeSpillBlocker: the anchors p blocked, and the blockers without p.
Waiting(bs, p) == IF p \in DOMAIN bs THEN <<bs[p]>> ELSE <<>>
Consumed(bs, p) == [q \in DOMAIN bs \ {p} |-> bs[q]]

\* setData: a ghost cannot be edited.  The anchor the cell blocked is tried again,
\* but its dependants are forgotten.
Set(st, p, input, order) ==
    LET content == IF input \in Formulas THEN Content(Blank, input) ELSE Content(input, None)
        filled  == [Vacated(st, p) EXCEPT !.cells[p] = content]
        retry   == Waiting(filled.blockers, p)
        listed  == Dependants(filled.cells, order)
    IN  Calculate([filled EXCEPT !.blockers = Consumed(@, p)],
                  [q \in Cells |-> IF q \in ToSet(retry) THEN <<>> ELSE listed[q]],
                  <<p>> \o retry)

Become(st, changed, input) ==
    /\ cells' = st.cells
    /\ blockers' = st.blockers
    /\ typed' = [q \in Cells |-> IF q \in changed THEN input ELSE typed[q]]
    /\ circular' = (circular \/ Circular(st.cells) # {})

SetData(p, input, order) ==
    IF cells[p].ghostOf # None THEN UNCHANGED <<cells, blockers, typed, circular>>
    ELSE Become(Set([cells |-> cells, blockers |-> blockers], p, input, order), {p}, input)

\* The cells go one after the other, and with them what they blocked is to be tried again.
Emptied(st, removed) ==
    LET upTo[n \in 0 .. Len(removed)] ==
            IF n = 0 THEN [st |-> st, retry |-> <<>>]
            ELSE LET p    == removed[n]
                     left == Vacated(upTo[n - 1].st, p)
                 IN  [st |-> [left EXCEPT !.blockers = Consumed(@, p)],
                      retry |-> upTo[n - 1].retry \o Waiting(left.blockers, p)]
    IN  upTo[Len(removed)]

\* removeData: the cells of the selection that hold something and are no ghosts.
RemoveData(selection, order) ==
    LET removed == Omitting(selection, {p \in Cells : ~InTheWay(cells, p)})
        after   == Emptied([cells |-> cells, blockers |-> blockers], removed)
    IN  IF removed = <<>> THEN UNCHANGED <<cells, blockers, typed, circular>>
        ELSE Become(Calculate(after.st, Dependants(after.st.cells, order),
                              removed \o after.retry), ToSet(removed), Blank)

-----------------------------------------------------------------------------
(* Properties.                                                             *)

CellType ==
    [v : Values, f : Formulas \cup {None}, ghostOf : Cells \cup {None},
     spilled : BOOLEAN, blocked : BOOLEAN]

\* Cells a formula of the sheet can spill over, itself included.
SpillCells == UNION {ToSet(f.over) : f \in {g \in Formulas : Spills(g)}}

\* As long as nobody has made a circular reference, a formula shows what it
\* evaluates to, whatever was typed and removed and in whatever order the store
\* lists formulas; formulas that read a spill, at any distance, excepted, and
\* cells of other worksheets, which are up to the view.
FormulasAreCurrent ==
    ~circular =>
        \A p \in Cells :
            HasFormula(cells, p) /\ ~Spills(cells[p].f)
                /\ Upstream(cells, p) \cap (SpillCells \cup Outside) = {}
                => cells[p].v = Evaluate(cells, cells[p].f)[1]

\* A cell of a circular reference shows an error, also where two circles meet, unless a
\* spill is behind it: an array formula a search does not mark shows its elements.
CirclesShowErrors ==
    \A p \in Circular(cells) : Upstream(cells, p) \cap SpillCells = {} => cells[p].v = Error

\* A ghost always has its formula, unblocked and writing over it: ghosts cannot
\* be edited or removed, so one without a formula would be there for good.
GhostsHaveTheirFormula ==
    ~circular =>
        \A p \in Cells : LET anchor == cells[p].ghostOf
                         IN  anchor # None =>
                                /\ HasFormula(cells, anchor)
                                /\ cells[anchor].spilled /\ ~cells[anchor].blocked
                                /\ p \in ToSet(Around(cells[anchor].f))

\* What users typed is still there, until they remove it: a spill writes over no
\* formula or number, and takes none along when it goes.
TypedIsKept ==
    \A p \in Cells :
        /\ typed[p] \in Formulas => cells[p].f = typed[p]
        /\ typed[p] = Number => cells[p] = Content(Number, None)
        /\ typed[p] = Blank => cells[p] = Empty \/ cells[p].ghostOf # None
=============================================================================
