------------------------------ MODULE AxisShift ------------------------------
(***************************************************************************)
(* Index arithmetic of row/column insert, delete and move, for one axis.   *)
(*                                                                         *)
(* A structural edit changes the axis order (a list of stable ids) and     *)
(* must carry along everything that names a line of the axis by its        *)
(* 1-based index: heights, formula references, merged blocks, rule ranges, *)
(* chart ranges, the frozen band.  The code has one small function per     *)
(* kind of metadata; they are the operators of this module.  Indices are   *)
(* 1-based, count > 0 inserts before index, count < 0 deletes from index,  *)
(* and a move takes n lines from src and puts them before dst.             *)
(***************************************************************************)
EXTENDS Integers, Sequences

MaxOf(a, b) == IF a >= b THEN a ELSE b
MinOf(a, b) == IF a <= b THEN a ELSE b

(* The result of a shift whose operand lies wholly in the deleted zone.    *)
Gone == 0

-----------------------------------------------------------------------------
(* Axis order: lists of ids, edited with Array.prototype.splice.           *)

RowsOf(order) == {order[i] : i \in DOMAIN order}
Distinct(order) == \A i, j \in DOMAIN order : order[i] = order[j] => i = j

\* The lines left after taking n away from position src on, and the lines taken.
Without(order, src, n) ==
    SubSeq(order, 1, MinOf(src - 1, Len(order))) \o SubSeq(order, src + n, Len(order))
(* Mutant: the last line is not counted. *)
TakenButLast(order, src, n) == SubSeq(order, src, MinOf(src + n - 2, Len(order)))
Taken(order, src, n) == SubSeq(order, src, MinOf(src + n - 1, Len(order)))

\* splice(at - 1, 0, ...new); splice clamps its start to the length.
PutBefore(order, at, new) ==
    SubSeq(order, 1, at - 1) \o new \o SubSeq(order, at, Len(order))

(* Mutant: the moved lines are not taken out of the order. *)
MoveOrderCopies(order, src, n, dst) == PutBefore(order, dst, Taken(order, src, n))
\* moveYorkieWorksheetAxis, after ensureAxisLength: take out, then put back
\* before dst, which has come n lines nearer if the block was taken above it.
MoveOrder(order, src, n, dst) ==
    PutBefore(Without(order, src, n),
              IF dst > src THEN dst - n ELSE dst,
              Taken(order, src, n))

-----------------------------------------------------------------------------
(* Single indices.                                                         *)

(* Mutant: a move down also carries the line at dst. *)
RemapIndexPastDst(i, src, n, dst) ==
    IF dst <= src
    THEN IF i \in src .. (src + n - 1) THEN dst + (i - src)
         ELSE IF i \in dst .. (src - 1) THEN i + n
         ELSE i
    ELSE IF i \in src .. (src + n - 1) THEN dst - n + (i - src)
         ELSE IF i \in (src + n) .. dst THEN i - n
         ELSE i
RemapIndex(i, src, n, dst) ==
    IF dst <= src
    THEN IF i \in src .. (src + n - 1) THEN dst + (i - src)
         ELSE IF i \in dst .. (src - 1) THEN i + n
         ELSE i
    ELSE IF i \in src .. (src + n - 1) THEN dst - n + (i - src)
         ELSE IF i \in (src + n) .. (dst - 1) THEN i - n
         ELSE i

ShiftIndex(i, index, count) ==
    IF count > 0
    THEN IF i >= index THEN i + count ELSE i
    ELSE IF i \in index .. (index - count - 1) THEN Gone
         ELSE IF i >= index - count THEN i + count
         ELSE i

\* shiftBoundary and shiftFilterBoundary: a deleted boundary stays at index.
ShiftBoundary(i, index, count) ==
    IF ShiftIndex(i, index, count) = Gone THEN index
    ELSE ShiftIndex(i, index, count)

\* Sheet.shiftCells: the frozen band grows or shrinks with edits inside it.
ShiftFrozen(frozen, index, count) ==
    IF frozen = 0 \/ index > frozen THEN frozen
    ELSE IF count > 0 THEN frozen + count
    ELSE MaxOf(0, frozen - MinOf(-count, frozen - index + 1))

-----------------------------------------------------------------------------
(* Index-keyed maps (row heights, styles) and index sets (hidden rows).    *)

\* Carry the map along a partial renaming of its keys; keys sent to Gone drop.
Rekey(map, Rename(_)) ==
    LET kept == {i \in DOMAIN map : Rename(i) # Gone}
    IN  [j \in {Rename(i) : i \in kept} |->
            map[CHOOSE i \in kept : Rename(i) = j]]

(* Mutant: deleted lines pass their size on to the line above the cut. *)
ShiftDimensionMapKeepsDeleted(map, index, count) ==
    LET Rename(i) == ShiftBoundary(i, index, count) IN Rekey(map, Rename)
ShiftDimensionMap(map, index, count) ==
    LET Rename(i) == ShiftIndex(i, index, count) IN Rekey(map, Rename)

MoveDimensionMap(map, src, n, dst) ==
    LET Rename(i) == RemapIndex(i, src, n, dst) IN Rekey(map, Rename)

ShiftIndexSet(set, index, count) ==
    {ShiftIndex(i, index, count) : i \in set} \ {Gone}

MoveIndexSet(set, src, n, dst) == {RemapIndex(i, src, n, dst) : i \in set}

-----------------------------------------------------------------------------
(* Ranges: records [from, to] of indices; GoneRange when nothing is left.  *)

GoneRange == [from |-> Gone, to |-> Gone]

\* A formula's reference or range: #REF! as soon as an endpoint is deleted.
ShiftReference(ref, index, count) ==
    LET from == ShiftIndex(ref.from, index, count)
        to   == ShiftIndex(ref.to, index, count)
    IN  IF Gone \in {from, to} THEN GoneRange ELSE [from |-> from, to |-> to]

\* Endpoints are remapped one by one and not put back in order.
MoveReference(ref, src, n, dst) ==
    [from |-> RemapIndex(ref.from, src, n, dst),
     to   |-> RemapIndex(ref.to, src, n, dst)]

\* The smallest interval around the two remapped endpoints.
MoveHull(rng, src, n, dst) ==
    LET a == RemapIndex(rng.from, src, n, dst)
        b == RemapIndex(rng.to, src, n, dst)
    IN  [from |-> MinOf(a, b), to |-> MaxOf(a, b)]

(* Mutant: a block whose head is deleted keeps its old start. *)
ShiftMergeAxisKeepsStart(m, index, count) ==
    LET last    == index - count - 1
        removed == MinOf(m.to, last) - MaxOf(m.from, index) + 1
        left    == m.to - m.from + 1 - removed
    IN  IF count > 0
        THEN [from |-> IF index <= m.from THEN m.from + count ELSE m.from,
              to   |-> IF index <= m.to THEN m.to + count ELSE m.to]
        ELSE IF last < m.from THEN [from |-> m.from + count, to |-> m.to + count]
        ELSE IF index > m.to THEN m
        ELSE IF left <= 0 THEN GoneRange
        ELSE [from |-> m.from, to |-> m.from + left - 1]
ShiftMergeAxis(m, index, count) ==
    LET last    == index - count - 1                \* last deleted line
        removed == MinOf(m.to, last) - MaxOf(m.from, index) + 1
        left    == m.to - m.from + 1 - removed
        start   == IF index <= m.from THEN index ELSE m.from
    IN  IF count > 0
        THEN [from |-> IF index <= m.from THEN m.from + count ELSE m.from,
              to   |-> IF index <= m.to THEN m.to + count ELSE m.to]
        ELSE IF last < m.from THEN [from |-> m.from + count, to |-> m.to + count]
        ELSE IF index > m.to THEN m
        ELSE IF left <= 0 THEN GoneRange
        ELSE [from |-> start, to |-> start + left - 1]

\* A merged block of one column that is left with one row is no merge at all.
ShiftMergeMap(merges, index, count) ==
    {m \in {ShiftMergeAxis(b, index, count) : b \in merges} : m.from < m.to}

MoveMergeMap(merges, src, n, dst) ==
    {m \in {MoveHull(b, src, n, dst) : b \in merges} : m.from < m.to}

IsMergeSplitByMove(m, src, n) ==
    /\ m.to >= src /\ m.from <= src + n - 1
    /\ ~(m.from >= src /\ m.to <= src + n - 1)

\* shiftRuleRanges: both boundaries shifted; toRange puts them in order.
ShiftRuleRange(rng, index, count) ==
    LET a == ShiftBoundary(rng.from, index, count)
        b == ShiftBoundary(rng.to, index, count)
    IN  [from |-> MinOf(a, b), to |-> MaxOf(a, b)]

\* shiftA1Range: chart and pivot source ranges are clamped to what survives.
ShiftA1Range(rng, index, count) ==
    LET from == ShiftIndex(rng.from, index, count)
        to   == ShiftIndex(rng.to, index, count)
        cf   == IF from = Gone THEN index ELSE from
        ct   == IF to = Gone THEN index - 1 ELSE to
    IN  IF ct < 1 \/ cf > ct THEN GoneRange ELSE [from |-> cf, to |-> ct]
=============================================================================
