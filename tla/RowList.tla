------------------------------- MODULE RowList -------------------------------
(***************************************************************************)
(* What a worksheet promises about one axis: it is a list of whole rows.   *)
(* Everything that belongs to a row (the data stored in it, its height) is *)
(* part of one record, and a structural edit only inserts blank records,   *)
(* removes records, or takes a block of records and puts it elsewhere.     *)
(*                                                                         *)
(* The worksheet keeps no such list: it has an order of row ids, cells     *)
(* keyed by id and heights keyed by visual index, each rewritten by its    *)
(* own code.  SheetStructure is shown to implement this module.            *)
(***************************************************************************)
EXTENDS Naturals, Sequences

CONSTANTS
    MaxRows,    \* rows of the grid window that is modelled
    CellData,   \* what a cell can hold, as seen from outside
    Heights,    \* custom row heights
    Nothing     \* no data, no custom height

VARIABLE rows

Blank == [data |-> Nothing, height |-> Nothing]
Row == [data : CellData \cup {Nothing}, height : Heights \cup {Nothing}]
BlankRows(n) == [i \in 1 .. n |-> Blank]

TypeOK == rows \in [1 .. MaxRows -> Row]

Init == rows = BlankRows(MaxRows)

\* Data is typed into a row, or a height dragged.
EditRow(i, row) == rows' = [rows EXCEPT ![i] = row]

\* Merging clears the rows below the anchor; heights stay.
ClearData(S) ==
    rows' = [i \in 1 .. MaxRows |->
                IF i \in S THEN [rows[i] EXCEPT !.data = Nothing] ELSE rows[i]]

\* n blank rows appear before row i; rows pushed out of the window are blank.
InsertRows(i, n) ==
    /\ \A j \in (MaxRows - n + 1) .. MaxRows : j > 0 => rows[j] = Blank
    /\ rows' = SubSeq(rows, 1, i - 1) \o BlankRows(n)
                 \o SubSeq(rows, i, MaxRows - n)

DeleteRows(i, n) ==
    rows' = SubSeq(rows, 1, i - 1) \o SubSeq(rows, i + n, MaxRows) \o BlankRows(n)

\* The block of n rows at src is put before the row that was at dst.
MoveRows(src, n, dst) ==
    LET block == SubSeq(rows, src, src + n - 1)
    IN  rows' =
          IF dst <= src
          THEN SubSeq(rows, 1, dst - 1) \o block
                 \o SubSeq(rows, dst, src - 1) \o SubSeq(rows, src + n, MaxRows)
          ELSE SubSeq(rows, 1, src - 1) \o SubSeq(rows, src + n, dst - 1)
                 \o block \o SubSeq(rows, dst, MaxRows)

Next ==
    \/ \E i \in 1 .. MaxRows, row \in Row : EditRow(i, row)
    \/ \E S \in SUBSET (1 .. MaxRows) : ClearData(S)
    \/ \E i, n \in 1 .. MaxRows : i + n <= MaxRows + 1 /\ InsertRows(i, n)
    \/ \E i, n \in 1 .. MaxRows : i + n <= MaxRows + 1 /\ DeleteRows(i, n)
    \/ \E src, n \in 1 .. MaxRows, dst \in 1 .. (MaxRows + 1) :
          src + n <= MaxRows + 1 /\ MoveRows(src, n, dst)

Spec == Init /\ [][Next]_rows
=============================================================================
