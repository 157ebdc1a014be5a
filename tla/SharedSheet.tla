----------------------------- MODULE SharedSheet -----------------------------
(***************************************************************************)
(* One worksheet edited by several clients at once.                        *)
(*                                                                         *)
(* Each client changes its own replica of the Yorkie document in one       *)
(* transaction per call of YorkieStore, and replicas are merged later, in  *)
(* any order.  Yorkie itself is outside this repository: of it the module  *)
(* keeps what the merge of two replicas is.  The row order is a list whose *)
(* elements know the element they were inserted behind and stay as         *)
(* tombstones; a record keeps, per key, the latest write.  Every write has *)
(* a ticket, and tickets are totally ordered.                              *)
(*                                                                         *)
(* An operation of the store is a function from a replica to a replica, so *)
(* that a merge can be compared with running the same two operations one   *)
(* after the other.  The axis is the rows; cells are those of one column.  *)
(***************************************************************************)
EXTENDS AxisShift, Lists, FiniteSets, FiniteSetsExt, SequencesExt

CONSTANTS
    Clients,      \* 1 .. n; a tie between tickets goes to the larger
    Commenters,   \* the clients that write comments
    None,         \* nothing there
    Value,        \* what users type
    Height,       \* the height users give a row
    Seeds,        \* sheets before the session: [cells |-> <<...>>, heights |-> ...]
    MaxRows,      \* bound: rows users aim at
    MaxBlock,     \* bound: rows of one insert, delete or move
    MaxChanges    \* bound: changes of the session

ASSUME ClientsAssumption ==
    /\ Cardinality(Clients) \in Nat /\ Clients = 1 .. Cardinality(Clients)
    /\ Commenters \subseteq Clients
ASSUME BoundsAssumption == {MaxRows, MaxBlock} \subseteq Nat \ {0} /\ MaxChanges \in Nat

Indices == 1 .. MaxRows
\* Rows a sheet can come to have, and tickets one change can use.
Limit == Max({Len(seed.cells) : seed \in Seeds}) + MaxChanges * (MaxRows + MaxBlock)
Width == 2 * Limit

Reference(i) == [f |-> i]                    \* the formula "=A<i>", or #REF! for 0
References == {Reference(i) : i \in 0 .. Limit}

\* What users type is no formula; a formula of a seed names a row of it.
ASSUME ValueAssumption == Value \notin References
ASSUME SeedsAssumption ==
    /\ IsFiniteSet(Seeds) /\ Seeds # {}
    /\ \A seed \in Seeds :
          /\ seed.cells \in Seq(ToSet(seed.cells)) /\ seed.heights \subseteq Nat
          /\ \A i \in DOMAIN seed.cells :
                seed.cells[i] \in References => seed.cells[i].f <= Len(seed.cells)

VARIABLES
    replica,      \* client -> its copy of the document
    server,       \* what the server has stored
    last,         \* history: client -> its last change and the replica before it
    composer,     \* client -> the comment composer: pinned row, cell it shows
    painted,      \* client -> the view has been repainted since the last merge
    changes       \* history: changes so far

vars == <<replica, server, last, composer, painted, changes>>

-----------------------------------------------------------------------------
(* The document.                                                           *)

Place(line, k) == SelectInSeq(line, LAMBDA e : e = k)
\* Elements enter the list in the order of their tickets, each right behind the element
\* it was inserted behind: what came there before it moves on.
Lined(nodes) ==
    LET tickets == DOMAIN nodes \cup {0}
        upTo[k \in tickets] ==
            IF k = 0 THEN <<>>
            ELSE LET earlier == upTo[Max({l \in tickets : l < k})]
                 IN  PutBefore(earlier, Place(earlier, nodes[k].after) + 1, <<k>>)
    IN  upTo[Max(tickets)]
Tombstones(doc) == {k \in DOMAIN doc.nodes : ~doc.nodes[k].live}
Shown(doc) == Omitting(doc.line, Tombstones(doc))
\* rowOrder, and the element of the list a row shows.
Rows(doc) == LET shown == Shown(doc) IN [i \in DOMAIN shown |-> doc.nodes[shown[i]].id]
ElementBefore(doc, i) ==
    IF i <= 1 \/ Shown(doc) = <<>> THEN 0 ELSE Shown(doc)[MinOf(i - 1, Len(Shown(doc)))]

Held(record) == {k \in DOMAIN record : record[k].live}
Written(record, keys, at, Val(_)) ==
    [k \in DOMAIN record \cup keys |->
        IF k \in keys THEN [at |-> at, val |-> Val(k), live |-> TRUE] ELSE record[k]]
Erased(record, keys) ==
    [k \in DOMAIN record |-> IF k \in keys THEN [record[k] EXCEPT !.live = FALSE] ELSE record[k]]

\* The latest write of a key wins; what either replica removed is removed.
Latest(a, b) ==
    IF a.at > b.at THEN a ELSE IF a.at < b.at THEN b
    ELSE [a EXCEPT !.live = a.live /\ b.live]
MergeRecords(f, g) ==
    [k \in DOMAIN f \cup DOMAIN g |->
        IF k \notin DOMAIN f THEN g[k] ELSE IF k \notin DOMAIN g THEN f[k]
        ELSE Latest(f[k], g[k])]
Merge(a, b) ==
    [clock   |-> MaxOf(a.clock, b.clock),
     nodes   |-> MergeRecords(a.nodes, b.nodes),
     line    |-> IF DOMAIN b.nodes \subseteq DOMAIN a.nodes THEN a.line
                 ELSE IF DOMAIN a.nodes \subseteq DOMAIN b.nodes THEN b.line
                 ELSE Lined(MergeRecords(a.nodes, b.nodes)),
     cells   |-> MergeRecords(a.cells, b.cells),
     heights |-> MergeRecords(a.heights, b.heights),
     threads |-> MergeRecords(a.threads, b.threads)]

Ticket(doc, c) == ((doc.clock + 1) * Cardinality(Clients) + c) * Width
\* The end of a transaction: the next one has a later ticket.
Committed(doc) == [doc EXCEPT !.clock = @ + 1]

\* ids made on the spot are the tickets of their elements.
Fresh(at, n) == [i \in 1 .. n |-> at + i - 1]

(* Mutant: new elements go to the front of the list. *)
InsertBehindAtFront(doc, after, at, ids) ==
    [doc EXCEPT !.line = Fresh(at, Len(ids)) \o @,
                !.nodes =
        [k \in DOMAIN @ \cup at .. at + Len(ids) - 1 |->
            IF k \in DOMAIN @ THEN @[k]
            ELSE [id |-> ids[k - at + 1], at |-> k, live |-> TRUE,
                  after |-> IF k = at THEN after ELSE k - 1]]]
\* New list elements for ids, the first behind `after`, each behind the one before.
\* Their tickets are later than all the replica knows: they stand right there.
InsertBehind(doc, after, at, ids) ==
    [doc EXCEPT !.line = PutBefore(@, Place(@, after) + 1, Fresh(at, Len(ids))),
                !.nodes =
        [k \in DOMAIN @ \cup at .. at + Len(ids) - 1 |->
            IF k \in DOMAIN @ THEN @[k]
            ELSE [id |-> ids[k - at + 1], at |-> k, live |-> TRUE,
                  after |-> IF k = at THEN after ELSE k - 1]]]
\* ensureAxisLength: push puts an element behind the last one, tombstone or not.
Grow(doc, at, len) ==
    LET missing == MaxOf(0, len - Len(Shown(doc)))
    IN  InsertBehind(doc, IF doc.line = <<>> THEN 0 ELSE Last(doc.line), at, Fresh(at, missing))

\* splice(i - 1, n): the elements leave the list one by one.
Cut(doc, i, n) ==
    LET taken == {Shown(doc)[j] : j \in i .. MinOf(i + n - 1, Len(Shown(doc)))}
    IN  [doc EXCEPT !.nodes = Erased(@, taken)]

CellAt(doc, id) == IF id \in Held(doc.cells) THEN doc.cells[id].val ELSE None

-----------------------------------------------------------------------------
(* The calls of YorkieStore, each one transaction with the ticket t.       *)

Formulas(doc) ==
    {id \in Held(doc.cells) \cap ToSet(Rows(doc)) : doc.cells[id].val \in References}

\* rewriteFormulaCells writes every formula again, changed or not.
RewriteFormulas(doc, t, Rename(_)) ==
    LET Renamed(id) == LET i == doc.cells[id].val.f
                       IN  Reference(IF i = Gone THEN Gone ELSE Rename(i))
    IN  [doc EXCEPT !.cells = Written(@, Formulas(doc), t, Renamed)]

\* replaceIndexedRecord: every key is removed, and those of the new map are written.
ReplaceHeights(doc, t, Rename(_)) ==
    LET old  == [i \in Held(doc.heights) |-> doc.heights[i].val]
        new  == Rekey(old, Rename)
        Size(i) == new[i]
    IN  [doc EXCEPT !.heights = Written(Erased(@, DOMAIN old), DOMAIN new, t, Size)]

SetCell(doc, t, i, v) ==
    LET grown == Grow(doc, t, i)
        Typed(id) == v
    IN  [grown EXCEPT !.cells = Written(@, {Rows(grown)[i]}, t, Typed)]

ClearCell(doc, i) ==
    IF i > Len(Rows(doc)) THEN doc
    ELSE [doc EXCEPT !.cells = Erased(@, {Rows(doc)[i]})]

SetHeight(doc, t, i) ==
    LET Size(k) == Height IN [doc EXCEPT !.heights = Written(@, {i}, t, Size)]

(* Mutant: the order is written anew with the inserted rows in it. *)
InsertRowsReplacesOrder(doc, t, i, n) ==
    LET grown == Grow(doc, t, i - 1)
        ids   == PutBefore(Rows(grown), i, Fresh(t + Limit, n))
        empty == Cut(grown, 1, Len(Rows(grown)))
        wider == InsertBehind(empty, 0, t + Limit, ids)
        Rename(k) == ShiftIndex(k, i, n)
    IN  ReplaceHeights(RewriteFormulas(wider, t, Rename), t, Rename)
\* applyYorkieWorksheetShift, once for an insert and once for a delete.
InsertRows(doc, t, i, n) ==
    LET grown == Grow(doc, t, i - 1)
        wider == InsertBehind(grown, ElementBefore(grown, i), t + Limit, Fresh(t + Limit, n))
        Rename(k) == ShiftIndex(k, i, n)
    IN  ReplaceHeights(RewriteFormulas(wider, t, Rename), t, Rename)

(* Mutant: the threads of the deleted rows stay. *)
DeleteRowsKeepsThreads(doc, t, i, n) ==
    LET removed == ToSet(SubSeq(Rows(doc), i, MinOf(i + n - 1, Len(Rows(doc)))))
        cut     == [Cut(doc, i, n) EXCEPT !.cells = Erased(@, removed)]
        Rename(k) == ShiftIndex(k, i, -n)
    IN  ReplaceHeights(RewriteFormulas(cut, t, Rename), t, Rename)
DeleteRows(doc, t, i, n) ==
    LET removed == ToSet(SubSeq(Rows(doc), i, MinOf(i + n - 1, Len(Rows(doc)))))
        cut     == [Cut(doc, i, n) EXCEPT !.cells = Erased(@, removed)]
        Rename(k) == ShiftIndex(k, i, -n)
        shifted == ReplaceHeights(RewriteFormulas(cut, t, Rename), t, Rename)
        orphans == {th \in Held(shifted.threads) : shifted.threads[th].val \in removed}
    IN  [shifted EXCEPT !.threads = Erased(@, orphans)]

\* applyYorkieWorksheetMove: the ids are taken out and put in again as new
\* elements of the list.
MoveRows(doc, t, src, n, dst) ==
    LET grown  == Grow(doc, t, MaxOf(src + n - 1, dst - 1))
        ids    == SubSeq(Rows(grown), src, src + n - 1)
        cut    == Cut(grown, src, n)
        to     == IF dst > src THEN dst - n ELSE dst
        moved  == InsertBehind(cut, ElementBefore(cut, to), t + Limit, ids)
        Rename(k) == RemapIndex(k, src, n, dst)
    IN  ReplaceHeights(RewriteFormulas(moved, t, Rename), t, Rename)

AddThread(doc, t, row) ==
    LET Anchor(th) == row IN [doc EXCEPT !.threads = Written(@, {t}, t, Anchor)]

\* What a user can ask of the sheet.
Calls ==
    [call : {"set", "clear", "height"}, at : Indices] \cup
    [call : {"insert", "delete"}, at : Indices, n : 1 .. MaxBlock] \cup
    {m \in [call : {"move"}, at : Indices, n : 1 .. MaxBlock, to : 1 .. MaxRows + 1] :
        m.to \notin m.at .. m.at + m.n}

\* The store carries out call m of client c on the replica doc.
Apply(doc, c, m) ==
    LET t == Ticket(doc, c)
        next ==
            CASE m.call = "set"    -> SetCell(doc, t, m.at, Value)
              [] m.call = "clear"  -> ClearCell(doc, m.at)
              [] m.call = "height" -> SetHeight(doc, t, m.at)
              [] m.call = "insert" -> InsertRows(doc, t, m.at, m.n)
              [] m.call = "delete" -> DeleteRows(doc, t, m.at, m.n)
              [] m.call = "move"   -> MoveRows(doc, t, m.at, m.n, m.to)
    IN  Committed(next)

-----------------------------------------------------------------------------
(* The session.                                                            *)

\* A sheet as it was stored before anybody opened it.
Stored(seed) ==
    LET n == Len(seed.cells)
        doc == InsertBehind([clock |-> 0, nodes |-> <<>>, line |-> <<>>, cells |-> <<>>,
                             heights |-> <<>>, threads |-> <<>>], 0, 1, Fresh(1, n))
        Cell(i) == seed.cells[i]
        Size(i) == Height
    IN  [doc EXCEPT !.cells = Written(@, {i \in 1 .. n : seed.cells[i] # None}, 0, Cell),
                    !.heights = Written(@, seed.heights, 0, Size)]

Init ==
    \E seed \in Seeds :
        /\ server = Stored(seed)
        /\ replica = [c \in Clients |-> Stored(seed)]
        /\ last = [c \in Clients |-> None]
        /\ composer = [c \in Clients |-> None]
        /\ painted = [c \in Clients |-> TRUE]
        /\ changes = 0

\* A user edits the sheet; one that writes a comment closes the composer first.
Change(c, m) ==
    /\ changes < MaxChanges
    /\ composer[c] = None
    /\ replica' = [replica EXCEPT ![c] = Apply(@, c, m)]
    /\ last' = [last EXCEPT ![c] = [call |-> m, before |-> replica[c]]]
    /\ changes' = changes + 1
    /\ UNCHANGED <<server, composer, painted>>

\* One exchange with the server: what the client has goes up, and what the
\* server has by then comes down.
Sync(c) ==
    LET merged == Merge(server, replica[c])
    IN  /\ server' = merged
        /\ replica' = [replica EXCEPT ![c] = merged]
        /\ painted' = [painted EXCEPT ![c] = @ /\ merged = replica[c]]
        /\ last' = [last EXCEPT ![c] = None]
        /\ UNCHANGED <<composer, changes>>

-----------------------------------------------------------------------------
(* The comment composer of sheet-view.tsx.  It pins the row it is opened   *)
(* on, but a comment goes to the row that is now at the index it knows.    *)

\* openCommentComposerForActiveCell: the order is grown over the cell first.
OpenComposer(c, i) ==
    /\ changes < MaxChanges
    /\ composer[c] = None
    /\ painted[c]
    /\ replica' = [replica EXCEPT ![c] =
           IF i <= Len(Rows(@)) THEN @ ELSE Committed(Grow(@, Ticket(@, c), i))]
    /\ changes' = changes + 1
    /\ composer' = [composer EXCEPT ![c] = [row |-> Rows(replica'[c])[i], at |-> i]]
    /\ UNCHANGED <<server, last, painted>>

(* Mutant: the composer stays open whatever is at the index by now. *)
RepaintKeepsComposer(c) ==
    /\ ~painted[c]
    /\ LET pinned == composer[c].row
           rows   == Rows(replica[c])
           at     == IF pinned \in ToSet(rows)
                     THEN CHOOSE i \in DOMAIN rows :
                            /\ rows[i] = pinned
                            /\ \A j \in 1 .. i - 1 : rows[j] # pinned
                     ELSE 1
       IN  composer' = [composer EXCEPT ![c] =
               IF @ = None THEN None ELSE [@ EXCEPT !.at = at]]
    /\ painted' = [painted EXCEPT ![c] = TRUE]
    /\ UNCHANGED <<replica, server, last, changes>>
\* After a merge the selection is resolved from its ids and the view repainted;
\* the composer closes if its row is not there any more.
Repaint(c) ==
    /\ ~painted[c]
    /\ composer' = [composer EXCEPT ![c] =
           IF @ = None \/ @.row \notin ToSet(Rows(replica[c])) THEN None
           ELSE [@ EXCEPT !.at = SelectInSeq(Rows(replica[c]), LAMBDA id : id = composer[c].row)]]
    /\ painted' = [painted EXCEPT ![c] = TRUE]
    /\ UNCHANGED <<replica, server, last, changes>>

CloseComposer(c) ==
    /\ composer[c] # None
    /\ composer' = [composer EXCEPT ![c] = None]
    /\ UNCHANGED <<replica, server, last, painted, changes>>

\* handleCommentAddThread: refused if there is no row at the index.
SubmitComment(c) ==
    /\ composer[c] # None
    /\ composer[c].at <= Len(Rows(replica[c]))
    /\ replica' = [replica EXCEPT ![c] =
           Committed(AddThread(@, Ticket(@, c), Rows(@)[composer[c].at]))]
    /\ composer' = [composer EXCEPT ![c] = None]
    /\ last' = [last EXCEPT ![c] = None]
    /\ UNCHANGED <<server, painted, changes>>

Next ==
    \E c \in Clients :
        \/ \E m \in Calls : Change(c, m)
        \/ Sync(c)
        \/ c \in Commenters /\ \E i \in Indices : OpenComposer(c, i)
        \/ Repaint(c)
        \/ CloseComposer(c)
        \/ SubmitComment(c)

Spec == Init /\ [][Next]_vars

-----------------------------------------------------------------------------
(* Properties.                                                             *)

WellFormed(doc) ==
    /\ doc.line = Lined(doc.nodes)
    /\ Held(doc.cells) \subseteq {doc.nodes[k].id : k \in DOMAIN doc.nodes}
    /\ \A id \in DOMAIN doc.cells :
          doc.cells[id].val \in {Value} \cup References \cup UNION {ToSet(seed.cells) : seed \in Seeds}
    /\ \A t \in DOMAIN doc.threads : t <= (doc.clock + 1) * Width * Cardinality(Clients)
\* Every replica is a document; the list kept in order is the one its elements say.
TypeOK ==
    /\ \A c \in Clients : WellFormed(replica[c])
    /\ composer \in [Clients -> {None} \cup [row : Nat, at : Nat]]
    /\ painted \in [Clients -> BOOLEAN]
    /\ changes \in 0 .. MaxChanges

\* What a user sees: the cells from the top, and the rows with a height.
View(doc) ==
    LET rows == Rows(doc)
    IN  [cells   |-> [i \in 1 .. Limit |->
                        IF i > Len(rows) THEN None ELSE CellAt(doc, rows[i])],
         heights |-> Held(doc.heights)]

Showing(doc, contents) ==
    {i \in DOMAIN Rows(doc) : CellAt(doc, Rows(doc)[i]) \in contents}

\* Rows shown more than once.
Twice(doc) ==
    LET rows == Rows(doc)
    IN  {id \in ToSet(rows) : Cardinality({i \in DOMAIN rows : rows[i] = id}) > 1}

\* Two clients that changed the same replica, each without the other's change.
Concurrent(c, d) ==
    /\ c # d /\ last[c] # None /\ last[d] # None
    /\ last[c].before = last[d].before
MatchesSerialOrder(c, d) ==
    LET base == last[c].before
        mine == Apply(base, c, last[c].call)
        hers == Apply(base, d, last[d].call)
    IN  View(Merge(mine, hers)) \in
            {View(Apply(mine, d, last[d].call)), View(Apply(hers, c, last[c].call))}

Call(c, calls) == last[c].call.call \in calls
Typed == {"set", "clear"}

\* The call stays within the rows the sheet has, so that it adds none.
StaysInside(c) ==
    last[c].call.at <= Len(Rows(last[c].before)) + IF Call(c, {"insert"}) THEN 1 ELSE 0
IntoFormula(c) == last[c].call.at \in Showing(last[c].before, References)
IntoRepeated(c) == Call(c, {"set"}) /\ Rows(last[c].before)[last[c].call.at] \in Twice(last[c].before)
Indexed(doc) == Formulas(doc) # {} \/ Held(doc.heights) # {}
\* c inserts between two rows that d deletes.
Splits(c, d) ==
    /\ Call(c, {"insert"}) /\ Call(d, {"delete"})
    /\ last[c].call.at \in last[d].call.at + 1 .. last[d].call.at + last[d].call.n - 1

\* The pairs of calls that are to come out as if made one after the other.
SerialPair(c, d) ==
    \/ Call(c, Typed) /\ Call(d, Typed) /\ last[c].call.at # last[d].call.at
    \/ Call(c, Typed) /\ Call(d, {"insert"}) /\ ~IntoFormula(c)
    \/ Call(c, Typed) /\ Call(d, {"delete"}) /\ ~IntoFormula(c) /\ ~IntoRepeated(c)
    \/ Call(c, {"height"}) /\ Call(d, {"insert", "delete"})
    \/ Call(c, {"insert"}) /\ Call(d, {"insert", "delete"})
       /\ ~Indexed(last[c].before) /\ ~Splits(c, d)

\* Typing in different rows, typing or sizing a row against an insert or a
\* delete, and inserting against an insert or a delete: after the merge the sheet
\* looks as after one of the two orders.  The exceptions are calls that have to add
\* rows, formulas an insert rewrites under the typist, index-keyed data two
\* structural edits rewrite, a row inserted inside the block the other deletes, and
\* typing into a row that is shown twice while the other deletes one of the two.
PairsMatchSerialOrder ==
    \A c, d \in Clients :
        Concurrent(c, d) /\ StaysInside(c) /\ StaysInside(d) /\ SerialPair(c, d)
            => MatchesSerialOrder(c, d)

\* What two users type into different rows ends where they typed it.
EditsLandWhereTyped ==
    \A c, d \in Clients :
        Concurrent(c, d) /\ Call(c, {"set"}) /\ Call(d, {"set"})
            /\ last[c].call.at # last[d].call.at
            => MatchesSerialOrder(c, d)

\* A step that changes a replica and is no merge.
Locally(c) == replica'[c] # replica[c] /\ ~Sync(c)

Orphans(doc) ==
    (Held(doc.cells) \cup {doc.threads[t].val : t \in Held(doc.threads)}) \ ToSet(Rows(doc))
\* Cells and threads of rows that are not there come from merges only: a client
\* deleting a row takes along all it knows of, and no comment is sent to a row the
\* client has seen deleted.
OrphansComeFromMerges ==
    [][\A c \in Clients : Locally(c) => Orphans(replica'[c]) \subseteq Orphans(replica[c])]_vars

\* A row shown twice comes from two clients moving it; a move of one never does that.
OnlyMergesRepeatRows ==
    [][\A c \in Clients : Locally(c) => Twice(replica'[c]) \subseteq Twice(replica[c])]_vars

\* A comment goes to the row its composer was opened on, whatever others did to
\* the sheet meanwhile, if the view has been repainted since.
CommentsStayOnTheirRow ==
    [][\A c \in Commenters :
        painted[c] /\ SubmitComment(c) =>
            \A t \in Held(replica'[c].threads) \ Held(replica[c].threads) :
                replica'[c].threads[t].val = composer[c].row]_vars

\* A client on its own leaves nothing behind and repeats nothing: such states come
\* from merging two changes.
LocalChangesAreClean == OrphansComeFromMerges /\ OnlyMergesRepeatRows
=====================================
