------------------------ MODULE SheetStructureProofs ------------------------
(***************************************************************************)
(* What SheetStructure keeps for every size of sheet, every set of values  *)
(* and any number of merged blocks, rules and threads.                     *)
(***************************************************************************)
EXTENDS SheetStructure, ListLemmas, SequenceTheorems, FiniteSetTheorems

(* Ids that may be appended to the order.                                  *)
Fresh(new, k) ==
    /\ new \in Seq(RowId) /\ Len(new) = k /\ Distinct(new)
    /\ RowsOf(order) \cap RowsOf(new) = {}

LEMMA NewIdsAreFresh ==
    ASSUME NEW k \in Nat, NEW new \in NewIds(k)
    PROVE  Fresh(new, k)
<1>1. new \in FreshIds(k)
  BY DEF NewIds
<1>2. new \in [1 .. k -> RowId \ RowsOf(order)]
  BY <1>1 DEF FreshIds
<1>3. new \in Seq(RowId) /\ Len(new) = k /\ DOMAIN new = 1 .. k
  BY <1>2
<1>4. Distinct(new)
  BY <1>1, <1>3 DEF FreshIds, Distinct
<1>5. RowsOf(order) \cap RowsOf(new) = {}
  BY <1>2, <1>3 DEF RowsOf
<1> QED  BY <1>3, <1>4, <1>5 DEF Fresh

LEMMA MissingType == OrderOK => \A len \in Nat : Missing(len) \in Nat
  BY DEF OrderOK, Missing, MaxOf

(* ensureAxisLength: the order grows at its end, by ids it does not hold.  *)
LEMMA GrownOrder ==
    ASSUME OrderOK, NEW k \in Nat, NEW new, Fresh(new, k)
    PROVE  /\ order \o new \in Seq(RowId)
           /\ Len(order \o new) = Len(order) + k
           /\ \A i \in 1 .. Len(order) : (order \o new)[i] = order[i]
           /\ Distinct(order \o new)
           /\ RowsOf(order \o new) = RowsOf(order) \cup RowsOf(new)
<1> DEFINE L == Len(order)
           p == PutBefore(order, L + 1, new)
<1>1. order \in Seq(RowId) /\ L \in Nat /\ Distinct(order)
  BY DEF OrderOK
<1>2. new \in Seq(RowId) /\ Len(new) = k /\ Distinct(new)
      /\ RowsOf(order) \cap RowsOf(new) = {}
  BY DEF Fresh
<1>3. /\ order \o new \in Seq(RowId) /\ Len(order \o new) = L + Len(new)
      /\ \A i \in 1 .. Len(order \o new) :
            (order \o new)[i] = IF i <= L THEN order[i] ELSE new[i - L]
  BY <1>1, <1>2, ConcatAt
<1>4. /\ p \in Seq(RowId) /\ Len(p) = L + Len(new)
      /\ \A i \in 1 .. Len(p) :
            p[i] = IF i < L + 1 THEN order[i]
                   ELSE IF i < L + 1 + Len(new) THEN new[i - (L + 1) + 1]
                   ELSE order[i - Len(new)]
  <2>1. L + 1 \in 1 .. (Len(order) + 1)
    BY <1>1
  <2> QED  BY <1>1, <1>2, <2>1, PutBeforeAt
<1>5. order \o new = p
  <2>1. ASSUME NEW i \in 1 .. (L + k)
        PROVE  (order \o new)[i] = p[i]
    <3>1. /\ i \in 1 .. Len(p) /\ i \in 1 .. Len(order \o new)
          /\ (i <= L <=> i < L + 1) /\ i < L + 1 + Len(new)
          /\ i - (L + 1) + 1 = i - L
      BY <1>1, <1>2, <1>3, <1>4
    <3> QED  BY <1>3, <1>4, <3>1
  <2>2. Len(p) = L + k /\ Len(order \o new) = L + k
    BY <1>2, <1>3, <1>4
  <2>3. Len(order \o new) \in Nat /\ Len(order \o new) = Len(p)
        /\ \A i \in 1 .. Len(order \o new) : (order \o new)[i] = p[i]
    BY <1>1, <1>2, <2>1, <2>2
  <2> HIDE DEF p, L
  <2> DEFINE g == order \o new
  <2>4. g \in Seq(RowId) /\ p \in Seq(RowId) /\ Len(g) = Len(p)
        /\ \A i \in 1 .. Len(g) : g[i] = p[i]
    BY <1>3, <1>4, <2>3
  <2> HIDE DEF g
  <2>5. g = p
    BY <2>4, SeqEqual
  <2> QED  BY <2>5 DEF g
<1>6. Distinct(p) /\ RowsOf(p) = RowsOf(order) \cup RowsOf(new)
  <2>1. L + 1 \in 1 .. (Len(order) + 1)
    BY <1>1
  <2> QED  BY <1>1, <1>2, <2>1, PutBeforeDistinct
<1>7. ASSUME NEW i \in 1 .. L
      PROVE  (order \o new)[i] = order[i]
  <2>1. i \in 1 .. Len(order \o new) /\ i <= L
    BY <1>1, <1>2, <1>3
  <2> QED  BY <1>3, <2>1
<1> HIDE DEF p
<1> QED  BY <1>2, <1>3, <1>5, <1>6, <1>7

(* What every structural edit must leave behind.                           *)
Ordered(o, len) == o \in Seq(RowId) /\ Len(o) = len /\ Distinct(o)

LEMMA InsertedRows ==
    ASSUME OrderOK, NEW index \in Nat \ {0}, NEW n \in Nat \ {0},
           NEW new \in NewIds(Missing(index - 1) + n)
    PROVE  LET pad  == SubSeq(new, 1, Missing(index - 1))
               made == SubSeq(new, Missing(index - 1) + 1, Len(new))
               o    == PutBefore(order \o pad, index, made)
           IN  /\ Ordered(o, Len(order) + Missing(index - 1) + n)
               /\ RowsOf(order) \subseteq RowsOf(o)
               /\ \A i \in 1 .. Len(order) :
                     /\ ShiftIndex(i, index, n) \in 1 .. Len(o)
                     /\ o[ShiftIndex(i, index, n)] = order[i]
<1> DEFINE k    == Missing(index - 1)
           pad  == SubSeq(new, 1, k)
           made == SubSeq(new, k + 1, Len(new))
           o    == PutBefore(order \o pad, index, made)
<1>1. k \in Nat /\ Len(order) \in Nat /\ index <= Len(order) + k + 1
  BY DEF OrderOK, Missing, MaxOf
<1> HIDE DEF k
<1>2. new \in Seq(RowId) /\ Len(new) = k + n /\ Distinct(new)
      /\ RowsOf(order) \cap RowsOf(new) = {} /\ DOMAIN new = 1 .. (k + n)
  <2>1. Fresh(new, k + n)
    BY <1>1, NewIdsAreFresh DEF k
  <2> QED  BY <2>1 DEF Fresh
<1>3. /\ pad \in Seq(RowId) /\ Len(pad) = k /\ DOMAIN pad = 1 .. k
      /\ \A i \in 1 .. k : pad[i] = new[i]
  <2>1. /\ pad \in Seq(RowId)
        /\ Len(pad) = IF 1 <= k THEN k - 1 + 1 ELSE 0
        /\ \A i \in 1 .. Len(pad) : pad[i] = new[1 + i - 1]
    <3>1. k <= Len(new)
      BY <1>1, <1>2
    <3> QED  BY <1>1, <1>2, <3>1, SubSeqAt
  <2> HIDE DEF pad
  <2> QED  BY <1>1, <2>1
<1>4. /\ made \in Seq(RowId) /\ Len(made) = n /\ DOMAIN made = 1 .. n
      /\ \A i \in 1 .. n : made[i] = new[k + i]
  <2>1. k + 1 \in Nat \ {0} /\ Len(new) \in Nat /\ Len(new) <= Len(new)
    BY <1>1, <1>2
  <2>2. /\ made \in Seq(RowId)
        /\ Len(made) = IF k + 1 <= Len(new) THEN Len(new) - (k + 1) + 1 ELSE 0
        /\ \A i \in 1 .. Len(made) : made[i] = new[(k + 1) + i - 1]
    BY <1>2, <2>1, SubSeqAt
  <2> HIDE DEF made
  <2>3. Len(made) = n
    BY <1>1, <1>2, <2>2
  <2>4. ASSUME NEW i \in 1 .. n
        PROVE  made[i] = new[k + i]
    <3>1. (k + 1) + i - 1 = k + i
      BY <1>1
    <3> QED  BY <2>2, <2>3, <3>1
  <2> QED  BY <2>2, <2>3, <2>4
<1>5. o = PutBefore(order \o pad, index, made)
  OBVIOUS
<1> HIDE DEF pad, made, o
<1>15. \A i, j \in 1 .. (k + n) : new[i] = new[j] => i = j
  BY <1>2 DEF Distinct
<1>16. /\ \A i \in 1 .. k : i \in 1 .. (k + n) /\ pad[i] = new[i]
      /\ \A i \in 1 .. n : k + i \in 1 .. (k + n) /\ made[i] = new[k + i]
  BY <1>1, <1>3, <1>4
<1>6. Distinct(pad) /\ Distinct(made)
  <2>1. \A i, j \in 1 .. k : pad[i] = pad[j] => i = j
    BY <1>15, <1>16
  <2>2. ASSUME NEW i \in 1 .. n, NEW j \in 1 .. n, made[i] = made[j]
        PROVE  i = j
    <3>1. k + i = k + j
      BY <1>15, <1>16, <2>2
    <3> QED  BY <1>1, <3>1
  <2> QED  BY <1>3, <1>4, <2>1, <2>2 DEF Distinct
<1>7. RowsOf(pad) \subseteq RowsOf(new) /\ RowsOf(made) \subseteq RowsOf(new)
  <2>1. \A i \in 1 .. k : pad[i] \in RowsOf(new)
    BY <1>2, <1>16 DEF RowsOf
  <2>2. \A i \in 1 .. n : made[i] \in RowsOf(new)
    BY <1>2, <1>16 DEF RowsOf
  <2> QED  BY <1>3, <1>4, <2>1, <2>2 DEF RowsOf
<1>8. RowsOf(pad) \cap RowsOf(made) = {}
  <2>1. ASSUME NEW i \in 1 .. k, NEW j \in 1 .. n, pad[i] = made[j]
        PROVE  FALSE
    <3>1. i # k + j
      BY <1>1
    <3>2. new[i] = new[k + j]
      BY <1>16, <2>1
    <3> QED  BY <1>15, <1>16, <3>1, <3>2
  <2> QED  BY <1>3, <1>4, <2>1 DEF RowsOf
<1>9. /\ order \o pad \in Seq(RowId) /\ Len(order \o pad) = Len(order) + k
      /\ Distinct(order \o pad)
      /\ RowsOf(order \o pad) = RowsOf(order) \cup RowsOf(pad)
      /\ \A i \in 1 .. Len(order) : (order \o pad)[i] = order[i]
  <2>1. Fresh(pad, k)
    BY <1>2, <1>3, <1>6, <1>7 DEF Fresh
  <2> QED  BY <1>1, <2>1, GrownOrder
<1>10. RowsOf(order \o pad) \cap RowsOf(made) = {}
  BY <1>2, <1>7, <1>8, <1>9
<1> DEFINE g == order \o pad
<1>11. /\ g \in Seq(RowId) /\ Len(g) = Len(order) + k /\ Distinct(g)
       /\ RowsOf(g) \cap RowsOf(made) = {} /\ RowsOf(order) \subseteq RowsOf(g)
       /\ index \in 1 .. (Len(g) + 1)
       /\ o = PutBefore(g, index, made)
       /\ \A i \in 1 .. Len(order) : g[i] = order[i] /\ i \in 1 .. Len(g)
  BY <1>1, <1>5, <1>9, <1>10
<1> HIDE DEF g
<1>12. o \in Seq(RowId) /\ Len(o) = Len(g) + Len(made)
  BY <1>4, <1>11, PutBeforeAt
<1>13. Distinct(o) /\ RowsOf(o) = RowsOf(g) \cup RowsOf(made)
  BY <1>4, <1>6, <1>11, PutBeforeDistinct
<1>14. Ordered(o, Len(order) + k + n) /\ RowsOf(order) \subseteq RowsOf(o)
  BY <1>4, <1>11, <1>12, <1>13 DEF Ordered
<1>17. ASSUME NEW i \in 1 .. Len(order)
       PROVE  /\ ShiftIndex(i, index, n) \in 1 .. Len(o)
              /\ o[ShiftIndex(i, index, n)] = order[i]
  <2>1. i \in 1 .. Len(g) /\ g[i] = order[i] /\ Len(made) > 0
    BY <1>4, <1>11
  <2> QED  BY <1>4, <1>11, <2>1, InsertedOrder
<1> QED  BY <1>14, <1>17 DEF o, pad, made, k

-----------------------------------------------------------------------------
(* Metadata keyed by index stays inside the window.                        *)

Window(i, count) == i \in Indices /\ (count > 0 => i + count <= MaxRows)

LEMMA ShiftIndexType ==
    ASSUME NEW index \in Indices, NEW count \in Int \ {0}, NEW i, Window(i, count)
    PROVE  /\ ShiftIndex(i, index, count) \in Indices \cup {Gone}
           /\ ShiftBoundary(i, index, count) \in Indices
           /\ count > 0 => ShiftIndex(i, index, count) # Gone
  BY MaxRowsAssumption DEF Window, Indices, ShiftIndex, ShiftBoundary, Gone

LEMMA RemapIndexType ==
    ASSUME NEW src \in Indices, NEW n \in Indices, NEW dst \in 1 .. (MaxRows + 1),
           src + n <= MaxRows + 1, dst \notin src .. (src + n), NEW i \in Indices
    PROVE  RemapIndex(i, src, n, dst) \in Indices
  BY MaxRowsAssumption DEF Indices, RemapIndex

LEMMA ShiftDimensionMapType ==
    ASSUME NEW index \in Indices, NEW count \in Int \ {0}, NEW map, NEW V,
           \A i \in DOMAIN map : Window(i, count) /\ map[i] \in V
    PROVE  LET new == ShiftDimensionMap(map, index, count)
           IN  DOMAIN new \subseteq Indices /\ \A i \in DOMAIN new : new[i] \in V
<1> DEFINE kept == {i \in DOMAIN map : ShiftIndex(i, index, count) # Gone}
           new  == [j \in {ShiftIndex(i, index, count) : i \in kept} |->
                       map[CHOOSE i \in kept : ShiftIndex(i, index, count) = j]]
<1>1. ShiftDimensionMap(map, index, count) = new
  BY DEF ShiftDimensionMap, Rekey
<1>2. DOMAIN new \subseteq Indices
  BY ShiftIndexType
<1>3. ASSUME NEW j \in DOMAIN new
      PROVE  new[j] \in V
  <2>1. PICK i \in kept : ShiftIndex(i, index, count) = j
    OBVIOUS
  <2>2. (CHOOSE k \in kept : ShiftIndex(k, index, count) = j) \in kept
    BY <2>1
  <2> QED  BY <2>2
<1> QED  BY <1>1, <1>2, <1>3

LEMMA MoveDimensionMapType ==
    ASSUME NEW src \in Indices, NEW n \in Indices, NEW dst \in 1 .. (MaxRows + 1),
           src + n <= MaxRows + 1, dst \notin src .. (src + n), NEW map, NEW V,
           DOMAIN map \subseteq Indices, \A i \in DOMAIN map : map[i] \in V
    PROVE  LET new == MoveDimensionMap(map, src, n, dst)
           IN  DOMAIN new \subseteq Indices /\ \A i \in DOMAIN new : new[i] \in V
<1> DEFINE kept == {i \in DOMAIN map : RemapIndex(i, src, n, dst) # Gone}
           new  == [j \in {RemapIndex(i, src, n, dst) : i \in kept} |->
                       map[CHOOSE i \in kept : RemapIndex(i, src, n, dst) = j]]
<1>1. MoveDimensionMap(map, src, n, dst) = new
  BY DEF MoveDimensionMap, Rekey
<1>2. DOMAIN new \subseteq Indices
  BY RemapIndexType
<1>3. ASSUME NEW j \in DOMAIN new
      PROVE  new[j] \in V
  <2>1. PICK i \in kept : RemapIndex(i, src, n, dst) = j
    OBVIOUS
  <2>2. (CHOOSE k \in kept : RemapIndex(k, src, n, dst) = j) \in kept
    BY <2>1
  <2> QED  BY <2>2
<1> QED  BY <1>1, <1>2, <1>3

LEMMA ShiftRangesType ==
    ASSUME NEW index \in Indices, NEW count \in Int \ {0}, NEW r \in Ranges,
           Window(r.from, count), Window(r.to, count)
    PROVE  /\ ShiftRuleRange(r, index, count) \in Ranges
           /\ ShiftA1Range(r, index, count) \in Ranges \cup {GoneRange}
           /\ ShiftMergeAxis(r, index, count).from < ShiftMergeAxis(r, index, count).to
                => ShiftMergeAxis(r, index, count) \in Ranges
<1>1. r.from \in Indices /\ r.to \in Indices /\ r.from <= r.to
  BY DEF Ranges
<1>2. ShiftRuleRange(r, index, count) \in Ranges
  <2>1. /\ ShiftBoundary(r.from, index, count) \in Indices
        /\ ShiftBoundary(r.to, index, count) \in Indices
    BY ShiftIndexType
  <2> QED  BY <2>1, MaxRowsAssumption DEF ShiftRuleRange, Ranges, Indices, MinOf, MaxOf
<1>3. ShiftA1Range(r, index, count) \in Ranges \cup {GoneRange}
  <2>1. /\ ShiftIndex(r.from, index, count) \in Indices \cup {Gone}
        /\ ShiftIndex(r.to, index, count) \in Indices \cup {Gone}
    BY ShiftIndexType
  <2> QED  BY <2>1, MaxRowsAssumption DEF ShiftA1Range, Ranges, Indices, Gone
<1>4. ASSUME ShiftMergeAxis(r, index, count).from < ShiftMergeAxis(r, index, count).to
      PROVE  ShiftMergeAxis(r, index, count) \in Ranges
  <2>1. CASE count > 0
    BY <1>1, <1>4, <2>1, MaxRowsAssumption DEF ShiftMergeAxis, Ranges, Indices, Window
  <2>2. CASE count < 0
    BY <1>1, <1>4, <2>2, MaxRowsAssumption
       DEF ShiftMergeAxis, Ranges, Indices, MinOf, MaxOf, GoneRange, Gone
  <2> QED  BY <2>1, <2>2
<1> QED  BY <1>2, <1>3, <1>4

LEMMA MoveHullType ==
    ASSUME NEW src \in Indices, NEW n \in Indices, NEW dst \in 1 .. (MaxRows + 1),
           src + n <= MaxRows + 1, dst \notin src .. (src + n), NEW r \in Ranges
    PROVE  MoveHull(r, src, n, dst) \in Ranges
<1>1. RemapIndex(r.from, src, n, dst) \in Indices /\ RemapIndex(r.to, src, n, dst) \in Indices
  BY RemapIndexType DEF Ranges
<1> QED  BY <1>1, MaxRowsAssumption DEF MoveHull, Ranges, Indices, MinOf, MaxOf

-----------------------------------------------------------------------------
(* The inductive invariant, one lemma per action that does more than set   *)
(* one variable.                                                           *)

Inv == TypeOK /\ NoOrphans

LEMMA AnchorsType ==
    ASSUME TypeOK, NEW i \in Indices
    PROVE  AnchorsOf(i) \subseteq Indices
  BY DEF TypeOK, RangesOK, AnchorsOf, Ranges

(* Growing the order keeps the invariant of what is keyed by row id.       *)
LEMMA GrowStep ==
    ASSUME Inv, NEW at \in Indices, NEW new \in NewIds(Missing(at)), order' = order \o new
    PROVE  /\ OrderOK'
           /\ (order \o new)[at] \in RowsOf(order')
           /\ RowsOf(order') \subseteq RowId
           /\ RowsOf(order) \subseteq RowsOf(order')
<1>1. OrderOK /\ order \in Seq(RowId) /\ Len(order) \in Nat /\ Len(order) <= MaxRows
  BY DEF Inv, TypeOK, OrderOK
<1>2. /\ Missing(at) \in Nat
      /\ Len(order) + Missing(at) <= MaxRows /\ at <= Len(order) + Missing(at)
  BY <1>1, MaxRowsAssumption DEF Missing, MaxOf, Indices
<1>3. Fresh(new, Missing(at))
  BY <1>2, NewIdsAreFresh
<1>4. /\ order' \in Seq(RowId) /\ Len(order') = Len(order) + Missing(at)
      /\ Distinct(order') /\ RowsOf(order) \subseteq RowsOf(order')
  BY <1>1, <1>2, <1>3, GrownOrder
<1>5. at \in DOMAIN order'
  BY <1>1, <1>2, <1>4 DEF Indices
<1>6. order'[at] \in RowsOf(order') /\ RowsOf(order') \subseteq RowId
  BY <1>4, <1>5 DEF RowsOf
<1> QED  BY <1>2, <1>4, <1>6 DEF OrderOK

LEMMA SetCellStep ==
    ASSUME Inv, NEW i \in Indices, NEW c \in Contents, SetCell(i, c)
    PROVE  Inv'
<1>0. PICK at \in AnchorsOf(i) : \E new \in NewIds(Missing(at)) :
         /\ order' = order \o new
         /\ cells' = Put(cells, (order \o new)[at], c)
         /\ UNCHANGED <<heights, hidden, savedHidden, merges, rules, chart, frozen, threads>>
  BY DEF SetCell
<1>1. PICK new \in NewIds(Missing(at)) :
         /\ order' = order \o new
         /\ cells' = Put(cells, (order \o new)[at], c)
         /\ UNCHANGED <<heights, hidden, savedHidden, merges, rules, chart, frozen, threads>>
  BY <1>0
<1>2. at \in Indices
  BY AnchorsType DEF Inv
<1>3. /\ OrderOK' /\ (order \o new)[at] \in RowsOf(order')
      /\ RowsOf(order') \subseteq RowId /\ RowsOf(order) \subseteq RowsOf(order')
  BY <1>1, <1>2, GrowStep
<1>4. CellsOK'
  BY <1>1, <1>3 DEF Inv, TypeOK, CellsOK, Put, Contents, References
<1>5. NoOrphans'
  BY <1>1, <1>3 DEF Inv, NoOrphans, Put
<1> QED
  BY <1>1, <1>3, <1>4, <1>5
     DEF Inv, TypeOK, HeightsOK, HiddenOK, RangesOK, FrozenOK, ThreadsOK

LEMMA AddThreadStep ==
    ASSUME Inv, NEW t \in ThreadIds, NEW i \in Indices, AddThread(t, i)
    PROVE  Inv'
<1>1. PICK new \in NewIds(Missing(i)) :
         /\ order' = order \o new
         /\ threads' = Put(threads, t, (order \o new)[i])
         /\ UNCHANGED <<cells, heights, hidden, savedHidden, merges, rules, chart, frozen>>
  BY DEF AddThread
<1>2. /\ OrderOK' /\ (order \o new)[i] \in RowsOf(order')
      /\ RowsOf(order') \subseteq RowId /\ RowsOf(order) \subseteq RowsOf(order')
  BY <1>1, GrowStep
<1>3. ThreadsOK'
  BY <1>1, <1>2 DEF Inv, TypeOK, ThreadsOK, Put
<1>4. NoOrphans'
  BY <1>1, <1>2 DEF Inv, NoOrphans, Put
<1> QED
  BY <1>1, <1>2, <1>3, <1>4
     DEF Inv, TypeOK, CellsOK, HeightsOK, HiddenOK, RangesOK, FrozenOK, Contents, References

(* Edits that leave the order alone.                                       *)
LEMMA PlainEditStep ==
    ASSUME Inv,
           \/ \E i \in Indices : ClearCell(i) \/ HideRow(i) \/ ShowRow(i)
           \/ \E i \in Indices, h \in Heights : SetRowHeight(i, h)
           \/ Reload
           \/ \E r \in Ranges :
                 MergeRows(r) \/ UnmergeRows(r) \/ AddRule(r) \/ InsertChart(r)
           \/ \E c \in Charts : UpdateChart(c)
           \/ \E k \in 0 .. MaxFrozen : SetFreezePane(k)
    PROVE  Inv'
<1> USE DEF Inv, TypeOK, NoOrphans
<1>1. ASSUME NEW i \in Indices, ClearCell(i) PROVE Inv'
  BY <1>1 DEF ClearCell, Drop, OrderOK, CellsOK, HeightsOK, HiddenOK, RangesOK, FrozenOK,
              ThreadsOK, Contents, References
<1>2. ASSUME NEW i \in Indices, HideRow(i) \/ ShowRow(i) PROVE Inv'
  BY <1>2 DEF HideRow, ShowRow, OrderOK, CellsOK, HeightsOK, HiddenOK, RangesOK, FrozenOK,
              ThreadsOK, Contents, References
<1>3. ASSUME NEW i \in Indices, NEW h \in Heights, SetRowHeight(i, h) PROVE Inv'
  BY <1>3 DEF SetRowHeight, Put, OrderOK, CellsOK, HeightsOK, HiddenOK, RangesOK, FrozenOK,
              ThreadsOK, Contents, References
<1>4. ASSUME Reload PROVE Inv'
  BY <1>4 DEF Reload, OrderOK, CellsOK, HeightsOK, HiddenOK, RangesOK, FrozenOK,
              ThreadsOK, Contents, References
<1>5. ASSUME NEW r \in Ranges, MergeRows(r) PROVE Inv'
  BY <1>5 DEF MergeRows, Drop, OrderOK, CellsOK, HeightsOK, HiddenOK, RangesOK, FrozenOK,
              ThreadsOK, Contents, References
<1>6. ASSUME NEW r \in Ranges, UnmergeRows(r) \/ AddRule(r) PROVE Inv'
  BY <1>6 DEF UnmergeRows, AddRule, OrderOK, CellsOK, HeightsOK, HiddenOK, RangesOK,
              FrozenOK, ThreadsOK, Contents, References
<1>7. ASSUME NEW r \in Ranges, InsertChart(r) PROVE Inv'
  BY <1>7 DEF InsertChart, Charts, Ranges, OrderOK, CellsOK, HeightsOK, HiddenOK, RangesOK,
              FrozenOK, ThreadsOK, Contents, References
<1>8. ASSUME NEW c \in Charts, UpdateChart(c) PROVE Inv'
  BY <1>8 DEF UpdateChart, OrderOK, CellsOK, HeightsOK, HiddenOK, RangesOK,
              FrozenOK, ThreadsOK, Contents, References
<1>9. ASSUME NEW k \in 0 .. MaxFrozen, SetFreezePane(k) PROVE Inv'
  BY <1>9, MaxRowsAssumption, MaxFrozenAssumption
     DEF SetFreezePane, OrderOK, CellsOK, HeightsOK, HiddenOK, RangesOK,
         FrozenOK, ThreadsOK, Contents, References
<1> QED  BY <1>1, <1>2, <1>3, <1>4, <1>5, <1>6, <1>7, <1>8, <1>9

LEMMA ShiftMetadataStep ==
    ASSUME TypeOK, NEW index \in Indices, NEW count \in Int \ {0},
           \A u \in Used : count > 0 => u + count <= MaxRows,
           ShiftMetadata(index, count)
    PROVE  HeightsOK' /\ HiddenOK' /\ RangesOK' /\ FrozenOK'
<1> USE DEF TypeOK
<1>1. HeightsOK'
  <2>1. \A i \in DOMAIN heights : Window(i, count) /\ heights[i] \in Heights
    BY DEF HeightsOK, Window, Used
  <2>2. heights' = ShiftDimensionMap(heights, index, count)
    BY DEF ShiftMetadata
  <2>3. /\ DOMAIN heights' \subseteq Indices
        /\ \A i \in DOMAIN heights' : heights'[i] \in Heights
    BY <2>1, <2>2, ShiftDimensionMapType
  <2> QED  BY <2>3 DEF HeightsOK
<1>2. HiddenOK'
  <2>1. \A i \in hidden : Window(i, count)
    BY DEF HiddenOK, Window, Used
  <2>2. \A i \in hidden : ShiftIndex(i, index, count) \in Indices \cup {Gone}
    BY <2>1, ShiftIndexType
  <2> QED  BY <2>2 DEF HiddenOK, ShiftMetadata, ShiftIndexSet
<1>3. RangesOK'
  <2>1. ASSUME NEW m \in merges \cup rules
        PROVE  m \in Ranges /\ Window(m.from, count) /\ Window(m.to, count)
    BY DEF RangesOK, Ranges, Window, Used, RangeEnds
  <2>2. merges' \subseteq Ranges
    <3>1. merges' \subseteq ShiftMergeMap(merges, index, count)
      BY DEF ShiftMetadata, OnePerAnchor
    <3>2. ASSUME NEW m \in merges,
                 ShiftMergeAxis(m, index, count).from < ShiftMergeAxis(m, index, count).to
          PROVE  ShiftMergeAxis(m, index, count) \in Ranges
      BY <2>1, <3>2, ShiftRangesType
    <3>3. ShiftMergeMap(merges, index, count) \subseteq Ranges
      BY <3>2 DEF ShiftMergeMap
    <3> QED  BY <3>1, <3>3
  <2>3. rules' \subseteq Ranges
    <3>1. \A r \in rules : ShiftRuleRange(r, index, count) \in Ranges
      BY <2>1, ShiftRangesType
    <3> QED  BY <3>1 DEF ShiftMetadata
  <2>4. CASE chart = NoChart
    <3>1. chart' = NoChart
      BY <2>4 DEF ShiftMetadata
    <3> QED  BY <2>2, <2>3, <3>1 DEF RangesOK
  <2>5. CASE chart # NoChart
    <3> DEFINE at  == ShiftIndex(chart.anchor, index, count)
               src == ShiftA1Range(chart.source, index, count)
    <3>1. /\ chart.anchor \in Indices /\ chart.source \in Ranges
          /\ chart.source.from \in Indices /\ chart.source.to \in Indices
      BY <2>5 DEF RangesOK, Charts, Ranges
    <3>2. {chart.anchor, chart.source.from, chart.source.to} \subseteq Used
      BY <2>5 DEF Used
    <3>3. /\ Window(chart.anchor, count)
          /\ Window(chart.source.from, count) /\ Window(chart.source.to, count)
      BY <3>1, <3>2 DEF Window
    <3>4. at \in Indices \cup {Gone}
      BY <3>3, ShiftIndexType
    <3>5. src \in Ranges \cup {GoneRange}
      BY <3>1, <3>3, ShiftRangesType
    <3>6. chart' = [anchor |-> IF at = Gone THEN MaxOf(1, index) ELSE at,
                    source |-> IF src = GoneRange THEN chart.source ELSE src]
      BY <2>5 DEF ShiftMetadata
    <3> HIDE DEF at, src
    <3>7. MaxOf(1, index) \in Indices
      BY MaxRowsAssumption DEF MaxOf, Indices
    <3>8. chart' \in Charts
      BY <3>1, <3>4, <3>5, <3>6, <3>7 DEF Charts
    <3> QED  BY <2>2, <2>3, <3>8 DEF RangesOK
  <2> QED  BY <2>4, <2>5
<1>4. FrozenOK'
  <2>1. frozen \in 0 .. MaxRows /\ (count > 0 => frozen + count <= MaxRows)
    BY DEF FrozenOK, Used
  <2>2. frozen' = ShiftFrozen(frozen, index, count)
    BY DEF ShiftMetadata
  <2> QED
    BY <2>1, <2>2, MaxRowsAssumption DEF FrozenOK, ShiftFrozen, MaxOf, MinOf, Indices
<1> QED  BY <1>1, <1>2, <1>3, <1>4

LEMMA ShiftFormulasType ==
    ASSUME NEW index \in Indices, NEW count \in Int \ {0}, NEW ord, NEW f,
           DOMAIN f \subseteq RowId, \A id \in DOMAIN f : f[id] \in Contents,
           \A id \in DOMAIN f : f[id] \in References \ {GoneRange} =>
               Window(f[id].from, count) /\ Window(f[id].to, count)
    PROVE  LET new == ShiftFormulas(f, ord, index, count)
           IN  /\ DOMAIN new = DOMAIN f
               /\ \A id \in DOMAIN new :
                     /\ new[id] \in Contents
                     /\ IF f[id] \in References THEN new[id] \in References
                        ELSE new[id] = f[id]
<1>1. ASSUME NEW ref \in References, Window(ref.from, count), Window(ref.to, count)
      PROVE  ShiftReference(ref, index, count) \in References
  <2>1. /\ ShiftIndex(ref.from, index, count) \in Indices \cup {Gone}
        /\ ShiftIndex(ref.to, index, count) \in Indices \cup {Gone}
    BY <1>1, ShiftIndexType
  <2> QED  BY <2>1 DEF ShiftReference, References
<1> QED  BY <1>1 DEF ShiftFormulas, RewriteFormulas, Contents

LEMMA MoveFormulasType ==
    ASSUME NEW src \in Indices, NEW n \in Indices, NEW dst \in 1 .. (MaxRows + 1),
           src + n <= MaxRows + 1, dst \notin src .. (src + n), NEW ord, NEW f,
           DOMAIN f \subseteq RowId, \A id \in DOMAIN f : f[id] \in Contents
    PROVE  LET new == MoveFormulas(f, ord, src, n, dst)
           IN  /\ DOMAIN new = DOMAIN f
               /\ \A id \in DOMAIN new :
                     /\ new[id] \in Contents
                     /\ IF f[id] \in References THEN new[id] \in References
                        ELSE new[id] = f[id]
<1>1. ASSUME NEW ref \in References \ {GoneRange}
      PROVE  MoveReference(ref, src, n, dst) \in References
  <2>1. ref.from \in Indices /\ ref.to \in Indices
    BY DEF References
  <2>2. /\ RemapIndex(ref.from, src, n, dst) \in Indices
        /\ RemapIndex(ref.to, src, n, dst) \in Indices
    BY <2>1, RemapIndexType
  <2> QED  BY <2>2 DEF MoveReference, References
<1> QED  BY <1>1 DEF MoveFormulas, RewriteFormulas, Contents

LEMMA InsertRowsStep ==
    ASSUME Inv, NEW index \in Indices, NEW n \in Indices, InsertRows(index, n)
    PROVE  Inv'
<1>1. /\ TypeOK /\ index \in Nat \ {0} /\ n \in Nat \ {0} /\ n \in Int \ {0}
      /\ order \in Seq(RowId) /\ Len(order) \in Nat /\ Len(order) <= MaxRows
  BY DEF Inv, TypeOK, OrderOK, Indices
<1>2. \A u \in Used : u + n <= MaxRows
  BY DEF InsertRows
<1>8. MaxRows \in Nat /\ index + n <= MaxRows + 1
  BY MaxRowsAssumption DEF InsertRows
<1>3. OrderOK' /\ RowsOf(order) \subseteq RowsOf(order')
  <2> DEFINE k == Missing(index - 1)
  <2>1. PICK new \in NewIds(k + n) :
           order' = PutBefore(order \o SubSeq(new, 1, k), index,
                              SubSeq(new, k + 1, Len(new)))
    BY DEF InsertRows
  <2>2. /\ Ordered(order', Len(order) + k + n)
        /\ RowsOf(order) \subseteq RowsOf(order')
    BY <1>1, <2>1, InsertedRows DEF TypeOK
  <2>3. Len(order) + k + n <= MaxRows
    <3>1. CASE Len(order) = 0
      BY <1>1, <1>8, <3>1 DEF Missing, MaxOf
    <3>2. CASE Len(order) > 0
      <4>1. Len(order) \in Used
        BY <1>1, <3>2 DEF Used
      <4>2. Len(order) + n <= MaxRows
        BY <1>2, <4>1
      <4> QED  BY <1>1, <1>8, <4>2 DEF Missing, MaxOf
    <3> QED  BY <1>1, <3>1, <3>2
  <2> QED  BY <2>2, <2>3 DEF OrderOK, Ordered
<1>4. /\ CellsOK' /\ DOMAIN cells' = DOMAIN cells
  <2>1. cells' = ShiftFormulas(cells, order', index, n)
    BY DEF InsertRows
  <2>2. DOMAIN cells \subseteq RowId /\ \A id \in DOMAIN cells : cells[id] \in Contents
    BY <1>1 DEF TypeOK, CellsOK
  <2>3. ASSUME NEW id \in DOMAIN cells, cells[id] \in References \ {GoneRange}
        PROVE  Window(cells[id].from, n) /\ Window(cells[id].to, n)
    <3>1. cells[id].from \in Indices /\ cells[id].to \in Indices
      BY <2>3 DEF References
    <3>2. id \in FormulaIds
      BY <2>3 DEF FormulaIds
    <3>3. cells[id].from \in Used /\ cells[id].to \in Used
      BY <3>2 DEF Used, RangeEnds
    <3> QED  BY <1>2, <3>1, <3>3 DEF Window
  <2>4. /\ DOMAIN cells' = DOMAIN cells
        /\ \A id \in DOMAIN cells' : cells'[id] \in Contents
    BY <1>1, <2>1, <2>2, <2>3, ShiftFormulasType
  <2> QED  BY <2>2, <2>4 DEF CellsOK, Contents, References
<1>5. HeightsOK' /\ HiddenOK' /\ RangesOK' /\ FrozenOK'
  <2>1. ShiftMetadata(index, n)
    BY DEF InsertRows
  <2> QED  BY <1>1, <1>2, <2>1, ShiftMetadataStep
<1>6. threads' = threads
  BY DEF InsertRows
<1>7. ThreadsOK' /\ NoOrphans'
  BY <1>3, <1>4, <1>6 DEF Inv, TypeOK, ThreadsOK, NoOrphans
<1> QED  BY <1>3, <1>4, <1>5, <1>7 DEF Inv, TypeOK

LEMMA DeleteRowsStep ==
    ASSUME Inv, NEW index \in Indices, NEW n \in Indices, DeleteRows(index, n)
    PROVE  Inv'
<1> DEFINE removed == RowsOf(Taken(order, index, n))
<1>1. /\ TypeOK /\ index \in Nat \ {0} /\ n \in Nat \ {0}
      /\ -n \in Int \ {0} /\ ~(-n > 0)
      /\ order \in Seq(RowId) /\ Len(order) \in Nat /\ Len(order) <= MaxRows
      /\ Distinct(order)
  BY DEF Inv, TypeOK, OrderOK, Indices
<1>2. OrderOK' /\ RowsOf(order') = RowsOf(order) \ removed
  <2>1. order' = Without(order, index, n)
    BY DEF DeleteRows
  <2>2. /\ order' \in Seq(RowId)
        /\ Len(order') = IF index > Len(order) THEN Len(order)
                         ELSE IF index + n - 1 <= Len(order) THEN Len(order) - n
                         ELSE index - 1
    BY <1>1, <2>1, WithoutAt
  <2>3. Len(order') <= MaxRows
    <3>1. (IF index > Len(order) THEN Len(order)
           ELSE IF index + n - 1 <= Len(order) THEN Len(order) - n ELSE index - 1) <= MaxRows
      BY <1>1, MaxRowsAssumption
    <3> QED  BY <2>2, <3>1
  <2>4. Distinct(order') /\ RowsOf(order') = RowsOf(order) \ removed
    BY <1>1, <2>1, WithoutDistinct
  <2> QED  BY <2>2, <2>3, <2>4 DEF OrderOK
<1>3. CellsOK' /\ DOMAIN cells' = DOMAIN cells \ removed
  <2> DEFINE kept == Drop(cells, removed)
  <2>1. cells' = ShiftFormulas(kept, order', index, -n)
    BY DEF DeleteRows
  <2>2. /\ DOMAIN kept = DOMAIN cells \ removed
        /\ \A id \in DOMAIN kept : kept[id] = cells[id]
    BY DEF Drop
  <2> HIDE DEF kept, removed
  <2>3. DOMAIN kept \subseteq RowId /\ \A id \in DOMAIN kept : kept[id] \in Contents
    BY <1>1, <2>2 DEF TypeOK, CellsOK
  <2>4. ASSUME NEW id \in DOMAIN kept, kept[id] \in References \ {GoneRange}
        PROVE  Window(kept[id].from, -n) /\ Window(kept[id].to, -n)
    BY <1>1, <2>4 DEF References, Window
  <2>5. /\ DOMAIN cells' = DOMAIN kept
        /\ \A id \in DOMAIN cells' : cells'[id] \in Contents
    BY <1>1, <2>1, <2>3, <2>4, ShiftFormulasType
  <2> QED  BY <2>2, <2>3, <2>5 DEF CellsOK, Contents, References
<1>4. HeightsOK' /\ HiddenOK' /\ RangesOK' /\ FrozenOK'
  <2>1. ShiftMetadata(index, -n)
    BY DEF DeleteRows
  <2> QED  BY <1>1, <2>1, ShiftMetadataStep
<1>5. /\ DOMAIN threads' = {t \in DOMAIN threads : threads[t] \notin removed}
      /\ \A t \in DOMAIN threads' : threads'[t] = threads[t]
  BY DEF DeleteRows, Drop, Anchored
<1> HIDE DEF removed
<1>6. ThreadsOK'
  BY <1>1, <1>5 DEF TypeOK, ThreadsOK
<1>7. NoOrphans'
  BY <1>2, <1>3, <1>5 DEF Inv, NoOrphans
<1> QED  BY <1>2, <1>3, <1>4, <1>6, <1>7 DEF Inv, TypeOK

LEMMA MoveRowsStep ==
    ASSUME Inv, NEW src \in Indices, NEW n \in Indices, NEW dst \in 1 .. (MaxRows + 1),
           MoveRows(src, n, dst)
    PROVE  Inv'
<1>1. /\ TypeOK /\ src \in Nat \ {0} /\ n \in Nat \ {0} /\ dst \in Nat \ {0}
      /\ src + n <= MaxRows + 1 /\ dst \notin src .. (src + n)
      /\ OrderOK /\ Len(order) \in Nat /\ Len(order) <= MaxRows
  BY MaxRowsAssumption DEF Inv, TypeOK, OrderOK, Indices, MoveRows
<1>2. OrderOK' /\ RowsOf(order) \subseteq RowsOf(order')
  <2> DEFINE k == Missing(MaxOf(src + n - 1, dst - 1))
  <2>1. PICK new \in NewIds(k) : order' = MoveOrder(order \o new, src, n, dst)
    BY DEF MoveRows
  <2>2. /\ k \in Nat /\ Len(order) + k <= MaxRows
        /\ src + n - 1 <= Len(order) + k /\ dst - 1 <= Len(order) + k
    BY <1>1, MaxRowsAssumption DEF Missing, MaxOf
  <2> HIDE DEF k
  <2>3. Fresh(new, k)
    BY <2>2, NewIdsAreFresh
  <2> DEFINE g == order \o new
  <2>4. /\ g \in Seq(RowId) /\ Len(g) = Len(order) + k /\ Distinct(g)
        /\ RowsOf(order) \subseteq RowsOf(g)
    BY <1>1, <2>2, <2>3, GrownOrder
  <2>5. order' = MoveOrder(g, src, n, dst)
    BY <2>1
  <2> HIDE DEF g
  <2>6. order' \in Seq(RowId) /\ Len(order') = Len(g)
    BY <1>1, <2>2, <2>4, <2>5, MovedOrder
  <2>7. Distinct(order') /\ RowsOf(order') = RowsOf(g)
    <3>1. src + n - 1 <= Len(g) /\ dst - 1 <= Len(g)
      BY <1>1, <2>2, <2>4
    <3>2. /\ Distinct(MoveOrder(g, src, n, dst))
          /\ RowsOf(MoveOrder(g, src, n, dst)) = RowsOf(g)
      BY <1>1, <2>4, <3>1, MoveDistinct
    <3> QED  BY <2>5, <3>2
  <2> QED  BY <2>2, <2>4, <2>6, <2>7 DEF OrderOK
<1>3. CellsOK' /\ DOMAIN cells' = DOMAIN cells
  <2>1. cells' = MoveFormulas(cells, order', src, n, dst)
    BY DEF MoveRows
  <2>2. DOMAIN cells \subseteq RowId /\ \A id \in DOMAIN cells : cells[id] \in Contents
    BY <1>1 DEF TypeOK, CellsOK
  <2>3. /\ DOMAIN cells' = DOMAIN cells
        /\ \A id \in DOMAIN cells' : cells'[id] \in Contents
    BY <1>1, <2>1, <2>2, MoveFormulasType
  <2> QED  BY <2>2, <2>3 DEF CellsOK, Contents, References
<1>4. HeightsOK'
  <2>1. heights' = MoveDimensionMap(heights, src, n, dst)
    BY DEF MoveRows
  <2>2. DOMAIN heights \subseteq Indices /\ \A i \in DOMAIN heights : heights[i] \in Heights
    BY <1>1 DEF TypeOK, HeightsOK
  <2>3. /\ DOMAIN heights' \subseteq Indices
        /\ \A i \in DOMAIN heights' : heights'[i] \in Heights
    BY <1>1, <2>1, <2>2, MoveDimensionMapType
  <2> QED  BY <2>3 DEF HeightsOK
<1>5. HiddenOK'
  <2>1. \A i \in hidden : RemapIndex(i, src, n, dst) \in Indices
    BY <1>1, RemapIndexType DEF TypeOK, HiddenOK
  <2> QED  BY <1>1, <2>1 DEF TypeOK, HiddenOK, MoveRows, MoveIndexSet
<1>6. RangesOK'
  <2>1. \A r \in Ranges : MoveHull(r, src, n, dst) \in Ranges
    BY <1>1, MoveHullType
  <2>2. merges \subseteq Ranges /\ rules \subseteq Ranges /\ chart \in Charts \cup {NoChart}
    BY <1>1 DEF TypeOK, RangesOK
  <2>3. merges' \subseteq Ranges
    <3>1. merges' \subseteq MoveMergeMap(merges, src, n, dst)
      BY DEF MoveRows, OnePerAnchor
    <3> QED  BY <2>1, <2>2, <3>1 DEF MoveMergeMap
  <2>4. rules' \subseteq Ranges
    BY <2>1, <2>2 DEF MoveRows
  <2>5. chart' \in Charts \cup {NoChart}
    <3>1. CASE chart = NoChart
      BY <3>1 DEF MoveRows
    <3>2. CASE chart # NoChart
      <4>1. chart.anchor \in Indices /\ chart.source \in Ranges
        BY <2>2, <3>2 DEF Charts
      <4>2. /\ RemapIndex(chart.anchor, src, n, dst) \in Indices
            /\ MoveHull(chart.source, src, n, dst) \in Ranges
        BY <1>1, <2>1, <4>1, RemapIndexType
      <4>3. chart' = [anchor |-> RemapIndex(chart.anchor, src, n, dst),
                      source |-> MoveHull(chart.source, src, n, dst)]
        BY <3>2 DEF MoveRows
      <4> QED  BY <4>2, <4>3 DEF Charts
    <3> QED  BY <3>1, <3>2
  <2> QED  BY <2>3, <2>4, <2>5 DEF RangesOK
<1>7. frozen' = frozen /\ threads' = threads
  BY DEF MoveRows
<1>8. FrozenOK' /\ ThreadsOK' /\ NoOrphans'
  BY <1>2, <1>3, <1>7 DEF Inv, TypeOK, FrozenOK, ThreadsOK, NoOrphans
<1> QED  BY <1>2, <1>3, <1>4, <1>5, <1>6, <1>8 DEF Inv, TypeOK

LEMMA NextStep == Inv /\ [Next]_vars => Inv'
<1> SUFFICES ASSUME Inv, [Next]_vars PROVE Inv'
  OBVIOUS
<1>1. CASE Edit
  <2>1. ASSUME NEW i \in Indices, NEW c \in Values \cup [from : Indices, to : Indices],
               SetCell(i, c)
        PROVE  Inv'
    <3>1. c \in Contents
      BY DEF Contents, References
    <3> QED  BY <2>1, <3>1, SetCellStep
  <2>2. ASSUME NEW t \in ThreadIds, NEW i \in Indices, AddThread(t, i) PROVE Inv'
    BY <2>2, AddThreadStep
  <2>3. CASE \/ \E i \in Indices : ClearCell(i) \/ HideRow(i) \/ ShowRow(i)
             \/ \E i \in Indices, h \in Heights : SetRowHeight(i, h)
             \/ Reload
             \/ \E r \in Ranges :
                   MergeRows(r) \/ UnmergeRows(r) \/ AddRule(r) \/ InsertChart(r)
             \/ \E c \in Charts : UpdateChart(c)
             \/ \E k \in 0 .. MaxFrozen : SetFreezePane(k)
    BY <2>3, PlainEditStep
  <2> QED  BY <1>1, <2>1, <2>2, <2>3 DEF Edit
<1>2. CASE Shift
  BY <1>2, InsertRowsStep, DeleteRowsStep DEF Shift
<1>3. CASE Move
  BY <1>3, MoveRowsStep DEF Move
<1>4. CASE UNCHANGED vars
  BY <1>4 DEF vars, Inv, TypeOK, NoOrphans, OrderOK, CellsOK, HeightsOK, HiddenOK,
              RangesOK, FrozenOK, ThreadsOK, Contents, References
<1> QED  BY <1>1, <1>2, <1>3, <1>4 DEF Next

LEMMA InitInv == Init => Inv
  BY MaxRowsAssumption
     DEF Init, Inv, TypeOK, NoOrphans, OrderOK, CellsOK, HeightsOK, HiddenOK, RangesOK,
         FrozenOK, ThreadsOK, Distinct, RowsOf

(* Every reachable state is well formed: no edit, in any order, names a row *)
(* twice or pushes an index-keyed range out of shape.                      *)
THEOREM TypeCorrect == Spec => []TypeOK
<1>1. Inv => TypeOK
  BY DEF Inv
<1> QED  BY InitInv, NextStep, <1>1, PTL DEF Spec

(* A delete leaves no cell and no comment thread behind under the id of a  *)
(* row that is gone, so a row that gets the same id again starts empty.    *)
THEOREM NothingOrphaned == Spec => []NoOrphans
<1>1. Inv => NoOrphans
  BY DEF Inv
<1> QED  BY InitInv, NextStep, <1>1, PTL DEF Spec

-----------------------------------------------------------------------------
(* Where an insert, a delete or a move sends each row: row i of the old     *)
(* order is at g[i] of the new one, or gone.                                *)
Sends(g) ==
    \A i \in DOMAIN order :
        IF g[i] = Gone THEN order[i] \notin RowsOf(order')
        ELSE g[i] \in DOMAIN order' /\ order'[g[i]] = order[i]

ShiftMap(index, count) == [i \in DOMAIN order |-> ShiftIndex(i, index, count)]
MoveMap(src, n, dst) == [i \in DOMAIN order |-> RemapIndex(i, src, n, dst)]

LEMMA InsertSends ==
    ASSUME Inv, NEW index \in Indices, NEW n \in Indices, InsertRows(index, n)
    PROVE  Sends(ShiftMap(index, n))
<1> DEFINE k == Missing(index - 1)
<1>1. PICK new \in NewIds(k + n) :
         order' = PutBefore(order \o SubSeq(new, 1, k), index, SubSeq(new, k + 1, Len(new)))
  BY DEF InsertRows
<1>2. /\ index \in Nat \ {0} /\ n \in Nat \ {0} /\ OrderOK /\ order \in Seq(RowId)
  BY DEF Inv, TypeOK, OrderOK, Indices
<1>3. /\ Ordered(order', Len(order) + k + n)
      /\ \A i \in 1 .. Len(order) : /\ ShiftIndex(i, index, n) \in 1 .. Len(order')
                                    /\ order'[ShiftIndex(i, index, n)] = order[i]
  BY <1>1, <1>2, InsertedRows
<1>4. DOMAIN order = 1 .. Len(order) /\ DOMAIN order' = 1 .. Len(order')
  BY <1>2, <1>3 DEF Ordered
<1>5. \A i \in DOMAIN order : ShiftIndex(i, index, n) # Gone
  BY <1>2, <1>4 DEF ShiftIndex, Gone
<1> HIDE DEF k
<1> QED  BY <1>3, <1>4, <1>5 DEF Sends, ShiftMap

LEMMA DeleteSends ==
    ASSUME Inv, NEW index \in Indices, NEW n \in Indices, DeleteRows(index, n)
    PROVE  /\ Sends(ShiftMap(index, -n))
           /\ RowsOf(order') = RowsOf(order) \ RowsOf(Taken(order, index, n))
<1>1. /\ index \in Nat \ {0} /\ n \in Nat \ {0} /\ order \in Seq(RowId) /\ Distinct(order)
      /\ DOMAIN order = 1 .. Len(order) /\ Len(order) \in Nat
  BY DEF Inv, TypeOK, OrderOK, Indices
<1>2. order' = Without(order, index, n)
  BY DEF DeleteRows
<1>3. /\ order' \in Seq(RowId)
      /\ RowsOf(order') = RowsOf(order) \ RowsOf(Taken(order, index, n))
  BY <1>1, <1>2, WithoutAt, WithoutDistinct
<1>4. ASSUME NEW i \in DOMAIN order, i \in index .. (index + n - 1)
      PROVE  order[i] \in RowsOf(Taken(order, index, n))
  <2> DEFINE last == MinOf(index + n - 1, Len(order))
             t == Taken(order, index, n)
  <2>1. last \in Nat /\ last <= Len(order) /\ i <= last /\ index <= last
    BY <1>1, <1>4 DEF MinOf
  <2>2. t = SubSeq(order, index, last)
    BY DEF Taken
  <2> HIDE DEF last
  <2>3. /\ t \in Seq(RowId) /\ Len(t) = last - index + 1
        /\ \A j \in 1 .. Len(t) : t[j] = order[index + j - 1]
    BY <1>1, <2>1, <2>2, SubSeqAt
  <2> HIDE DEF t
  <2>4. i - index + 1 \in 1 .. Len(t) /\ index + (i - index + 1) - 1 = i
    BY <1>1, <1>4, <2>1, <2>3
  <2>5. t[i - index + 1] = order[i] /\ i - index + 1 \in DOMAIN t
    BY <2>3, <2>4
  <2>6. order[i] \in RowsOf(t)
    BY <2>5 DEF RowsOf
  <2> QED  BY <2>6 DEF t
<1>5. ASSUME NEW i \in DOMAIN order
      PROVE  IF ShiftIndex(i, index, -n) = Gone THEN order[i] \notin RowsOf(order')
             ELSE /\ ShiftIndex(i, index, -n) \in DOMAIN order'
                  /\ order'[ShiftIndex(i, index, -n)] = order[i]
  <2>1. IF i \in index .. (index + n - 1) THEN ShiftIndex(i, index, -n) = Gone
        ELSE /\ ShiftIndex(i, index, -n) \in 1 .. Len(order')
             /\ order'[ShiftIndex(i, index, -n)] = order[i]
    BY <1>1, <1>2, DeletedOrder
  <2>2. CASE i \in index .. (index + n - 1)
    BY <1>3, <1>4, <2>1, <2>2
  <2>3. CASE i \notin index .. (index + n - 1)
    BY <1>3, <2>1, <2>3 DEF Gone
  <2> QED  BY <2>2, <2>3
<1> QED  BY <1>3, <1>5 DEF Sends, ShiftMap

LEMMA RemapIndexInside ==
    ASSUME NEW src \in Nat \ {0}, NEW n \in Nat \ {0}, NEW dst \in Nat \ {0}, NEW L \in Nat,
           src + n - 1 <= L, dst - 1 <= L, dst \notin src .. (src + n), NEW i \in 1 .. L
    PROVE  RemapIndex(i, src, n, dst) \in 1 .. L /\ RemapIndex(i, src, n, dst) # Gone
<1>1. CASE dst <= src
  BY <1>1 DEF RemapIndex, Gone
<1>2. CASE ~(dst <= src)
  BY <1>2 DEF RemapIndex, Gone
<1> QED  BY <1>1, <1>2

LEMMA MoveSends ==
    ASSUME Inv, NEW src \in Indices, NEW n \in Indices, NEW dst \in 1 .. (MaxRows + 1),
           MoveRows(src, n, dst)
    PROVE  Sends(MoveMap(src, n, dst)) /\ RowsOf(order) \subseteq RowsOf(order')
<1> DEFINE k == Missing(MaxOf(src + n - 1, dst - 1))
<1>1. PICK new \in NewIds(k) : order' = MoveOrder(order \o new, src, n, dst)
  BY DEF MoveRows
<1>2. /\ src \in Nat \ {0} /\ n \in Nat \ {0} /\ dst \in Nat \ {0}
      /\ dst \notin src .. (src + n)
      /\ OrderOK /\ order \in Seq(RowId) /\ Len(order) \in Nat /\ DOMAIN order = 1 .. Len(order)
  BY MaxRowsAssumption DEF Inv, TypeOK, OrderOK, Indices, MoveRows
<1>3. /\ k \in Nat /\ src + n - 1 <= Len(order) + k /\ dst - 1 <= Len(order) + k
  BY <1>2 DEF Missing, MaxOf
<1> HIDE DEF k
<1> DEFINE g == order \o new
<1>4. /\ g \in Seq(RowId) /\ Len(g) = Len(order) + k /\ Distinct(g)
      /\ RowsOf(order) \subseteq RowsOf(g)
      /\ \A i \in 1 .. Len(order) : g[i] = order[i]
  BY <1>2, <1>3, NewIdsAreFresh, GrownOrder
<1>5. order' = MoveOrder(g, src, n, dst)
  BY <1>1
<1> HIDE DEF g
<1>6. /\ order' \in Seq(RowId) /\ Len(order') = Len(g)
      /\ \A i \in 1 .. Len(g) : order'[RemapIndex(i, src, n, dst)] = g[i]
  <2>1. src + n - 1 <= Len(g) /\ dst - 1 <= Len(g)
    BY <1>3, <1>4
  <2>2. /\ src \in Nat \ {0} /\ n \in Nat \ {0} /\ dst \in Nat \ {0}
        /\ dst \notin src .. (src + n) /\ g \in Seq(RowId)
    BY <1>2, <1>4
  <2> QED  BY <1>5, <2>1, <2>2, MovedOrder
<1>7. RowsOf(order') = RowsOf(g)
  <2>1. src + n - 1 <= Len(g) /\ dst - 1 <= Len(g)
    BY <1>3, <1>4
  <2> QED  BY <1>2, <1>4, <1>5, <2>1, MoveDistinct
<1>8. ASSUME NEW i \in DOMAIN order
      PROVE  /\ RemapIndex(i, src, n, dst) # Gone
             /\ RemapIndex(i, src, n, dst) \in DOMAIN order'
             /\ order'[RemapIndex(i, src, n, dst)] = order[i]
  <2>1. i \in 1 .. Len(g) /\ g[i] = order[i] /\ DOMAIN order' = 1 .. Len(g)
    BY <1>2, <1>3, <1>4, <1>6
  <2>2. RemapIndex(i, src, n, dst) \in 1 .. Len(g) /\ RemapIndex(i, src, n, dst) # Gone
    <3>1. /\ src + n - 1 <= Len(g) /\ dst - 1 <= Len(g) /\ Len(g) \in Nat
      BY <1>2, <1>3, <1>4
    <3>2. /\ src \in Nat \ {0} /\ n \in Nat \ {0} /\ dst \in Nat \ {0}
          /\ dst \notin src .. (src + n) /\ i \in 1 .. Len(g)
      BY <1>2, <2>1
    <3> QED  BY <3>1, <3>2, RemapIndexInside
  <2> QED  BY <1>6, <2>1, <2>2
<1> QED  BY <1>4, <1>7, <1>8 DEF Sends, MoveMap

(* Rows are found where they were sent, since no order names a row twice.   *)
LEMMA FoundWhereSent ==
    ASSUME Distinct(order), Distinct(order'), NEW g, Sends(g), NEW i \in DOMAIN order
    PROVE  /\ Survives(i) <=> g[i] # Gone
           /\ Survives(i) => NewIndex(i) = g[i]
           /\ \A j \in DOMAIN order' : order'[j] = order[i] => j = g[i] /\ g[i] # Gone
<1>1. CASE g[i] = Gone
  BY <1>1 DEF Sends, Survives, RowsOf
<1>2. CASE g[i] # Gone
  <2>1. g[i] \in DOMAIN order' /\ order'[g[i]] = order[i]
    BY <1>2 DEF Sends
  <2>2. \A j \in DOMAIN order' : order'[j] = order[i] => j = g[i]
    BY <2>1 DEF Distinct
  <2>3. NewIndex(i) = g[i]
    BY <2>1, <2>2 DEF NewIndex, Position
  <2>4. Survives(i)
    BY <2>1 DEF Survives, RowsOf
  <2> QED  BY <1>2, <2>2, <2>3, <2>4
<1> QED  BY <1>1, <1>2

(* A set S of old indices and a set T of new ones name the same rows when   *)
(* every row that is left goes from S to T or is in neither.                *)
LEMMA RowsFollow ==
    ASSUME Distinct(order), Distinct(order'), NEW g, Sends(g), NEW S, NEW T,
           \A i \in DOMAIN order : g[i] # Gone => (i \in S <=> g[i] \in T)
    PROVE  RowsAt(order', T) \cap RowsOf(order) = RowsAt(order, S) \cap RowsOf(order')
<1>1. ASSUME NEW i \in DOMAIN order
      PROVE  /\ order[i] \in RowsAt(order, S) <=> i \in S
             /\ order[i] \in RowsOf(order') =>
                   (order[i] \in RowsAt(order', T) <=> g[i] \in T)
  <2>1. order[i] \in RowsAt(order, S) <=> i \in S
    BY DEF RowsAt, Distinct
  <2>2. ASSUME order[i] \in RowsOf(order')
        PROVE  order[i] \in RowsAt(order', T) <=> g[i] \in T
    <3>1. g[i] \in DOMAIN order' /\ order'[g[i]] = order[i]
      BY <2>2 DEF Sends
    <3> QED  BY <3>1 DEF RowsAt, Distinct
  <2> QED  BY <2>1, <2>2
<1>2. \A i \in DOMAIN order : order[i] \in RowsOf(order') => g[i] # Gone
  BY DEF Sends
<1>3. /\ RowsAt(order, S) \subseteq RowsOf(order) /\ RowsAt(order', T) \subseteq RowsOf(order')
      /\ \A x \in RowsOf(order) : \E i \in DOMAIN order : x = order[i]
  BY DEF RowsAt, RowsOf
<1> QED  BY <1>1, <1>2, <1>3

LEMMA InvAlways == Spec => []Inv
  BY InitInv, NextStep, PTL DEF Spec

(* A structural edit keeps exactly the threads whose row is still there,    *)
(* whichever rows go, come or move (deleteThreadsForAxis).                  *)
THEOREM ThreadsFollow == Spec => ThreadsLiveWithTheirRow
<1> DEFINE Kept == DOMAIN threads' = {t \in DOMAIN threads : threads[t] \in RowsOf(order')}
<1>1. ASSUME Inv, NEW index \in Indices, NEW n \in Indices, InsertRows(index, n)
      PROVE  Kept
  <2>1. threads' = threads /\ \A t \in DOMAIN threads : threads[t] \in RowsOf(order)
    BY <1>1 DEF InsertRows, Inv, NoOrphans
  <2>2. RowsOf(order) \subseteq RowsOf(order')
    <3>1. Sends(ShiftMap(index, n)) /\ \A i \in DOMAIN order : ShiftIndex(i, index, n) # Gone
      BY <1>1, InsertSends DEF ShiftIndex, Gone, Indices, Inv, TypeOK, OrderOK
    <3> QED  BY <3>1 DEF Sends, ShiftMap, RowsOf
  <2> QED  BY <2>1, <2>2
<1>2. ASSUME Inv, NEW index \in Indices, NEW n \in Indices, DeleteRows(index, n)
      PROVE  Kept
  <2>1. RowsOf(order') = RowsOf(order) \ RowsOf(Taken(order, index, n))
    BY <1>2, DeleteSends
  <2>2. \A t \in DOMAIN threads : threads[t] \in RowsOf(order)
    BY <1>2 DEF Inv, NoOrphans
  <2>3. DOMAIN threads' =
          {t \in DOMAIN threads : threads[t] \notin RowsOf(Taken(order, index, n))}
    BY <1>2 DEF DeleteRows, Drop, Anchored
  <2> QED  BY <2>1, <2>2, <2>3
<1>3. ASSUME Inv, NEW src \in Indices, NEW n \in Indices, NEW dst \in 1 .. (MaxRows + 1),
             MoveRows(src, n, dst)
      PROVE  Kept
  BY <1>3, MoveSends DEF MoveRows, Inv, NoOrphans
<1>4. Inv /\ [Next]_vars => [Shift \/ Move => Kept]_vars
  BY <1>1, <1>2, <1>3 DEF Shift, Move
<1> QED  BY <1>4, InvAlways, PTL DEF Spec, ThreadsLiveWithTheirRow

-----------------------------------------------------------------------------
(* Formulas.                                                                *)

(* What a structural edit makes of the reference at id: the formula of the  *)
(* row is rewritten once the order has changed.                             *)
LEMMA ReferenceSent ==
    ASSUME Inv, Inv', NEW g, Sends(g), NEW id \in FormulaIds \cap DOMAIN cells',
           cells[id] # GoneRange, {cells[id].from, cells[id].to} \subseteq DOMAIN order,
           cells'[id] = LET a == g[cells[id].from]  b == g[cells[id].to]
                        IN  IF Gone \in {a, b} THEN GoneRange ELSE [from |-> a, to |-> b]
    PROVE  IF Survives(cells[id].from) /\ Survives(cells[id].to)
           THEN cells'[id] = [from |-> NewIndex(cells[id].from), to |-> NewIndex(cells[id].to)]
           ELSE cells'[id] = GoneRange
<1>1. Distinct(order) /\ Distinct(order')
  BY DEF Inv, TypeOK, OrderOK
<1>2. cells[id].from \in DOMAIN order /\ cells[id].to \in DOMAIN order
  OBVIOUS
<1>3. \A i \in DOMAIN order : (Survives(i) <=> g[i] # Gone) /\ (Survives(i) => NewIndex(i) = g[i])
  BY <1>1, FoundWhereSent
<1> QED  BY <1>2, <1>3

(* After an insert, a delete or a move a formula names the rows it named,   *)
(* or is #REF! (rewriteFormulaCells with shiftFormula and moveFormula).     *)
THEOREM FormulasFollow == Spec => ReferencesFollowRows
<1> DEFINE Follow ==
      \A id \in FormulaIds \cap DOMAIN cells' :
            LET old == cells[id]
                new == cells'[id]
            IN  old # GoneRange /\ {old.from, old.to} \subseteq DOMAIN order =>
                IF Survives(old.from) /\ Survives(old.to)
                THEN new = [from |-> NewIndex(old.from), to |-> NewIndex(old.to)]
                ELSE new = GoneRange
<1>0. ASSUME Inv'
      PROVE  \A id \in DOMAIN cells' : id \in RowsOf(order')
  BY <1>0 DEF Inv, NoOrphans
<1>1. ASSUME Inv, Inv', NEW index \in Indices, NEW count \in Int, Sends(ShiftMap(index, count)),
             NEW f, cells' = ShiftFormulas(f, order', index, count),
             \A id \in DOMAIN cells' : id \in DOMAIN f /\ f[id] = cells[id]
      PROVE  Follow
  <2> SUFFICES ASSUME NEW id \in FormulaIds \cap DOMAIN cells', cells[id] # GoneRange,
                      {cells[id].from, cells[id].to} \subseteq DOMAIN order
               PROVE  IF Survives(cells[id].from) /\ Survives(cells[id].to)
                      THEN cells'[id] = [from |-> NewIndex(cells[id].from),
                                         to |-> NewIndex(cells[id].to)]
                      ELSE cells'[id] = GoneRange
    OBVIOUS
  <2>1. cells[id] \in References \ {GoneRange} /\ id \in RowsOf(order') /\ f[id] = cells[id]
    BY <1>0, <1>1 DEF FormulaIds
  <2>2. id \in DOMAIN f
    BY <1>1
  <2>3. cells'[id] = ShiftReference(cells[id], index, count)
    BY <1>1, <2>1, <2>2 DEF ShiftFormulas, RewriteFormulas
  <2> DEFINE g == ShiftMap(index, count)
  <2>4. /\ g[cells[id].from] = ShiftIndex(cells[id].from, index, count)
        /\ g[cells[id].to] = ShiftIndex(cells[id].to, index, count)
    BY DEF ShiftMap
  <2>5. Sends(g)
    BY <1>1
  <2> HIDE DEF g
  <2>6. cells'[id] = LET a == g[cells[id].from]  b == g[cells[id].to]
                     IN  IF Gone \in {a, b} THEN GoneRange ELSE [from |-> a, to |-> b]
    BY <2>3, <2>4 DEF ShiftReference
  <2> QED  BY <1>1, <2>5, <2>6, ReferenceSent
<1>2. ASSUME Inv, Inv', NEW src \in Indices, NEW n \in Indices, NEW dst \in 1 .. (MaxRows + 1),
             MoveRows(src, n, dst)
      PROVE  Follow
  <2> SUFFICES ASSUME NEW id \in FormulaIds \cap DOMAIN cells', cells[id] # GoneRange,
                      {cells[id].from, cells[id].to} \subseteq DOMAIN order
               PROVE  IF Survives(cells[id].from) /\ Survives(cells[id].to)
                      THEN cells'[id] = [from |-> NewIndex(cells[id].from),
                                         to |-> NewIndex(cells[id].to)]
                      ELSE cells'[id] = GoneRange
    OBVIOUS
  <2>1. cells[id] \in References \ {GoneRange} /\ id \in RowsOf(order') /\ id \in DOMAIN cells
    BY <1>0, <1>2 DEF FormulaIds
  <2>3. cells'[id] = MoveReference(cells[id], src, n, dst)
    BY <1>2, <2>1 DEF MoveRows, MoveFormulas, RewriteFormulas
  <2> DEFINE g == MoveMap(src, n, dst)
  <2>4. /\ g[cells[id].from] = RemapIndex(cells[id].from, src, n, dst)
        /\ g[cells[id].to] = RemapIndex(cells[id].to, src, n, dst)
    BY DEF MoveMap
  <2>5. Sends(g) /\ RowsOf(order) \subseteq RowsOf(order')
    BY <1>2, MoveSends
  <2> HIDE DEF g
  <2>6. g[cells[id].from] # Gone /\ g[cells[id].to] # Gone
    BY <2>5 DEF Sends, RowsOf
  <2>7. cells'[id] = LET a == g[cells[id].from]  b == g[cells[id].to]
                     IN  IF Gone \in {a, b} THEN GoneRange ELSE [from |-> a, to |-> b]
    BY <2>3, <2>4, <2>6 DEF MoveReference
  <2> QED  BY <1>2, <2>5, <2>7, ReferenceSent
<1>3. ASSUME Inv, Inv', NEW index \in Indices, NEW n \in Indices,
             InsertRows(index, n) \/ DeleteRows(index, n)
      PROVE  Follow
  <2>1. CASE InsertRows(index, n)
    <3>1. cells' = ShiftFormulas(cells, order', index, n) /\ n \in Int
      BY <2>1 DEF InsertRows, Indices
    <3>2. \A id \in DOMAIN cells' : id \in DOMAIN cells /\ cells[id] = cells[id]
      BY <3>1 DEF ShiftFormulas, RewriteFormulas
    <3> QED  BY <1>1, <1>3, <2>1, <3>1, <3>2, InsertSends
  <2>2. CASE DeleteRows(index, n)
    <3> DEFINE f == Drop(cells, RowsOf(Taken(order, index, n)))
    <3>1. cells' = ShiftFormulas(f, order', index, -n) /\ -n \in Int
      BY <2>2 DEF DeleteRows, Indices
    <3>2. \A id \in DOMAIN f : f[id] = cells[id]
      BY DEF Drop
    <3> HIDE DEF f
    <3>3. \A id \in DOMAIN cells' : id \in DOMAIN f /\ f[id] = cells[id]
      BY <3>1, <3>2 DEF ShiftFormulas, RewriteFormulas
    <3> QED  BY <1>1, <1>3, <2>2, <3>1, <3>3, DeleteSends
  <2> QED  BY <1>3, <2>1, <2>2
<1> HIDE DEF Follow
<1>4. Inv /\ [Next]_vars => [Follow \/ ~(Shift \/ Move)]_vars
  BY <1>2, <1>3, NextStep DEF Shift, Move
<1>5. Spec => [][Follow \/ ~(Shift \/ Move)]_vars
  BY <1>4, InvAlways, PTL DEF Spec
<1> QED  BY <1>5 DEF ReferencesFollowRows, Follow

-----------------------------------------------------------------------------
(* What is kept by index.                                                   *)

LEMMA ShiftIndexOneToOne ==
    ASSUME NEW index \in Nat \ {0}, NEW count \in Int \ {0}, NEW i \in Nat \ {0},
           NEW j \in Nat \ {0}, ShiftIndex(i, index, count) = ShiftIndex(j, index, count),
           ShiftIndex(i, index, count) # Gone
    PROVE  i = j
  BY DEF ShiftIndex, Gone

LEMMA RemapIndexOneToOne ==
    ASSUME NEW src \in Nat \ {0}, NEW n \in Nat \ {0}, NEW dst \in Nat \ {0},
           dst \notin src .. (src + n), NEW i \in Nat \ {0}, NEW j \in Nat \ {0},
           RemapIndex(i, src, n, dst) = RemapIndex(j, src, n, dst)
    PROVE  i = j
  BY DEF RemapIndex

(* The functions for the frozen band, merged blocks and chart sources send  *)
(* an interval to the interval of the indices its rows are sent to.         *)
LEMMA ShiftFrozenCarries ==
    ASSUME NEW index \in Nat \ {0}, NEW count \in Int \ {0}, NEW i \in Nat \ {0},
           NEW k, k = ShiftIndex(i, index, count), k # Gone, NEW f \in Nat
    PROVE  i \in 1 .. f <=> k \in 1 .. ShiftFrozen(f, index, count)
<1>1. CASE count > 0
  BY <1>1 DEF ShiftIndex, ShiftFrozen, Gone
<1>2. CASE count < 0
  BY <1>2 DEF ShiftIndex, ShiftFrozen, Gone, MaxOf, MinOf
<1> QED  BY <1>1, <1>2

LEMMA ShiftMergeCarries ==
    ASSUME NEW index \in Nat \ {0}, NEW count \in Int \ {0}, NEW i \in Nat \ {0},
           NEW k, k = ShiftIndex(i, index, count), k # Gone,
           NEW m, m.from \in Nat \ {0}, m.to \in Nat \ {0}, m.from <= m.to,
           NEW b, b = ShiftMergeAxis(m, index, count)
    PROVE  i \in m.from .. m.to <=> k \in b.from .. b.to
<1>1. CASE count > 0
  BY <1>1 DEF ShiftIndex, ShiftMergeAxis, Gone
<1>2. CASE count < 0
  BY <1>2 DEF ShiftIndex, ShiftMergeAxis, Gone, GoneRange, MaxOf, MinOf
<1> QED  BY <1>1, <1>2

LEMMA ShiftRuleCarries ==
    ASSUME NEW index \in Nat \ {0}, NEW count \in Int \ {0}, NEW i \in Nat \ {0},
           NEW k, k = ShiftIndex(i, index, count), k # Gone,
           NEW r, r.from \in Nat \ {0}, r.to \in Nat \ {0}, r.from <= r.to,
           NEW b, b = ShiftRuleRange(r, index, count), i \in r.from .. r.to
    PROVE  k \in b.from .. b.to
<1>1. CASE count > 0
  BY <1>1 DEF ShiftIndex, ShiftBoundary, ShiftRuleRange, Gone, MinOf, MaxOf
<1>2. CASE count < 0
  BY <1>2 DEF ShiftIndex, ShiftBoundary, ShiftRuleRange, Gone, MinOf, MaxOf
<1> QED  BY <1>1, <1>2

LEMMA ShiftSourceCarries ==
    ASSUME NEW index \in Nat \ {0}, NEW count \in Int \ {0}, NEW i \in Nat \ {0},
           NEW k, k = ShiftIndex(i, index, count), k # Gone,
           NEW r, r.from \in Nat \ {0}, r.to \in Nat \ {0}, r.from <= r.to,
           NEW b, b = ShiftA1Range(r, index, count)
    PROVE  /\ i \in r.from .. r.to => k \in b.from .. b.to /\ b # GoneRange
           /\ b # GoneRange /\ k \in b.from .. b.to => i \in r.from .. r.to
<1>1. CASE count > 0
  BY <1>1 DEF ShiftIndex, ShiftA1Range, Gone, GoneRange
<1>2. CASE count < 0
  BY <1>2 DEF ShiftIndex, ShiftA1Range, Gone, GoneRange
<1> QED  BY <1>1, <1>2

(* Blocks that are apart stay apart, and on their side of the frozen edge.  *)
LEMMA ShiftMergeApart ==
    ASSUME NEW index \in Nat \ {0}, NEW count \in Int \ {0},
           NEW a, a.from \in Nat \ {0}, a.to \in Nat \ {0}, a.from <= a.to,
           NEW b, b.from \in Nat \ {0}, b.to \in Nat \ {0}, b.from <= b.to, ~Meets(a, b),
           NEW x, x = ShiftMergeAxis(a, index, count), x.from < x.to,
           NEW y, y = ShiftMergeAxis(b, index, count), y.from < y.to
    PROVE  ~Meets(x, y)
<1>1. CASE count > 0
  BY <1>1 DEF ShiftMergeAxis, Meets
<1>2. CASE count < 0
  BY <1>2 DEF ShiftMergeAxis, Meets, GoneRange, Gone, MaxOf, MinOf
<1> QED  BY <1>1, <1>2

LEMMA ShiftMergeEdge ==
    ASSUME NEW index \in Nat \ {0}, NEW count \in Int \ {0},
           NEW m, m.from \in Nat \ {0}, m.to \in Nat \ {0}, m.from <= m.to, NEW f \in Nat,
           ~(m.from <= f /\ m.to > f),
           NEW b, b = ShiftMergeAxis(m, index, count), b.from < b.to
    PROVE  ~(b.from <= ShiftFrozen(f, index, count) /\ b.to > ShiftFrozen(f, index, count))
<1>1. CASE count > 0
  BY <1>1 DEF ShiftMergeAxis, ShiftFrozen
<1>2. CASE count < 0
  BY <1>2 DEF ShiftMergeAxis, ShiftFrozen, GoneRange, Gone, MaxOf, MinOf
<1> QED  BY <1>1, <1>2

(* An insert (count > 0) or a delete (count < 0) at index.                  *)
Shifted(index, count) ==
    /\ index \in Nat \ {0} /\ count \in Int \ {0}
    /\ ShiftMetadata(index, count) /\ Sends(ShiftMap(index, count))

LEMMA ShiftIsShifted ==
    ASSUME Inv, Shift
    PROVE  \E index, count : Shifted(index, count)
<1>1. ASSUME NEW index \in Indices, NEW n \in Indices, InsertRows(index, n)
      PROVE  Shifted(index, n)
  BY <1>1, InsertSends DEF Shifted, InsertRows, Indices
<1>2. ASSUME NEW index \in Indices, NEW n \in Indices, DeleteRows(index, n)
      PROVE  Shifted(index, -n)
  BY <1>2, DeleteSends DEF Shifted, DeleteRows, Indices
<1> QED  BY <1>1, <1>2 DEF Shift

(* The state the properties speak of, and what it makes of intervals.       *)
LEMMA Shapes ==
    ASSUME Inv
    PROVE  /\ Distinct(order) /\ DOMAIN order \subseteq Nat \ {0}
           /\ hidden \subseteq Nat \ {0} /\ frozen \in Nat
           /\ \A m \in merges \cup rules :
                 m.from \in Nat \ {0} /\ m.to \in Nat \ {0} /\ m.from <= m.to
           /\ chart # NoChart =>
                 /\ chart.anchor \in Nat \ {0} /\ chart.source \in Ranges
                 /\ chart.source.from \in Nat \ {0} /\ chart.source.to \in Nat \ {0}
                 /\ chart.source.from <= chart.source.to
<1>1. \A r \in Ranges : r.from \in Nat \ {0} /\ r.to \in Nat \ {0} /\ r.from <= r.to
  BY MaxRowsAssumption DEF Ranges, Indices
<1>2. /\ Distinct(order) /\ DOMAIN order \subseteq Nat \ {0}
      /\ hidden \subseteq Nat \ {0} /\ frozen \in Nat
  BY MaxRowsAssumption DEF Inv, TypeOK, OrderOK, HiddenOK, FrozenOK, Indices
<1>3. chart # NoChart => chart.anchor \in Nat \ {0} /\ chart.source \in Ranges
  BY MaxRowsAssumption DEF Inv, TypeOK, RangesOK, Charts, Indices
<1> QED  BY <1>1, <1>2, <1>3 DEF Inv, TypeOK, RangesOK

LEMMA HiddenShift ==
    ASSUME Inv, Inv', NEW index, NEW count, Shifted(index, count)
    PROVE  RowsAt(order', hidden') \cap RowsOf(order) = RowsAt(order, hidden) \cap RowsOf(order')
<1> DEFINE g == ShiftMap(index, count)
<1>1. ASSUME NEW i \in DOMAIN order, g[i] # Gone
      PROVE  i \in hidden <=> g[i] \in hidden'
  <2>1. g[i] = ShiftIndex(i, index, count) /\ hidden' = ShiftIndexSet(hidden, index, count)
    BY DEF ShiftMap, Shifted, ShiftMetadata
  <2>2. ASSUME NEW j \in hidden, ShiftIndex(j, index, count) = g[i]
        PROVE  j = i
    BY <1>1, <2>1, <2>2, Shapes, ShiftIndexOneToOne DEF Shifted
  <2> QED  BY <1>1, <2>1, <2>2 DEF ShiftIndexSet
<1>2. Sends(g)
  BY DEF Shifted
<1> HIDE DEF g
<1>3. Distinct(order) /\ Distinct(order')
  BY DEF Inv, TypeOK, OrderOK
<1> QED  BY <1>1, <1>2, <1>3, RowsFollow

LEMMA HiddenMove ==
    ASSUME Inv, Inv', NEW src \in Indices, NEW n \in Indices, NEW dst \in 1 .. (MaxRows + 1),
           MoveRows(src, n, dst)
    PROVE  RowsAt(order', hidden') \cap RowsOf(order) = RowsAt(order, hidden) \cap RowsOf(order')
<1> DEFINE g == MoveMap(src, n, dst)
<1>0. /\ src \in Nat \ {0} /\ n \in Nat \ {0} /\ dst \in Nat \ {0}
      /\ dst \notin src .. (src + n)
  BY MaxRowsAssumption DEF Indices, MoveRows
<1>1. ASSUME NEW i \in DOMAIN order
      PROVE  i \in hidden <=> g[i] \in hidden'
  <2>1. g[i] = RemapIndex(i, src, n, dst) /\ hidden' = MoveIndexSet(hidden, src, n, dst)
    BY DEF MoveMap, MoveRows
  <2>2. ASSUME NEW j \in hidden, RemapIndex(j, src, n, dst) = g[i]
        PROVE  j = i
    BY <1>0, <2>1, <2>2, Shapes, RemapIndexOneToOne
  <2> QED  BY <2>1, <2>2 DEF MoveIndexSet
<1>2. Sends(g)
  BY MoveSends
<1> HIDE DEF g
<1>3. Distinct(order) /\ Distinct(order')
  BY DEF Inv, TypeOK, OrderOK
<1> QED  BY <1>1, <1>2, <1>3, RowsFollow

LEMMA FrozenShift ==
    ASSUME Inv, Inv', NEW index, NEW count, Shifted(index, count)
    PROVE  RowsAt(order', 1 .. frozen') \cap RowsOf(order)
             = RowsAt(order, 1 .. frozen) \cap RowsOf(order')
<1> DEFINE g == ShiftMap(index, count)
<1>1. ASSUME NEW i \in DOMAIN order, g[i] # Gone
      PROVE  i \in 1 .. frozen <=> g[i] \in 1 .. frozen'
  <2>1. g[i] = ShiftIndex(i, index, count) /\ frozen' = ShiftFrozen(frozen, index, count)
    BY DEF ShiftMap, Shifted, ShiftMetadata
  <2>2. i \in Nat \ {0} /\ frozen \in Nat /\ index \in Nat \ {0} /\ count \in Int \ {0}
    BY Shapes DEF Shifted
  <2> HIDE DEF g
  <2> QED  BY <1>1, <2>1, <2>2, ShiftFrozenCarries
<1>2. Sends(g)
  BY DEF Shifted
<1> HIDE DEF g
<1>3. Distinct(order) /\ Distinct(order')
  BY DEF Inv, TypeOK, OrderOK
<1> QED  BY <1>1, <1>2, <1>3, RowsFollow

LEMMA EdgeShift ==
    ASSUME Inv, NEW index, NEW count, Shifted(index, count),
           \A m \in merges : ~CrossesFrozen(m)
    PROVE  (\A m \in merges : ~CrossesFrozen(m))'
<1>1. ASSUME NEW b \in merges'
      PROVE  ~(b.from <= frozen' /\ b.to > frozen')
  <2>1. PICK m \in merges : b = ShiftMergeAxis(m, index, count) /\ b.from < b.to
    BY DEF Shifted, ShiftMetadata, OnePerAnchor, ShiftMergeMap
  <2>2. frozen' = ShiftFrozen(frozen, index, count)
    BY DEF Shifted, ShiftMetadata
  <2>3. /\ m.from \in Nat \ {0} /\ m.to \in Nat \ {0} /\ m.from <= m.to /\ frozen \in Nat
        /\ index \in Nat \ {0} /\ count \in Int \ {0} /\ ~(m.from <= frozen /\ m.to > frozen)
    BY Shapes DEF Shifted, CrossesFrozen
  <2> QED  BY <2>1, <2>2, <2>3, ShiftMergeEdge
<1> QED  BY <1>1 DEF CrossesFrozen

LEMMA MergeRowsShift ==
    ASSUME Inv, Inv', NEW index, NEW count, Shifted(index, count), NEW m \in merges,
           NEW b, b = ShiftMergeAxis(m, index, count)
    PROVE  RowsIn(order', b) \cap RowsOf(order) = RowsIn(order, m) \cap RowsOf(order')
<1> DEFINE g == ShiftMap(index, count)
<1>1. ASSUME NEW i \in DOMAIN order, g[i] # Gone
      PROVE  i \in m.from .. m.to <=> g[i] \in b.from .. b.to
  <2>1. g[i] = ShiftIndex(i, index, count)
    BY DEF ShiftMap
  <2>2. /\ i \in Nat \ {0} /\ m.from \in Nat \ {0} /\ m.to \in Nat \ {0} /\ m.from <= m.to
        /\ index \in Nat \ {0} /\ count \in Int \ {0}
    BY Shapes DEF Shifted
  <2> HIDE DEF g
  <2> QED  BY <1>1, <2>1, <2>2, ShiftMergeCarries
<1>2. Sends(g)
  BY DEF Shifted
<1> HIDE DEF g
<1>3. Distinct(order) /\ Distinct(order')
  BY DEF Inv, TypeOK, OrderOK
<1>4. RowsAt(order', b.from .. b.to) \cap RowsOf(order)
        = RowsAt(order, m.from .. m.to) \cap RowsOf(order')
  BY <1>1, <1>2, <1>3, RowsFollow
<1> QED  BY <1>4 DEF RowsIn

LEMMA MergesShift ==
    ASSUME Inv, Inv', NEW index, NEW count, Shifted(index, count), MergesApart
    PROVE  LET Left(m) == RowsIn(order, m) \cap RowsOf(order')
               Kept(m) == RowsIn(order', m) \cap RowsOf(order)
           IN  /\ \A m \in merges :
                     Cardinality(Left(m)) > 1 => \E b \in merges' : Kept(b) = Left(m)
               /\ \A b \in merges' : \E m \in merges : Kept(b) = Left(m)
               /\ MergesApart'
<1> DEFINE M == ShiftMergeMap(merges, index, count)
<1>0. /\ index \in Nat \ {0} /\ count \in Int \ {0}
      /\ \A m \in merges : m.from \in Nat \ {0} /\ m.to \in Nat \ {0} /\ m.from <= m.to
  BY Shapes DEF Shifted
<1>1. ASSUME NEW x \in M
      PROVE  \E a \in merges : x = ShiftMergeAxis(a, index, count) /\ x.from < x.to
  BY <1>1 DEF ShiftMergeMap
<1>2. ASSUME NEW x \in M, NEW y \in M, x # y
      PROVE  ~Meets(x, y)
  <2>1. PICK a \in merges : x = ShiftMergeAxis(a, index, count) /\ x.from < x.to
    BY <1>1
  <2>2. PICK c \in merges : y = ShiftMergeAxis(c, index, count) /\ y.from < y.to
    BY <1>1
  <2>3. ~Meets(a, c)
    BY <1>2, <2>1, <2>2 DEF MergesApart
  <2>4. /\ a.from \in Nat \ {0} /\ a.to \in Nat \ {0} /\ a.from <= a.to
        /\ c.from \in Nat \ {0} /\ c.to \in Nat \ {0} /\ c.from <= c.to
    BY <1>0
  <2> QED  BY <1>0, <2>1, <2>2, <2>3, <2>4, ShiftMergeApart
<1>i. ASSUME NEW m \in merges
      PROVE  LET b == ShiftMergeAxis(m, index, count) IN b.from \in Int /\ b.to \in Int
  <2>1. /\ m.from \in Nat \ {0} /\ m.to \in Nat \ {0}
    BY <1>0
  <2> QED  BY <1>0, <2>1 DEF ShiftMergeAxis, GoneRange, Gone, MaxOf, MinOf
<1>3. merges' = M
  <2>1. /\ merges' \subseteq M /\ \A x \in M : \E y \in merges' : y.from = x.from
    BY DEF Shifted, ShiftMetadata, OnePerAnchor
  <2>2. ASSUME NEW x \in M  PROVE x \in merges'
    <3>1. PICK y \in merges' : y.from = x.from
      BY <2>1
    <3>2. y \in M
      BY <2>1
    <3>3. x.from < x.to /\ x.from \in Int /\ x.to \in Int
          /\ y.from < y.to /\ y.from \in Int /\ y.to \in Int
      BY <1>1, <1>i, <3>2
    <3>4. Meets(x, y)
      BY <3>1, <3>3 DEF Meets
    <3> QED  BY <1>2, <3>1, <3>2, <3>4
  <2> HIDE DEF M
  <2> QED  BY <2>1, <2>2
<1> HIDE DEF M
<1>4. MergesApart'
  BY <1>2, <1>3 DEF MergesApart
<1>5. ASSUME NEW b \in merges'
      PROVE  \E m \in merges : RowsIn(order', b) \cap RowsOf(order)
                                  = RowsIn(order, m) \cap RowsOf(order')
  <2>1. PICK m \in merges : b = ShiftMergeAxis(m, index, count)
    BY <1>1, <1>3
  <2> QED  BY <2>1, MergeRowsShift
<1>6. ASSUME NEW m \in merges, Cardinality(RowsIn(order, m) \cap RowsOf(order')) > 1
      PROVE  \E b \in merges' : RowsIn(order', b) \cap RowsOf(order)
                                    = RowsIn(order, m) \cap RowsOf(order')
  <2> DEFINE b == ShiftMergeAxis(m, index, count)
             left == RowsIn(order, m) \cap RowsOf(order')
  <2>0. b = ShiftMergeAxis(m, index, count) /\ b.from \in Int /\ b.to \in Int
    BY <1>i
  <2> HIDE DEF b
  <2>1. RowsIn(order', b) \cap RowsOf(order) = left
    BY <2>0, MergeRowsShift
  <2>2. ASSUME ~(b.from < b.to)  PROVE FALSE
    <3> DEFINE one == {order'[b.from]}
    <3>1. \A i \in b.from .. b.to : i = b.from
      BY <2>0, <2>2
    <3>2. RowsIn(order', b) \subseteq one
      BY <3>1 DEF RowsIn, RowsAt
    <3>3. IsFiniteSet(one) /\ Cardinality(one) = 1
      BY FS_Singleton
    <3>4. left \subseteq one
      BY <2>1, <3>2
    <3> HIDE DEF one, left
    <3>5. Cardinality(left) <= 1
      BY <3>3, <3>4, FS_Subset
    <3>6. Cardinality(left) > 1 /\ Cardinality(left) \in Nat
      BY <1>6, <3>3, <3>4, FS_Subset, FS_CardinalityType DEF left
    <3> QED  BY <3>5, <3>6
  <2>3. b \in M
    BY <2>0, <2>2 DEF M, ShiftMergeMap
  <2> QED  BY <1>3, <2>1, <2>3
<1> QED  BY <1>4, <1>5, <1>6

LEMMA RulesShift ==
    ASSUME Inv, Inv', NEW index, NEW count, Shifted(index, count), NEW r \in rules
    PROVE  \E s \in rules' : RowsIn(order, r) \cap RowsOf(order') \subseteq RowsIn(order', s)
<1> DEFINE s == ShiftRuleRange(r, index, count)
           g == ShiftMap(index, count)
<1>1. s \in rules'
  BY DEF Shifted, ShiftMetadata
<1>2. ASSUME NEW i \in DOMAIN order, i \in r.from .. r.to, order[i] \in RowsOf(order')
      PROVE  order[i] \in RowsIn(order', s)
  <2>1. g[i] = ShiftIndex(i, index, count) /\ Sends(g)
    BY DEF ShiftMap, Shifted
  <2>2. /\ i \in Nat \ {0} /\ r.from \in Nat \ {0} /\ r.to \in Nat \ {0} /\ r.from <= r.to
        /\ index \in Nat \ {0} /\ count \in Int \ {0} /\ s = ShiftRuleRange(r, index, count)
    BY Shapes DEF Shifted
  <2> HIDE DEF g, s
  <2>3. g[i] # Gone /\ g[i] \in DOMAIN order' /\ order'[g[i]] = order[i]
    BY <1>2, <2>1 DEF Sends
  <2>4. g[i] \in s.from .. s.to
    BY <1>2, <2>1, <2>2, <2>3, ShiftRuleCarries
  <2> QED  BY <2>3, <2>4 DEF RowsIn, RowsAt
<1> HIDE DEF s
<1>3. RowsIn(order, r) \cap RowsOf(order') \subseteq RowsIn(order', s)
  BY <1>2 DEF RowsIn, RowsAt
<1> QED  BY <1>1, <1>3

LEMMA ChartShift ==
    ASSUME Inv, Inv', NEW index, NEW count, Shifted(index, count), chart # NoChart
    PROVE  LET left == RowsIn(order, chart.source) \cap RowsOf(order')
           IN  /\ left # {} => RowsIn(order', chart'.source) \cap RowsOf(order) = left
               /\ chart.anchor \in DOMAIN order /\ Survives(chart.anchor)
                    => chart'.anchor = NewIndex(chart.anchor)
<1> DEFINE g   == ShiftMap(index, count)
           at  == ShiftIndex(chart.anchor, index, count)
           src == ShiftA1Range(chart.source, index, count)
<1>0. /\ index \in Nat \ {0} /\ count \in Int \ {0} /\ Sends(g)
      /\ Distinct(order) /\ Distinct(order') /\ DOMAIN order \subseteq Nat \ {0}
      /\ chart.source.from \in Nat \ {0} /\ chart.source.to \in Nat \ {0}
      /\ chart.source.from <= chart.source.to
  BY Shapes DEF Shifted, Inv, TypeOK, OrderOK
<1>1. chart' = [anchor |-> IF at = Gone THEN MaxOf(1, index) ELSE at,
                source |-> IF src = GoneRange THEN chart.source ELSE src]
  BY DEF Shifted, ShiftMetadata
<1>2. \A i \in DOMAIN order : g[i] = ShiftIndex(i, index, count)
  BY DEF ShiftMap
<1>3. src = ShiftA1Range(chart.source, index, count) /\ at = ShiftIndex(chart.anchor, index, count)
  OBVIOUS
<1> HIDE DEF g, src, at
<1>4. ASSUME NEW i \in DOMAIN order, g[i] # Gone
      PROVE  /\ i \in chart.source.from .. chart.source.to =>
                   g[i] \in src.from .. src.to /\ src # GoneRange
             /\ src # GoneRange /\ g[i] \in src.from .. src.to =>
                   i \in chart.source.from .. chart.source.to
  <2>1. i \in Nat \ {0} /\ g[i] = ShiftIndex(i, index, count)
    BY <1>0, <1>2
  <2> QED  BY <1>0, <1>3, <1>4, <2>1, ShiftSourceCarries
<1>5. ASSUME RowsIn(order, chart.source) \cap RowsOf(order') # {}
      PROVE  RowsIn(order', chart'.source) \cap RowsOf(order)
               = RowsIn(order, chart.source) \cap RowsOf(order')
  <2>1. PICK i \in DOMAIN order : /\ i \in chart.source.from .. chart.source.to
                                  /\ order[i] \in RowsOf(order')
    BY <1>5 DEF RowsIn, RowsAt
  <2>2. g[i] # Gone
    BY <1>0, <2>1 DEF Sends
  <2>3. src # GoneRange
    BY <1>4, <2>1, <2>2
  <2>4. chart'.source = src
    BY <1>1, <2>3
  <2> DEFINE S == chart.source.from .. chart.source.to
             T == src.from .. src.to
  <2>5. \A j \in DOMAIN order : g[j] # Gone => (j \in S <=> g[j] \in T)
    BY <1>4, <2>3
  <2> HIDE DEF S, T
  <2>6. RowsAt(order', T) \cap RowsOf(order) = RowsAt(order, S) \cap RowsOf(order')
    BY <1>0, <2>5, RowsFollow
  <2> QED  BY <2>4, <2>6 DEF RowsIn, S, T
<1>6. ASSUME chart.anchor \in DOMAIN order, Survives(chart.anchor)
      PROVE  chart'.anchor = NewIndex(chart.anchor)
  <2>1. g[chart.anchor] # Gone /\ NewIndex(chart.anchor) = g[chart.anchor]
    BY <1>0, <1>6, FoundWhereSent
  <2> QED  BY <1>1, <1>2, <1>3, <1>6, <2>1
<1> QED  BY <1>5, <1>6

(* What is kept by visual index stays on the rows it was put on, for any    *)
(* sheet and any block of rows inserted, deleted or (hidden rows) moved:    *)
(* hidden rows, the frozen band, merged blocks, formatting rules and charts *)
(* (Sheet.shiftCells and moveCells, each with functions of its own).        *)
THEOREM MetadataFollows == Spec => MetadataFollowsRows
<1>1. ASSUME Inv, Inv', Shift
      PROVE  /\ RowsAt(order', hidden') \cap RowsOf(order)
                   = RowsAt(order, hidden) \cap RowsOf(order')
             /\ RowsAt(order', 1 .. frozen') \cap RowsOf(order)
                   = RowsAt(order, 1 .. frozen) \cap RowsOf(order')
             /\ (\A m \in merges : ~CrossesFrozen(m)) => (\A m \in merges : ~CrossesFrozen(m))'
             /\ \A r \in rules : \E s \in rules' :
                   RowsIn(order, r) \cap RowsOf(order') \subseteq RowsIn(order', s)
  <2>1. PICK index, count : Shifted(index, count)
    BY <1>1, ShiftIsShifted
  <2> QED  BY <1>1, <2>1, HiddenShift, FrozenShift, EdgeShift, RulesShift
<1>2. ASSUME Inv, Inv', Move
      PROVE  RowsAt(order', hidden') \cap RowsOf(order)
                   = RowsAt(order, hidden) \cap RowsOf(order')
  BY <1>2, HiddenMove DEF Move
<1> DEFINE Hidden == \/ RowsAt(order', hidden') \cap RowsOf(order)
                           = RowsAt(order, hidden) \cap RowsOf(order')
                     \/ ~(Shift \/ Move)
           Frozen == \/ RowsAt(order', 1 .. frozen') \cap RowsOf(order)
                           = RowsAt(order, 1 .. frozen) \cap RowsOf(order')
                     \/ ~Shift
           Edge == \/ \E m \in merges : CrossesFrozen(m)
                   \/ (\A m \in merges : ~CrossesFrozen(m))'
                   \/ ~Shift
           Blocks == \/ LET Left(m) == RowsIn(order, m) \cap RowsOf(order')
                            Kept(m) == RowsIn(order', m) \cap RowsOf(order)
                        IN  /\ \A m \in merges :
                                  Cardinality(Left(m)) > 1 => \E b \in merges' : Kept(b) = Left(m)
                            /\ \A b \in merges' : \E m \in merges : Kept(b) = Left(m)
                            /\ MergesApart'
                     \/ ~MergesApart
                     \/ ~Shift
           Rules == \/ \A r \in rules : \E s \in rules' :
                         RowsIn(order, r) \cap RowsOf(order') \subseteq RowsIn(order', s)
                    \/ ~Shift
           Chart == \/ chart = NoChart
                    \/ LET left == RowsIn(order, chart.source) \cap RowsOf(order')
                       IN  /\ left # {} =>
                                 RowsIn(order', chart'.source) \cap RowsOf(order) = left
                           /\ chart.anchor \in DOMAIN order /\ Survives(chart.anchor)
                                => chart'.anchor = NewIndex(chart.anchor)
                    \/ ~Shift
<1>3. ASSUME Inv, Inv', Next  PROVE Hidden /\ Frozen /\ Edge /\ Rules
  BY <1>1, <1>2, <1>3
<1>4. ASSUME Inv, Inv', Next  PROVE Blocks
  <2>1. CASE Shift /\ MergesApart
    <3>1. PICK index, count : Shifted(index, count)
      BY <1>4, <2>1, ShiftIsShifted
    <3> QED  BY <1>4, <2>1, <3>1, MergesShift
  <2> QED  BY <2>1
<1>5. ASSUME Inv, Inv', Next  PROVE Chart
  <2>1. CASE Shift /\ chart # NoChart
    <3>1. PICK index, count : Shifted(index, count)
      BY <1>5, <2>1, ShiftIsShifted
    <3> QED  BY <1>5, <2>1, <3>1, ChartShift
  <2> QED  BY <2>1
<1> HIDE DEF Hidden, Frozen, Edge, Blocks, Rules, Chart
<1>6. Inv /\ [Next]_vars => /\ [Hidden]_vars /\ [Frozen]_vars /\ [Edge]_vars
                           /\ [Blocks]_vars /\ [Rules]_vars /\ [Chart]_vars
  BY <1>3, <1>4, <1>5, NextStep
<1>7. Spec => /\ [][Hidden]_vars /\ [][Frozen]_vars /\ [][Edge]_vars
              /\ [][Blocks]_vars /\ [][Rules]_vars /\ [][Chart]_vars
  BY <1>6, InvAlways, PTL DEF Spec
<1> QED
  BY <1>7 DEF MetadataFollowsRows, HiddenFollowRows, FrozenFollowsRows, ShiftKeepsFrozenEdge,
              MergesFollowRows, RulesKeepSurvivors, ChartFollowsRows,
              Hidden, Frozen, Edge, Blocks, Rules, Chart

-----------------------------------------------------------------------------
(* The worksheet implements a list of whole rows: what is keyed by row id   *)
(* and what is keyed by index go the same way.                              *)

\* The data of the rows that are left, formulas rewritten.
CellsSent ==
    /\ DOMAIN cells' = {id \in DOMAIN cells : id \in RowsOf(order')}
    /\ \A id \in DOMAIN cells' : IF cells[id] \in References THEN cells'[id] \in References
                                 ELSE cells'[id] = cells[id]

\* The heights of the rows that are left.
HeightsSent(G) ==
    /\ DOMAIN heights' = {G[i] : i \in {k \in DOMAIN heights : G[k] # Gone}}
    /\ \A i \in DOMAIN heights : G[i] # Gone => heights'[G[i]] = heights[i]

\* G sends the rows of the window one to one.
OneToOne(G) ==
    \A i, j \in Indices : G[i] # Gone /\ G[i] = G[j] => i = j

Blank == [data |-> "nothing", height |-> "nothing"]

LEMMA ViewSent ==
    ASSUME Inv, Inv', NEW G, Sends(G), OneToOne(G), CellsSent, HeightsSent(G),
           NEW j \in Indices
    PROVE  /\ \A i \in Indices : G[i] = j => RowAt(j)' = RowAt(i)
           /\ (\A i \in Indices : G[i] # j) => RowAt(j)' = Blank
<1>0. /\ DOMAIN order \subseteq Indices /\ DOMAIN heights \subseteq Indices
      /\ DOMAIN cells \subseteq RowsOf(order) /\ Distinct(order) /\ Distinct(order')
      /\ DOMAIN cells' \subseteq RowsOf(order) /\ j # Gone
  BY MaxRowsAssumption
     DEF Inv, TypeOK, OrderOK, HeightsOK, NoOrphans, CellsSent, Indices, Gone
<1>1. RowAt(j)' = [data   |-> IF j \in DOMAIN order' /\ order'[j] \in DOMAIN cells'
                              THEN IF cells'[order'[j]] \in Values THEN cells'[order'[j]]
                                   ELSE "formula"
                              ELSE "nothing",
                   height |-> IF j \in DOMAIN heights' THEN heights'[j] ELSE "nothing"]
  BY DEF RowAt
<1>2. ASSUME NEW x \in DOMAIN cells'
      PROVE  (IF cells'[x] \in Values THEN cells'[x] ELSE "formula")
               = (IF cells[x] \in Values THEN cells[x] ELSE "formula")
  BY <1>2, ValuesAssumption DEF CellsSent
<1>3. ASSUME j \in DOMAIN order', order'[j] \in DOMAIN cells'
      PROVE  \E k \in DOMAIN order : order[k] = order'[j] /\ G[k] = j
  <2>1. PICK k \in DOMAIN order : order[k] = order'[j]
    BY <1>0, <1>3 DEF RowsOf
  <2>2. order[k] \in RowsOf(order')
    BY <1>3, <2>1 DEF RowsOf
  <2>3. G[k] \in DOMAIN order' /\ order'[G[k]] = order[k]
    BY <2>2 DEF Sends
  <2> QED  BY <1>0, <1>3, <2>1, <2>3 DEF Distinct
<1>4. ASSUME NEW i \in Indices, G[i] = j
      PROVE  RowAt(j)' = RowAt(i)
  <2>1. CASE i \in DOMAIN order /\ order[i] \in DOMAIN cells
    <3>1. j \in DOMAIN order' /\ order'[j] = order[i] /\ order[i] \in RowsOf(order')
      BY <1>0, <1>4, <2>1 DEF Sends, RowsOf
    <3>2. order[i] \in DOMAIN cells'
      BY <2>1, <3>1 DEF CellsSent
    <3>3. (IF cells'[order[i]] \in Values THEN cells'[order[i]] ELSE "formula")
            = (IF cells[order[i]] \in Values THEN cells[order[i]] ELSE "formula")
      BY <1>2, <3>2
    <3>4. (IF j \in DOMAIN heights' THEN heights'[j] ELSE "nothing")
            = (IF i \in DOMAIN heights THEN heights[i] ELSE "nothing")
      BY <1>0, <1>4 DEF HeightsSent, OneToOne
    <3> QED  BY <1>1, <2>1, <3>1, <3>2, <3>3, <3>4 DEF RowAt
  <2>2. CASE ~(i \in DOMAIN order /\ order[i] \in DOMAIN cells)
    <3>1. ~(j \in DOMAIN order' /\ order'[j] \in DOMAIN cells')
      <4> SUFFICES ASSUME j \in DOMAIN order', order'[j] \in DOMAIN cells'  PROVE FALSE
        OBVIOUS
      <4>1. PICK k \in DOMAIN order : order[k] = order'[j] /\ G[k] = j
        BY <1>3
      <4>2. k = i
        BY <1>0, <1>4, <4>1 DEF OneToOne
      <4>3. order'[j] \in DOMAIN cells
        BY DEF CellsSent
      <4> QED  BY <2>2, <4>1, <4>2, <4>3
    <3>2. (IF j \in DOMAIN heights' THEN heights'[j] ELSE "nothing")
            = (IF i \in DOMAIN heights THEN heights[i] ELSE "nothing")
      BY <1>0, <1>4 DEF HeightsSent, OneToOne
    <3> QED  BY <1>1, <2>2, <3>1, <3>2 DEF RowAt
  <2> QED  BY <2>1, <2>2
<1>5. ASSUME \A i \in Indices : G[i] # j
      PROVE  RowAt(j)' = Blank
  <2>1. ~(j \in DOMAIN order' /\ order'[j] \in DOMAIN cells')
    BY <1>0, <1>3, <1>5
  <2>2. j \notin DOMAIN heights'
    BY <1>0, <1>5 DEF HeightsSent
  <2> QED  BY <1>1, <2>1, <2>2 DEF Blank
<1> QED  BY <1>4, <1>5

\* The index maps over the whole window.
ShiftWindow(index, count) == [i \in Indices |-> ShiftIndex(i, index, count)]
MoveWindow(src, n, dst) == [i \in Indices |-> RemapIndex(i, src, n, dst)]

LEMMA ShiftHeightsSent ==
    ASSUME Inv, NEW index, NEW count, Shifted(index, count)
    PROVE  /\ Sends(ShiftWindow(index, count)) /\ OneToOne(ShiftWindow(index, count))
           /\ HeightsSent(ShiftWindow(index, count))
<1> DEFINE G == ShiftWindow(index, count)
           kept == {i \in DOMAIN heights : ShiftIndex(i, index, count) # Gone}
<1>0. /\ index \in Nat \ {0} /\ count \in Int \ {0} /\ Indices \subseteq Nat \ {0}
      /\ DOMAIN order \subseteq Indices /\ DOMAIN heights \subseteq Indices
      /\ Sends(ShiftMap(index, count))
  BY MaxRowsAssumption DEF Shifted, Indices, Inv, TypeOK, OrderOK, HeightsOK
<1>1. \A i \in Indices : G[i] = ShiftIndex(i, index, count)
  BY DEF ShiftWindow
<1>2. Sends(G)
  BY <1>0, <1>1 DEF Sends, ShiftMap
<1>3. OneToOne(G)
  <2> SUFFICES ASSUME NEW i \in Indices, NEW j \in Indices, G[i] # Gone, G[i] = G[j]
               PROVE  i = j
    BY DEF OneToOne
  <2>1. i \in Nat \ {0} /\ j \in Nat \ {0}
    BY <1>0
  <2>2. /\ ShiftIndex(i, index, count) = ShiftIndex(j, index, count)
        /\ ShiftIndex(i, index, count) # Gone
    BY <1>1
  <2> QED  BY <1>0, <2>1, <2>2, ShiftIndexOneToOne
<1>4. heights' = [j \in {ShiftIndex(i, index, count) : i \in kept} |->
                    heights[CHOOSE i \in kept : ShiftIndex(i, index, count) = j]]
  BY DEF Shifted, ShiftMetadata, ShiftDimensionMap, Rekey
<1>5. kept = {k \in DOMAIN heights : G[k] # Gone} /\ kept \subseteq Indices
  BY <1>0, <1>1
<1> HIDE DEF G, kept
<1>6. DOMAIN heights' = {G[i] : i \in kept}
  BY <1>1, <1>4, <1>5
<1>7. ASSUME NEW i \in kept
      PROVE  heights'[G[i]] = heights[i]
  <2>1. \A k \in kept : ShiftIndex(k, index, count) = G[i] => k = i
    BY <1>1, <1>3, <1>5 DEF OneToOne
  <2>2. (CHOOSE k \in kept : ShiftIndex(k, index, count) = G[i]) = i
    BY <1>1, <1>5, <2>1
  <2>3. heights'[G[i]] = heights[CHOOSE k \in kept : ShiftIndex(k, index, count) = G[i]]
    BY <1>1, <1>4, <1>5
  <2> QED  BY <2>2, <2>3
<1>8. HeightsSent(G)
  BY <1>5, <1>6, <1>7 DEF HeightsSent
<1> QED  BY <1>2, <1>3, <1>8 DEF G

LEMMA MoveHeightsSent ==
    ASSUME Inv, NEW src \in Indices, NEW n \in Indices, NEW dst \in 1 .. (MaxRows + 1),
           MoveRows(src, n, dst)
    PROVE  /\ Sends(MoveWindow(src, n, dst)) /\ OneToOne(MoveWindow(src, n, dst))
           /\ HeightsSent(MoveWindow(src, n, dst))
<1> DEFINE G == MoveWindow(src, n, dst)
           kept == {i \in DOMAIN heights : RemapIndex(i, src, n, dst) # Gone}
<1>0. /\ src \in Nat \ {0} /\ n \in Nat \ {0} /\ dst \in Nat \ {0}
      /\ dst \notin src .. (src + n) /\ Indices \subseteq Nat \ {0}
      /\ DOMAIN order \subseteq Indices /\ DOMAIN heights \subseteq Indices
      /\ Sends(MoveMap(src, n, dst))
  BY MaxRowsAssumption, MoveSends DEF MoveRows, Indices, Inv, TypeOK, OrderOK, HeightsOK
<1>1. \A i \in Indices : G[i] = RemapIndex(i, src, n, dst)
  BY DEF MoveWindow
<1>2. Sends(G)
  BY <1>0, <1>1 DEF Sends, MoveMap
<1>3. OneToOne(G)
  <2> SUFFICES ASSUME NEW i \in Indices, NEW j \in Indices, G[i] = G[j]
               PROVE  i = j
    BY DEF OneToOne
  <2>1. i \in Nat \ {0} /\ j \in Nat \ {0}
    BY <1>0
  <2>2. RemapIndex(i, src, n, dst) = RemapIndex(j, src, n, dst)
    BY <1>1
  <2> QED  BY <1>0, <2>1, <2>2, RemapIndexOneToOne
<1>4. heights' = [j \in {RemapIndex(i, src, n, dst) : i \in kept} |->
                    heights[CHOOSE i \in kept : RemapIndex(i, src, n, dst) = j]]
  BY DEF MoveRows, MoveDimensionMap, Rekey
<1>5. kept = {k \in DOMAIN heights : G[k] # Gone} /\ kept \subseteq Indices
  BY <1>0, <1>1
<1> HIDE DEF G, kept
<1>6. DOMAIN heights' = {G[i] : i \in kept}
  BY <1>1, <1>4, <1>5
<1>7. ASSUME NEW i \in kept
      PROVE  heights'[G[i]] = heights[i]
  <2>1. G[i] # Gone /\ \A k \in kept : RemapIndex(k, src, n, dst) = G[i] => k = i
    BY <1>1, <1>3, <1>5 DEF OneToOne
  <2>2. (CHOOSE k \in kept : RemapIndex(k, src, n, dst) = G[i]) = i
    BY <1>1, <1>5, <2>1
  <2>3. heights'[G[i]] = heights[CHOOSE k \in kept : RemapIndex(k, src, n, dst) = G[i]]
    BY <1>1, <1>4, <1>5
  <2> QED  BY <2>2, <2>3
<1>8. HeightsSent(G)
  BY <1>5, <1>6, <1>7 DEF HeightsSent
<1> QED  BY <1>2, <1>3, <1>8 DEF G

LEMMA InsertCellsSent ==
    ASSUME Inv, NEW index \in Indices, NEW n \in Indices, InsertRows(index, n)
    PROVE  CellsSent
<1>1. cells' = ShiftFormulas(cells, order', index, n) /\ n \in Int \ {0}
  BY DEF InsertRows, Indices
<1>2. DOMAIN cells \subseteq RowId /\ \A id \in DOMAIN cells : cells[id] \in Contents
  BY DEF Inv, TypeOK, CellsOK
<1>3. ASSUME NEW id \in DOMAIN cells, cells[id] \in References \ {GoneRange}
      PROVE  Window(cells[id].from, n) /\ Window(cells[id].to, n)
  <2>1. cells[id].from \in Indices /\ cells[id].to \in Indices
    BY <1>3 DEF References
  <2>2. cells[id].from \in Used /\ cells[id].to \in Used
    BY <1>3 DEF FormulaIds, Used, RangeEnds
  <2> QED  BY <2>1, <2>2 DEF InsertRows, Window
<1>4. /\ DOMAIN cells' = DOMAIN cells
      /\ \A id \in DOMAIN cells' :
            IF cells[id] \in References THEN cells'[id] \in References
            ELSE cells'[id] = cells[id]
  BY <1>1, <1>2, <1>3, ShiftFormulasType
<1>5. RowsOf(order) \subseteq RowsOf(order')
  <2>1. Sends(ShiftMap(index, n)) /\ \A i \in DOMAIN order : ShiftIndex(i, index, n) # Gone
    BY InsertSends DEF ShiftIndex, Gone, Indices, Inv, TypeOK, OrderOK
  <2> QED  BY <2>1 DEF Sends, ShiftMap, RowsOf
<1> QED  BY <1>4, <1>5 DEF CellsSent, Inv, NoOrphans

LEMMA DeleteCellsSent ==
    ASSUME Inv, NEW index \in Indices, NEW n \in Indices, DeleteRows(index, n)
    PROVE  CellsSent
<1> DEFINE removed == RowsOf(Taken(order, index, n))
           kept == Drop(cells, removed)
<1>1. cells' = ShiftFormulas(kept, order', index, -n) /\ -n \in Int \ {0} /\ ~(-n > 0)
  BY DEF DeleteRows, Indices
<1>2. /\ DOMAIN kept = DOMAIN cells \ removed
      /\ \A id \in DOMAIN kept : kept[id] = cells[id]
  BY DEF Drop
<1>3. RowsOf(order') = RowsOf(order) \ removed
  BY DeleteSends
<1> HIDE DEF removed, kept
<1>4. DOMAIN kept \subseteq RowId /\ \A id \in DOMAIN kept : kept[id] \in Contents
  BY <1>2 DEF Inv, TypeOK, CellsOK
<1>5. ASSUME NEW id \in DOMAIN kept, kept[id] \in References \ {GoneRange}
      PROVE  Window(kept[id].from, -n) /\ Window(kept[id].to, -n)
  BY <1>1, <1>5 DEF References, Window
<1>6. /\ DOMAIN cells' = DOMAIN kept
      /\ \A id \in DOMAIN cells' :
            IF kept[id] \in References THEN cells'[id] \in References
            ELSE cells'[id] = kept[id]
  BY <1>1, <1>4, <1>5, ShiftFormulasType
<1> QED  BY <1>2, <1>3, <1>6 DEF CellsSent, Inv, NoOrphans

LEMMA MoveCellsSent ==
    ASSUME Inv, NEW src \in Indices, NEW n \in Indices, NEW dst \in 1 .. (MaxRows + 1),
           MoveRows(src, n, dst)
    PROVE  CellsSent
<1>1. /\ cells' = MoveFormulas(cells, order', src, n, dst)
      /\ src + n <= MaxRows + 1 /\ dst \notin src .. (src + n)
  BY DEF MoveRows
<1>2. DOMAIN cells \subseteq RowId /\ \A id \in DOMAIN cells : cells[id] \in Contents
  BY DEF Inv, TypeOK, CellsOK
<1>3. /\ DOMAIN cells' = DOMAIN cells
      /\ \A id \in DOMAIN cells' :
            IF cells[id] \in References THEN cells'[id] \in References
            ELSE cells'[id] = cells[id]
  BY <1>1, <1>2, MoveFormulasType
<1> QED  BY <1>3, MoveSends DEF CellsSent, Inv, NoOrphans

-----------------------------------------------------------------------------
(* The steps of the list, row by row.                                       *)

LEMMA ThreePieces ==
    ASSUME NEW S, NEW a \in Seq(S), NEW b \in Seq(S), NEW c \in Seq(S)
    PROVE  /\ a \o b \o c \in Seq(S)
           /\ Len(a \o b \o c) = Len(a) + Len(b) + Len(c)
           /\ \A j \in 1 .. (Len(a) + Len(b) + Len(c)) :
                (a \o b \o c)[j] = IF j <= Len(a) THEN a[j]
                                  ELSE IF j <= Len(a) + Len(b) THEN b[j - Len(a)]
                                  ELSE c[j - Len(a) - Len(b)]
<1> DEFINE ab == a \o b
<1>1. /\ ab \in Seq(S) /\ Len(ab) = Len(a) + Len(b)
      /\ \A i \in 1 .. Len(ab) : ab[i] = IF i <= Len(a) THEN a[i] ELSE b[i - Len(a)]
  BY ConcatAt
<1>2. Len(a) \in Nat /\ Len(b) \in Nat /\ Len(c) \in Nat
  OBVIOUS
<1>3. a \o b \o c = ab \o c
  OBVIOUS
<1> HIDE DEF ab
<1>4. /\ ab \o c \in Seq(S) /\ Len(ab \o c) = Len(ab) + Len(c)
      /\ \A i \in 1 .. Len(ab \o c) :
            (ab \o c)[i] = IF i <= Len(ab) THEN ab[i] ELSE c[i - Len(ab)]
  <2>1. ab \in Seq(S)
    BY <1>1
  <2> QED  BY <2>1, ConcatAt
<1>5. ASSUME NEW j \in 1 .. (Len(a) + Len(b) + Len(c))
      PROVE  (ab \o c)[j] = IF j <= Len(a) THEN a[j]
                            ELSE IF j <= Len(a) + Len(b) THEN b[j - Len(a)]
                            ELSE c[j - Len(a) - Len(b)]
  <2>1. (ab \o c)[j] = IF j <= Len(ab) THEN ab[j] ELSE c[j - Len(ab)]
    BY <1>1, <1>2, <1>4
  <2>2. j - Len(ab) = j - Len(a) - Len(b)
    BY <1>1, <1>2
  <2>3. j <= Len(ab) => ab[j] = IF j <= Len(a) THEN a[j] ELSE b[j - Len(a)]
    BY <1>1, <1>2
  <2> QED  BY <1>1, <1>2, <2>1, <2>2, <2>3
<1> QED  BY <1>1, <1>2, <1>3, <1>4, <1>5

\* The list has a row for every index of the window.
View == [i \in Indices |-> RowAt(i)]
ListRow == [data : Values \cup {"formula", "nothing"}, height : Heights \cup {"nothing"}]

LEMMA ViewType ==
    ASSUME TypeOK
    PROVE  /\ \A i \in Indices : RowAt(i) \in ListRow
           /\ View \in Seq(ListRow) /\ Len(View) = MaxRows
           /\ \A i \in 1 .. MaxRows : View[i] = RowAt(i)
<1>1. ASSUME NEW i \in Indices
      PROVE  RowAt(i) \in ListRow
  BY DEF TypeOK, HeightsOK, RowAt, ListRow
<1>2. View \in [1 .. MaxRows -> ListRow] /\ MaxRows \in Nat
  BY <1>1, MaxRowsAssumption DEF View, Indices
<1> QED  BY <1>1, <1>2 DEF View, Indices

\* A list of MaxRows rows is known by its rows.
LEMMA SameList ==
    ASSUME TypeOK', NEW s \in Seq(ListRow), Len(s) = MaxRows,
           \A j \in 1 .. MaxRows : RowAt(j)' = s[j]
    PROVE  View' = s
<1>1. View' = [j \in 1 .. MaxRows |-> RowAt(j)']
  BY DEF View, Indices
<1>2. s = [j \in 1 .. MaxRows |-> s[j]]
  BY MaxRowsAssumption
<1> QED  BY <1>1, <1>2

\* A part of the list, possibly empty.
LEMMA PieceOfView ==
    ASSUME TypeOK, NEW from \in Nat \ {0}, NEW to \in Nat, to <= MaxRows, from <= to + 1
    PROVE  /\ SubSeq(View, from, to) \in Seq(ListRow)
           /\ Len(SubSeq(View, from, to)) = to - from + 1
           /\ \A j \in 1 .. (to - from + 1) : SubSeq(View, from, to)[j] = RowAt(from + j - 1)
<1> DEFINE a == SubSeq(View, from, to)
<1>0. /\ View \in Seq(ListRow) /\ Len(View) = MaxRows
      /\ \A i \in 1 .. MaxRows : View[i] = RowAt(i)
  BY ViewType
<1>1. /\ a \in Seq(ListRow) /\ Len(a) = (IF from <= to THEN to - from + 1 ELSE 0)
      /\ \A j \in 1 .. Len(a) : a[j] = View[from + j - 1]
  <2>1. to <= Len(View)
    BY <1>0
  <2> QED  BY <1>0, <2>1, SubSeqAt
<1> HIDE DEF a
<1>2. Len(a) = to - from + 1
  BY <1>1
<1>3. ASSUME NEW j \in 1 .. (to - from + 1)
      PROVE  a[j] = RowAt(from + j - 1)
  <2>1. from + j - 1 \in 1 .. MaxRows
    BY MaxRowsAssumption
  <2>2. a[j] = View[from + j - 1]
    BY <1>1, <1>2
  <2> QED  BY <1>0, <2>1, <2>2
<1> QED  BY <1>1, <1>2, <1>3 DEF a

Blanks(n) == [i \in 1 .. n |-> Blank]

LEMMA BlanksType ==
    ASSUME NEW n \in Nat
    PROVE  Blanks(n) \in Seq(ListRow) /\ Len(Blanks(n)) = n /\ \A i \in 1 .. n : Blanks(n)[i] = Blank
<1>1. Blank \in ListRow
  BY DEF Blank, ListRow
<1> QED  BY <1>1 DEF Blanks

LEMMA InsertView ==
    ASSUME Inv, Inv', NEW index \in Indices, NEW n \in Indices, InsertRows(index, n)
    PROVE  /\ \A j \in (MaxRows - n + 1) .. MaxRows : j > 0 => View[j] = Blank
           /\ View' = SubSeq(View, 1, index - 1) \o Blanks(n)
                        \o SubSeq(View, index, MaxRows - n)
<1> DEFINE G == ShiftWindow(index, n)
           a == SubSeq(View, 1, index - 1)
           b == Blanks(n)
           c == SubSeq(View, index, MaxRows - n)
<1>0. /\ index \in Nat \ {0} /\ n \in Nat \ {0} /\ MaxRows \in Nat
      /\ index + n <= MaxRows + 1 /\ Indices = 1 .. MaxRows
      /\ \A u \in Used : u + n <= MaxRows
      /\ View \in Seq(ListRow) /\ Len(View) = MaxRows
      /\ \A i \in 1 .. MaxRows : View[i] = RowAt(i)
  BY MaxRowsAssumption, ViewType DEF Indices, InsertRows, Inv
<1>1. ASSUME NEW j \in (MaxRows - n + 1) .. MaxRows, j > 0
      PROVE  View[j] = Blank
  <2>1. j \in 1 .. MaxRows /\ j \notin Used
    BY <1>0, <1>1
  <2>2. j \notin DOMAIN order /\ j \notin DOMAIN heights
    BY <2>1 DEF Used, Inv, TypeOK, OrderOK
  <2> QED  BY <1>0, <2>1, <2>2 DEF RowAt, Blank
<1>2. Shifted(index, n)
  BY <1>0, InsertSends DEF Shifted, InsertRows
<1>3. Sends(G) /\ OneToOne(G) /\ HeightsSent(G) /\ CellsSent
  BY <1>2, ShiftHeightsSent, InsertCellsSent
<1>4. \A i \in Indices : G[i] = ShiftIndex(i, index, n)
  BY DEF ShiftWindow
<1>5. /\ a \in Seq(ListRow) /\ Len(a) = index - 1
      /\ \A j \in 1 .. (index - 1) : a[j] = RowAt(j)
  <2>1. /\ a \in Seq(ListRow) /\ Len(a) = index - 1 - 1 + 1
        /\ \A j \in 1 .. (index - 1 - 1 + 1) : a[j] = RowAt(1 + j - 1)
    <3>1. index - 1 \in Nat /\ index - 1 <= MaxRows /\ 1 <= index - 1 + 1 /\ 1 \in Nat \ {0}
      BY <1>0
    <3> QED  BY <3>1, PieceOfView DEF Inv
  <2> HIDE DEF a
  <2> QED  BY <1>0, <2>1
<1>6. /\ c \in Seq(ListRow) /\ Len(c) = MaxRows - n - index + 1
      /\ \A j \in 1 .. (MaxRows - n - index + 1) : c[j] = RowAt(index + j - 1)
  <2>1. MaxRows - n \in Nat /\ MaxRows - n <= MaxRows /\ index <= MaxRows - n + 1
    BY <1>0
  <2> QED  BY <1>0, <2>1, PieceOfView DEF Inv
<1>7. b \in Seq(ListRow) /\ Len(b) = n /\ \A j \in 1 .. n : b[j] = Blank
  BY <1>0, BlanksType
<1> HIDE DEF a, b, c
<1> DEFINE w == a \o b \o c
<1>8. /\ w \in Seq(ListRow) /\ Len(w) = Len(a) + Len(b) + Len(c)
      /\ \A j \in 1 .. (Len(a) + Len(b) + Len(c)) :
            w[j] = IF j <= Len(a) THEN a[j]
                   ELSE IF j <= Len(a) + Len(b) THEN b[j - Len(a)]
                   ELSE c[j - Len(a) - Len(b)]
  <2>1. a \in Seq(ListRow) /\ b \in Seq(ListRow) /\ c \in Seq(ListRow)
    BY <1>5, <1>6, <1>7
  <2> QED  BY <2>1, ThreePieces
<1> HIDE DEF w
<1>l. Len(a) = index - 1 /\ Len(b) = n /\ Len(c) = MaxRows - n - index + 1
  BY <1>5, <1>6, <1>7
<1>9. Len(a) + Len(b) + Len(c) = MaxRows
  BY <1>0, <1>l
<1> HIDE DEF G
<1>10. ASSUME NEW j \in 1 .. MaxRows
       PROVE  RowAt(j)' = w[j]
  <2>1. CASE j < index
    <3>1. G[j] = j
      BY <1>0, <1>4, <2>1 DEF ShiftIndex
    <3>2. RowAt(j)' = RowAt(j)
      BY <1>0, <1>3, <3>1, ViewSent
    <3>3. w[j] = a[j] /\ a[j] = RowAt(j)
      BY <1>0, <1>5, <1>8, <1>9, <2>1
    <3> QED  BY <3>2, <3>3
  <2>2. CASE index <= j /\ j < index + n
    <3>1. \A i \in Indices : G[i] # j
      BY <1>0, <1>4, <2>2 DEF ShiftIndex
    <3>2. RowAt(j)' = Blank
      BY <1>0, <1>3, <3>1, ViewSent
    <3>3. w[j] = b[j - Len(a)] /\ j - Len(a) \in 1 .. n
      <4>1. ~(j <= Len(a)) /\ j <= Len(a) + Len(b) /\ j - Len(a) \in 1 .. n
        BY <1>0, <1>l, <2>2
      <4> QED  BY <1>8, <1>9, <4>1
    <3> QED  BY <1>7, <3>2, <3>3
  <2>3. CASE index + n <= j
    <3>1. j - n \in Indices /\ G[j - n] = j
      BY <1>0, <1>4, <2>3 DEF ShiftIndex
    <3>2. RowAt(j)' = RowAt(j - n)
      BY <1>0, <1>3, <3>1, ViewSent
    <3>3. w[j] = c[j - Len(a) - Len(b)] /\ j - Len(a) - Len(b) \in 1 .. Len(c)
      <4>1. /\ Len(a) = index - 1 /\ Len(b) = n /\ Len(c) = MaxRows - n - index + 1
            /\ ~(j <= Len(a)) /\ ~(j <= Len(a) + Len(b)) /\ j \in 1 .. (Len(a) + Len(b) + Len(c))
        BY <1>0, <1>l, <1>9, <2>3
      <4>2. j - Len(a) - Len(b) \in 1 .. Len(c)
        BY <1>0, <2>3, <4>1
      <4> QED  BY <1>8, <4>1, <4>2
    <3>4. index + (j - Len(a) - Len(b)) - 1 = j - n
      BY <1>0, <1>5, <1>7
    <3>5. w[j] = RowAt(j - n)
      BY <1>6, <3>3, <3>4
    <3> QED  BY <3>2, <3>5
  <2> QED  BY <1>0, <2>1, <2>2, <2>3
<1>11. View' = w
  BY <1>8, <1>9, <1>10, SameList DEF Inv
<1> QED  BY <1>1, <1>11 DEF a, b, c, w

LEMMA DeleteView ==
    ASSUME Inv, Inv', NEW index \in Indices, NEW n \in Indices, DeleteRows(index, n)
    PROVE  View' = SubSeq(View, 1, index - 1) \o SubSeq(View, index + n, MaxRows) \o Blanks(n)
<1> DEFINE G == ShiftWindow(index, -n)
           a == SubSeq(View, 1, index - 1)
           b == SubSeq(View, index + n, MaxRows)
           c == Blanks(n)
<1>0. /\ index \in Nat \ {0} /\ n \in Nat \ {0} /\ MaxRows \in Nat
      /\ index + n <= MaxRows + 1 /\ Indices = 1 .. MaxRows /\ TypeOK
  BY MaxRowsAssumption DEF Indices, DeleteRows, Inv
<1>1. Shifted(index, -n)
  BY <1>0, DeleteSends DEF Shifted, DeleteRows
<1>2. Sends(G) /\ OneToOne(G) /\ HeightsSent(G) /\ CellsSent
  BY <1>1, ShiftHeightsSent, DeleteCellsSent
<1>3. \A i \in Indices : G[i] = ShiftIndex(i, index, -n)
  BY DEF ShiftWindow
<1>5. /\ a \in Seq(ListRow) /\ Len(a) = index - 1
      /\ \A j \in 1 .. (index - 1) : a[j] = RowAt(j)
  <2>1. /\ a \in Seq(ListRow) /\ Len(a) = index - 1 - 1 + 1
        /\ \A j \in 1 .. (index - 1 - 1 + 1) : a[j] = RowAt(1 + j - 1)
    <3>1. index - 1 \in Nat /\ index - 1 <= MaxRows /\ 1 <= index - 1 + 1 /\ 1 \in Nat \ {0}
      BY <1>0
    <3> QED  BY <1>0, <3>1, PieceOfView
  <2> HIDE DEF a
  <2> QED  BY <1>0, <2>1
<1>6. /\ b \in Seq(ListRow) /\ Len(b) = MaxRows - (index + n) + 1
      /\ \A j \in 1 .. (MaxRows - (index + n) + 1) : b[j] = RowAt(index + n + j - 1)
  <2>1. index + n \in Nat \ {0} /\ MaxRows <= MaxRows /\ index + n <= MaxRows + 1
    BY <1>0
  <2> QED  BY <1>0, <2>1, PieceOfView
<1>7. c \in Seq(ListRow) /\ Len(c) = n /\ \A j \in 1 .. n : c[j] = Blank
  BY <1>0, BlanksType
<1> HIDE DEF a, b, c, G
<1> DEFINE w == a \o b \o c
<1>8. /\ w \in Seq(ListRow) /\ Len(w) = Len(a) + Len(b) + Len(c)
      /\ \A j \in 1 .. (Len(a) + Len(b) + Len(c)) :
            w[j] = IF j <= Len(a) THEN a[j]
                   ELSE IF j <= Len(a) + Len(b) THEN b[j - Len(a)]
                   ELSE c[j - Len(a) - Len(b)]
  <2>1. a \in Seq(ListRow) /\ b \in Seq(ListRow) /\ c \in Seq(ListRow)
    BY <1>5, <1>6, <1>7
  <2> QED  BY <2>1, ThreePieces
<1> HIDE DEF w
<1>9. Len(a) + Len(b) + Len(c) = MaxRows
  BY <1>0, <1>5, <1>6, <1>7
<1>10. ASSUME NEW j \in 1 .. MaxRows
       PROVE  RowAt(j)' = w[j]
  <2>1. CASE j < index
    <3>1. G[j] = j
      BY <1>0, <1>3, <2>1 DEF ShiftIndex
    <3>2. RowAt(j)' = RowAt(j)
      BY <1>0, <1>2, <3>1, ViewSent
    <3>3. w[j] = a[j] /\ a[j] = RowAt(j)
      BY <1>0, <1>5, <1>8, <1>9, <2>1
    <3> QED  BY <3>2, <3>3
  <2>2. CASE index <= j /\ j <= MaxRows - n
    <3>1. j + n \in Indices /\ G[j + n] = j
      BY <1>0, <1>3, <2>2 DEF ShiftIndex
    <3>2. RowAt(j)' = RowAt(j + n)
      BY <1>0, <1>2, <3>1, ViewSent
    <3>3. w[j] = b[j - Len(a)] /\ j - Len(a) \in 1 .. (MaxRows - (index + n) + 1)
      <4>1. /\ ~(j <= Len(a)) /\ j <= Len(a) + Len(b)
            /\ j - Len(a) \in 1 .. (MaxRows - (index + n) + 1)
        BY <1>0, <1>5, <1>6, <2>2
      <4> QED  BY <1>8, <1>9, <4>1
    <3>4. index + n + (j - Len(a)) - 1 = j + n
      BY <1>0, <1>5
    <3> QED  BY <1>6, <3>2, <3>3, <3>4
  <2>3. CASE MaxRows - n < j
    <3>1. \A i \in Indices : G[i] # j
      BY <1>0, <1>3, <2>3 DEF ShiftIndex, Gone
    <3>2. RowAt(j)' = Blank
      BY <1>0, <1>2, <3>1, ViewSent
    <3>3. w[j] = c[j - Len(a) - Len(b)] /\ j - Len(a) - Len(b) \in 1 .. n
      <4>1. /\ ~(j <= Len(a)) /\ ~(j <= Len(a) + Len(b)) /\ j - Len(a) - Len(b) \in 1 .. n
        BY <1>0, <1>5, <1>6, <2>3
      <4> QED  BY <1>8, <1>9, <4>1
    <3> QED  BY <1>7, <3>2, <3>3
  <2> QED  BY <1>0, <2>1, <2>2, <2>3
<1>11. View' = w
  BY <1>8, <1>9, <1>10, SameList DEF Inv
<1> QED  BY <1>11 DEF a, b, c, w

LEMMA FourPieces ==
    ASSUME NEW S, NEW a \in Seq(S), NEW b \in Seq(S), NEW c \in Seq(S), NEW d \in Seq(S)
    PROVE  /\ a \o b \o c \o d \in Seq(S)
           /\ Len(a \o b \o c \o d) = Len(a) + Len(b) + Len(c) + Len(d)
           /\ \A j \in 1 .. (Len(a) + Len(b) + Len(c) + Len(d)) :
                (a \o b \o c \o d)[j] =
                    IF j <= Len(a) THEN a[j]
                    ELSE IF j <= Len(a) + Len(b) THEN b[j - Len(a)]
                    ELSE IF j <= Len(a) + Len(b) + Len(c) THEN c[j - Len(a) - Len(b)]
                    ELSE d[j - Len(a) - Len(b) - Len(c)]
<1> DEFINE abc == a \o b \o c
<1>1. /\ abc \in Seq(S) /\ Len(abc) = Len(a) + Len(b) + Len(c)
      /\ \A j \in 1 .. (Len(a) + Len(b) + Len(c)) :
            abc[j] = IF j <= Len(a) THEN a[j]
                     ELSE IF j <= Len(a) + Len(b) THEN b[j - Len(a)]
                     ELSE c[j - Len(a) - Len(b)]
  BY ThreePieces
<1>2. Len(a) \in Nat /\ Len(b) \in Nat /\ Len(c) \in Nat /\ Len(d) \in Nat
  OBVIOUS
<1>3. a \o b \o c \o d = abc \o d
  OBVIOUS
<1> HIDE DEF abc
<1>4. /\ abc \o d \in Seq(S) /\ Len(abc \o d) = Len(abc) + Len(d)
      /\ \A i \in 1 .. Len(abc \o d) :
            (abc \o d)[i] = IF i <= Len(abc) THEN abc[i] ELSE d[i - Len(abc)]
  <2>1. abc \in Seq(S)
    BY <1>1
  <2> QED  BY <2>1, ConcatAt
<1> DEFINE w == abc \o d
<1>5. /\ w \in Seq(S) /\ Len(w) = Len(abc) + Len(d)
      /\ \A i \in 1 .. Len(w) : w[i] = IF i <= Len(abc) THEN abc[i] ELSE d[i - Len(abc)]
  BY <1>4
<1>6. a \o b \o c \o d = w
  BY <1>3
<1> HIDE DEF w
<1>7. ASSUME NEW j \in 1 .. (Len(a) + Len(b) + Len(c) + Len(d))
      PROVE  w[j] = IF j <= Len(a) THEN a[j]
                    ELSE IF j <= Len(a) + Len(b) THEN b[j - Len(a)]
                    ELSE IF j <= Len(a) + Len(b) + Len(c) THEN c[j - Len(a) - Len(b)]
                    ELSE d[j - Len(a) - Len(b) - Len(c)]
  <2>1. w[j] = IF j <= Len(abc) THEN abc[j] ELSE d[j - Len(abc)]
    BY <1>1, <1>2, <1>5
  <2>2. CASE j <= Len(abc)
    <3>1. j \in 1 .. (Len(a) + Len(b) + Len(c)) /\ j <= Len(a) + Len(b) + Len(c)
      BY <1>1, <1>2, <2>2
    <3> QED  BY <1>1, <2>1, <2>2, <3>1
  <2>3. CASE ~(j <= Len(abc))
    <3>1. /\ ~(j <= Len(a)) /\ ~(j <= Len(a) + Len(b)) /\ ~(j <= Len(a) + Len(b) + Len(c))
          /\ j - Len(abc) = j - Len(a) - Len(b) - Len(c)
      BY <1>1, <1>2, <2>3
    <3> QED  BY <2>1, <2>3, <3>1
  <2> QED  BY <2>2, <2>3
<1> QED  BY <1>1, <1>2, <1>5, <1>6, <1>7

LEMMA MoveUpView ==
    ASSUME Inv, Inv', NEW src \in Indices, NEW n \in Indices, NEW dst \in 1 .. (MaxRows + 1),
           MoveRows(src, n, dst), dst <= src
    PROVE  View' = SubSeq(View, 1, dst - 1) \o SubSeq(View, src, src + n - 1)
                     \o SubSeq(View, dst, src - 1) \o SubSeq(View, src + n, MaxRows)
<1> DEFINE G == MoveWindow(src, n, dst)
           a == SubSeq(View, 1, dst - 1)
           b == SubSeq(View, src, src + n - 1)
           c == SubSeq(View, dst, src - 1)
           d == SubSeq(View, src + n, MaxRows)
<1>0. /\ src \in Nat \ {0} /\ n \in Nat \ {0} /\ dst \in Nat \ {0} /\ MaxRows \in Nat
      /\ src + n <= MaxRows + 1 /\ dst <= MaxRows + 1 /\ dst \notin src .. (src + n)
      /\ dst <= src /\ Indices = 1 .. MaxRows /\ TypeOK
  BY MaxRowsAssumption DEF Indices, MoveRows, Inv
<1>2. Sends(G) /\ OneToOne(G) /\ HeightsSent(G) /\ CellsSent
  BY MoveHeightsSent, MoveCellsSent
<1>3. \A i \in Indices : G[i] = RemapIndex(i, src, n, dst)
  BY DEF MoveWindow
<1>4. /\ a \in Seq(ListRow) /\ Len(a) = dst - 1
      /\ \A j \in 1 .. (dst - 1) : a[j] = RowAt(1 + j - 1)
  <2>1. /\ 1 \in Nat \ {0} /\ dst - 1 \in Nat /\ dst - 1 <= MaxRows /\ 1 <= dst - 1 + 1
        /\ dst - 1 - 1 + 1 = dst - 1
    BY <1>0
  <2>2. /\ a \in Seq(ListRow) /\ Len(a) = dst - 1 - 1 + 1
        /\ \A j \in 1 .. (dst - 1 - 1 + 1) : a[j] = RowAt(1 + j - 1)
    BY <1>0, <2>1, PieceOfView
  <2> HIDE DEF a
  <2> QED  BY <2>1, <2>2
<1>5. /\ b \in Seq(ListRow) /\ Len(b) = n
      /\ \A j \in 1 .. n : b[j] = RowAt(src + j - 1)
  <2> DEFINE last == src + n - 1
  <2>1. /\ src \in Nat \ {0} /\ last \in Nat /\ last <= MaxRows /\ src <= last + 1
        /\ last - src + 1 = n
    BY <1>0
  <2>2. b = SubSeq(View, src, last)
    OBVIOUS
  <2> HIDE DEF last, b
  <2>3. /\ b \in Seq(ListRow) /\ Len(b) = last - src + 1
        /\ \A j \in 1 .. (last - src + 1) : b[j] = RowAt(src + j - 1)
    BY <1>0, <2>1, <2>2, PieceOfView
  <2> QED  BY <2>1, <2>3
<1>6. /\ c \in Seq(ListRow) /\ Len(c) = src - dst
      /\ \A j \in 1 .. (src - dst) : c[j] = RowAt(dst + j - 1)
  <2>1. /\ dst \in Nat \ {0} /\ src - 1 \in Nat /\ src - 1 <= MaxRows /\ dst <= src - 1 + 1
        /\ src - 1 - dst + 1 = src - dst
    BY <1>0
  <2>2. /\ c \in Seq(ListRow) /\ Len(c) = src - 1 - dst + 1
        /\ \A j \in 1 .. (src - 1 - dst + 1) : c[j] = RowAt(dst + j - 1)
    BY <1>0, <2>1, PieceOfView
  <2> HIDE DEF c
  <2> QED  BY <2>1, <2>2
<1>7. /\ d \in Seq(ListRow) /\ Len(d) = MaxRows - (src + n) + 1
      /\ \A j \in 1 .. (MaxRows - (src + n) + 1) : d[j] = RowAt(src + n + j - 1)
  <2>1. /\ src + n \in Nat \ {0} /\ MaxRows \in Nat /\ MaxRows <= MaxRows /\ src + n <= MaxRows + 1
    BY <1>0
  <2>2. /\ d \in Seq(ListRow) /\ Len(d) = MaxRows - (src + n) + 1
        /\ \A j \in 1 .. (MaxRows - (src + n) + 1) : d[j] = RowAt(src + n + j - 1)
    BY <1>0, <2>1, PieceOfView
  <2> HIDE DEF d
  <2> QED  BY <2>1, <2>2
<1> HIDE DEF a, b, c, d, G
<1> DEFINE w == a \o b \o c \o d
<1>8. /\ w \in Seq(ListRow) /\ Len(w) = Len(a) + Len(b) + Len(c) + Len(d)
      /\ \A j \in 1 .. (Len(a) + Len(b) + Len(c) + Len(d)) :
            w[j] = IF j <= Len(a) THEN a[j]
                   ELSE IF j <= Len(a) + Len(b) THEN b[j - Len(a)]
                   ELSE IF j <= Len(a) + Len(b) + Len(c) THEN c[j - Len(a) - Len(b)]
                   ELSE d[j - Len(a) - Len(b) - Len(c)]
  <2>1. /\ a \in Seq(ListRow) /\ b \in Seq(ListRow)
        /\ c \in Seq(ListRow) /\ d \in Seq(ListRow)
    BY <1>4, <1>5, <1>6, <1>7
  <2> QED  BY <2>1, FourPieces
<1> HIDE DEF w
<1>9. /\ Len(a) = dst - 1 /\ Len(b) = n
      /\ Len(c) = src - dst /\ Len(d) = MaxRows - (src + n) + 1
      /\ Len(a) + Len(b) + Len(c) + Len(d) = MaxRows
  <2>1. /\ Len(a) = dst - 1 /\ Len(b) = n
        /\ Len(c) = src - dst /\ Len(d) = MaxRows - (src + n) + 1
    BY <1>4, <1>5, <1>6, <1>7
  <2> QED  BY <1>0, <2>1
<1>10. ASSUME NEW j \in 1 .. MaxRows
       PROVE  RowAt(j)' = w[j]
  <2>1. CASE j < dst
    <3>1. j \in Indices /\ G[j] = j
      BY <1>0, <1>3, <2>1 DEF RemapIndex
    <3>2. RowAt(j)' = RowAt(j)
      BY <1>0, <1>2, <3>1, ViewSent
    <3>3. w[j] = a[j] /\ j \in 1 .. (dst - 1)
      <4>1. /\ j <= Len(a)
            /\ j \in 1 .. (dst - 1)
        BY <1>0, <1>9, <2>1
      <4> QED  BY <1>8, <1>9, <4>1
    <3>4. 1 + j - 1 = j
      BY <1>0, <1>9
    <3> QED  BY <1>4, <3>2, <3>3, <3>4
  <2>2. CASE dst <= j /\ j < dst + n
    <3>1. j - dst + src \in Indices /\ G[j - dst + src] = j
      BY <1>0, <1>3, <2>2 DEF RemapIndex
    <3>2. RowAt(j)' = RowAt(j - dst + src)
      BY <1>0, <1>2, <3>1, ViewSent
    <3>3. w[j] = b[j - Len(a)] /\ j - Len(a) \in 1 .. n
      <4>1. /\ ~(j <= Len(a)) /\ j <= Len(a) + Len(b)
            /\ j - Len(a) \in 1 .. n
        BY <1>0, <1>9, <2>2
      <4> QED  BY <1>8, <1>9, <4>1
    <3>4. src + (j - Len(a)) - 1 = j - dst + src
      BY <1>0, <1>9
    <3> QED  BY <1>5, <3>2, <3>3, <3>4
  <2>3. CASE dst + n <= j /\ j < src + n
    <3>1. j - n \in Indices /\ G[j - n] = j
      BY <1>0, <1>3, <2>3 DEF RemapIndex
    <3>2. RowAt(j)' = RowAt(j - n)
      BY <1>0, <1>2, <3>1, ViewSent
    <3>3. w[j] = c[j - Len(a) - Len(b)] /\ j - Len(a) - Len(b) \in 1 .. (src - dst)
      <4>1. /\ ~(j <= Len(a)) /\ ~(j <= Len(a) + Len(b)) /\ j <= Len(a) + Len(b) + Len(c)
            /\ j - Len(a) - Len(b) \in 1 .. (src - dst)
        BY <1>0, <1>9, <2>3
      <4> QED  BY <1>8, <1>9, <4>1
    <3>4. dst + (j - Len(a) - Len(b)) - 1 = j - n
      BY <1>0, <1>9
    <3> QED  BY <1>6, <3>2, <3>3, <3>4
  <2>4. CASE src + n <= j
    <3>1. j \in Indices /\ G[j] = j
      BY <1>0, <1>3, <2>4 DEF RemapIndex
    <3>2. RowAt(j)' = RowAt(j)
      BY <1>0, <1>2, <3>1, ViewSent
    <3>3. w[j] = d[j - Len(a) - Len(b) - Len(c)] /\ j - Len(a) - Len(b) - Len(c) \in 1 .. (MaxRows - (src + n) + 1)
      <4>1. /\ ~(j <= Len(a)) /\ ~(j <= Len(a) + Len(b)) /\ ~(j <= Len(a) + Len(b) + Len(c))
            /\ j - Len(a) - Len(b) - Len(c) \in 1 .. (MaxRows - (src + n) + 1)
        BY <1>0, <1>9, <2>4
      <4> QED  BY <1>8, <1>9, <4>1
    <3>4. src + n + (j - Len(a) - Len(b) - Len(c)) - 1 = j
      BY <1>0, <1>9
    <3> QED  BY <1>7, <3>2, <3>3, <3>4
  <2> QED  BY <1>0, <2>1, <2>2, <2>3, <2>4
<1>11. View' = w
  BY <1>8, <1>9, <1>10, SameList DEF Inv
<1> QED  BY <1>11 DEF a, b, c, d, w

LEMMA MoveDownView ==
    ASSUME Inv, Inv', NEW src \in Indices, NEW n \in Indices, NEW dst \in 1 .. (MaxRows + 1),
           MoveRows(src, n, dst), ~(dst <= src)
    PROVE  View' = SubSeq(View, 1, src - 1) \o SubSeq(View, src + n, dst - 1)
                     \o SubSeq(View, src, src + n - 1) \o SubSeq(View, dst, MaxRows)
<1> DEFINE G == MoveWindow(src, n, dst)
           a == SubSeq(View, 1, src - 1)
           b == SubSeq(View, src + n, dst - 1)
           c == SubSeq(View, src, src + n - 1)
           d == SubSeq(View, dst, MaxRows)
<1>0. /\ src \in Nat \ {0} /\ n \in Nat \ {0} /\ dst \in Nat \ {0} /\ MaxRows \in Nat
      /\ src + n <= MaxRows + 1 /\ dst <= MaxRows + 1 /\ dst \notin src .. (src + n)
      /\ ~(dst <= src) /\ Indices = 1 .. MaxRows /\ TypeOK
  BY MaxRowsAssumption DEF Indices, MoveRows, Inv
<1>2. Sends(G) /\ OneToOne(G) /\ HeightsSent(G) /\ CellsSent
  BY MoveHeightsSent, MoveCellsSent
<1>3. \A i \in Indices : G[i] = RemapIndex(i, src, n, dst)
  BY DEF MoveWindow
<1>4. /\ a \in Seq(ListRow) /\ Len(a) = src - 1
      /\ \A j \in 1 .. (src - 1) : a[j] = RowAt(1 + j - 1)
  <2>1. /\ 1 \in Nat \ {0} /\ src - 1 \in Nat /\ src - 1 <= MaxRows /\ 1 <= src - 1 + 1
        /\ src - 1 - 1 + 1 = src - 1
    BY <1>0
  <2>2. /\ a \in Seq(ListRow) /\ Len(a) = src - 1 - 1 + 1
        /\ \A j \in 1 .. (src - 1 - 1 + 1) : a[j] = RowAt(1 + j - 1)
    BY <1>0, <2>1, PieceOfView
  <2> HIDE DEF a
  <2> QED  BY <2>1, <2>2
<1>5. /\ b \in Seq(ListRow) /\ Len(b) = dst - (src + n)
      /\ \A j \in 1 .. (dst - (src + n)) : b[j] = RowAt(src + n + j - 1)
  <2>1. /\ src + n \in Nat \ {0} /\ dst - 1 \in Nat /\ dst - 1 <= MaxRows /\ src + n <= dst - 1 + 1
        /\ dst - 1 - (src + n) + 1 = dst - (src + n)
    BY <1>0
  <2>2. /\ b \in Seq(ListRow) /\ Len(b) = dst - 1 - (src + n) + 1
        /\ \A j \in 1 .. (dst - 1 - (src + n) + 1) : b[j] = RowAt(src + n + j - 1)
    BY <1>0, <2>1, PieceOfView
  <2> HIDE DEF b
  <2> QED  BY <2>1, <2>2
<1>6. /\ c \in Seq(ListRow) /\ Len(c) = n
      /\ \A j \in 1 .. n : c[j] = RowAt(src + j - 1)
  <2> DEFINE last == src + n - 1
  <2>1. /\ src \in Nat \ {0} /\ last \in Nat /\ last <= MaxRows /\ src <= last + 1
        /\ last - src + 1 = n
    BY <1>0
  <2>2. c = SubSeq(View, src, last)
    OBVIOUS
  <2> HIDE DEF last, c
  <2>3. /\ c \in Seq(ListRow) /\ Len(c) = last - src + 1
        /\ \A j \in 1 .. (last - src + 1) : c[j] = RowAt(src + j - 1)
    BY <1>0, <2>1, <2>2, PieceOfView
  <2> QED  BY <2>1, <2>3
<1>7. /\ d \in Seq(ListRow) /\ Len(d) = MaxRows - dst + 1
      /\ \A j \in 1 .. (MaxRows - dst + 1) : d[j] = RowAt(dst + j - 1)
  <2>1. /\ dst \in Nat \ {0} /\ MaxRows \in Nat /\ MaxRows <= MaxRows /\ dst <= MaxRows + 1
    BY <1>0
  <2>2. /\ d \in Seq(ListRow) /\ Len(d) = MaxRows - dst + 1
        /\ \A j \in 1 .. (MaxRows - dst + 1) : d[j] = RowAt(dst + j - 1)
    BY <1>0, <2>1, PieceOfView
  <2> HIDE DEF d
  <2> QED  BY <2>1, <2>2
<1> HIDE DEF a, b, c, d, G
<1> DEFINE w == a \o b \o c \o d
<1>8. /\ w \in Seq(ListRow) /\ Len(w) = Len(a) + Len(b) + Len(c) + Len(d)
      /\ \A j \in 1 .. (Len(a) + Len(b) + Len(c) + Len(d)) :
            w[j] = IF j <= Len(a) THEN a[j]
                   ELSE IF j <= Len(a) + Len(b) THEN b[j - Len(a)]
                   ELSE IF j <= Len(a) + Len(b) + Len(c) THEN c[j - Len(a) - Len(b)]
                   ELSE d[j - Len(a) - Len(b) - Len(c)]
  <2>1. /\ a \in Seq(ListRow) /\ b \in Seq(ListRow)
        /\ c \in Seq(ListRow) /\ d \in Seq(ListRow)
    BY <1>4, <1>5, <1>6, <1>7
  <2> QED  BY <2>1, FourPieces
<1> HIDE DEF w
<1>9. /\ Len(a) = src - 1 /\ Len(b) = dst - (src + n)
      /\ Len(c) = n /\ Len(d) = MaxRows - dst + 1
      /\ Len(a) + Len(b) + Len(c) + Len(d) = MaxRows
  <2>1. /\ Len(a) = src - 1 /\ Len(b) = dst - (src + n)
        /\ Len(c) = n /\ Len(d) = MaxRows - dst + 1
    BY <1>4, <1>5, <1>6, <1>7
  <2> QED  BY <1>0, <2>1
<1>10. ASSUME NEW j \in 1 .. MaxRows
       PROVE  RowAt(j)' = w[j]
  <2>1. CASE j < src
    <3>1. j \in Indices /\ G[j] = j
      BY <1>0, <1>3, <2>1 DEF RemapIndex
    <3>2. RowAt(j)' = RowAt(j)
      BY <1>0, <1>2, <3>1, ViewSent
    <3>3. w[j] = a[j] /\ j \in 1 .. (src - 1)
      <4>1. /\ j <= Len(a)
            /\ j \in 1 .. (src - 1)
        BY <1>0, <1>9, <2>1
      <4> QED  BY <1>8, <1>9, <4>1
    <3>4. 1 + j - 1 = j
      BY <1>0, <1>9
    <3> QED  BY <1>4, <3>2, <3>3, <3>4
  <2>2. CASE src <= j /\ j < dst - n
    <3>1. j + n \in Indices /\ G[j + n] = j
      BY <1>0, <1>3, <2>2 DEF RemapIndex
    <3>2. RowAt(j)' = RowAt(j + n)
      BY <1>0, <1>2, <3>1, ViewSent
    <3>3. w[j] = b[j - Len(a)] /\ j - Len(a) \in 1 .. (dst - (src + n))
      <4>1. /\ ~(j <= Len(a)) /\ j <= Len(a) + Len(b)
            /\ j - Len(a) \in 1 .. (dst - (src + n))
        BY <1>0, <1>9, <2>2
      <4> QED  BY <1>8, <1>9, <4>1
    <3>4. src + n + (j - Len(a)) - 1 = j + n
      BY <1>0, <1>9
    <3> QED  BY <1>5, <3>2, <3>3, <3>4
  <2>3. CASE dst - n <= j /\ j < dst
    <3>1. j - (dst - n) + src \in Indices /\ G[j - (dst - n) + src] = j
      BY <1>0, <1>3, <2>3 DEF RemapIndex
    <3>2. RowAt(j)' = RowAt(j - (dst - n) + src)
      BY <1>0, <1>2, <3>1, ViewSent
    <3>3. w[j] = c[j - Len(a) - Len(b)] /\ j - Len(a) - Len(b) \in 1 .. n
      <4>1. /\ ~(j <= Len(a)) /\ ~(j <= Len(a) + Len(b)) /\ j <= Len(a) + Len(b) + Len(c)
            /\ j - Len(a) - Len(b) \in 1 .. n
        BY <1>0, <1>9, <2>3
      <4> QED  BY <1>8, <1>9, <4>1
    <3>4. src + (j - Len(a) - Len(b)) - 1 = j - (dst - n) + src
      BY <1>0, <1>9
    <3> QED  BY <1>6, <3>2, <3>3, <3>4
  <2>4. CASE dst <= j
    <3>1. j \in Indices /\ G[j] = j
      BY <1>0, <1>3, <2>4 DEF RemapIndex
    <3>2. RowAt(j)' = RowAt(j)
      BY <1>0, <1>2, <3>1, ViewSent
    <3>3. w[j] = d[j - Len(a) - Len(b) - Len(c)] /\ j - Len(a) - Len(b) - Len(c) \in 1 .. (MaxRows - dst + 1)
      <4>1. /\ ~(j <= Len(a)) /\ ~(j <= Len(a) + Len(b)) /\ ~(j <= Len(a) + Len(b) + Len(c))
            /\ j - Len(a) - Len(b) - Len(c) \in 1 .. (MaxRows - dst + 1)
        BY <1>0, <1>9, <2>4
      <4> QED  BY <1>8, <1>9, <4>1
    <3>4. dst + (j - Len(a) - Len(b) - Len(c)) - 1 = j
      BY <1>0, <1>9
    <3> QED  BY <1>7, <3>2, <3>3, <3>4
  <2> QED  BY <1>0, <2>1, <2>2, <2>3, <2>4
<1>11. View' = w
  BY <1>8, <1>9, <1>10, SameList DEF Inv
<1> QED  BY <1>11 DEF a, b, c, d, w

LEMMA MoveView ==
    ASSUME Inv, Inv', NEW src \in Indices, NEW n \in Indices, NEW dst \in 1 .. (MaxRows + 1),
           MoveRows(src, n, dst)
    PROVE  Rows!MoveRows(src, n, dst)
<1>1. CASE dst <= src
  BY <1>1, MoveUpView DEF Rows!MoveRows, View
<1>2. CASE ~(dst <= src)
  BY <1>2, MoveDownView DEF Rows!MoveRows, View
<1> QED  BY <1>1, <1>2

\* A step after which one row at most looks different is an edit of that row.
LEMMA OneRowEdited ==
    ASSUME TypeOK, TypeOK', NEW at \in Indices,
           \A i \in Indices \ {at} : RowAt(i)' = RowAt(i)
    PROVE  Rows!Next
<1>1. RowAt(at)' \in ListRow
  BY DEF TypeOK, HeightsOK, RowAt, ListRow
<1>2. View' = [View EXCEPT ![at] = RowAt(at)']
  BY DEF View
<1>3. Rows!EditRow(at, RowAt(at)')
  BY <1>2 DEF Rows!EditRow, View
<1>4. RowAt(at)' \in Rows!Row
  BY <1>1 DEF Rows!Row, ListRow
<1>5. at \in 1 .. MaxRows
  BY DEF Indices
<1> QED  BY <1>3, <1>4, <1>5 DEF Rows!Next

\* A step that leaves the order, the cells and the heights alone shows no change.
LEMMA NothingShown ==
    ASSUME UNCHANGED <<order, cells, heights>>
    PROVE  UNCHANGED View
BY DEF View, RowAt

(* Growing the order leaves every row where it is; the rows it adds hold    *)
(* nothing yet.                                                             *)
LEMMA GrownRows ==
    ASSUME Inv, NEW at \in Indices, NEW new \in NewIds(Missing(at)), order' = order \o new
    PROVE  /\ order' \in Seq(RowId) /\ Distinct(order')
           /\ at \in DOMAIN order' /\ order'[at] = (order \o new)[at]
           /\ \A i \in DOMAIN order : i \in DOMAIN order' /\ order'[i] = order[i]
           /\ \A i \in DOMAIN order' \ DOMAIN order : order'[i] \notin DOMAIN cells
<1>1. OrderOK /\ order \in Seq(RowId) /\ Len(order) \in Nat /\ Distinct(order)
  BY DEF Inv, TypeOK, OrderOK
<1>2. Missing(at) \in Nat /\ at \in 1 .. (Len(order) + Missing(at))
  BY <1>1, MaxRowsAssumption DEF Missing, MaxOf, Indices
<1>3. Fresh(new, Missing(at))
  BY <1>2, NewIdsAreFresh
<1>4. /\ order' \in Seq(RowId) /\ Len(order') = Len(order) + Missing(at)
      /\ \A i \in 1 .. Len(order) : order'[i] = order[i]
      /\ Distinct(order')
  BY <1>1, <1>2, <1>3, GrownOrder
<1>5. DOMAIN order = 1 .. Len(order) /\ DOMAIN order' = 1 .. (Len(order) + Missing(at))
  BY <1>1, <1>4
<1>6. \A i \in DOMAIN order : i \in DOMAIN order' /\ order'[i] = order[i]
  BY <1>1, <1>2, <1>4, <1>5
<1>7. ASSUME NEW i \in DOMAIN order', i \notin DOMAIN order
      PROVE  order'[i] \notin RowsOf(order)
  <2>1. SUFFICES ASSUME NEW j \in DOMAIN order, order'[i] = order[j]
                 PROVE  FALSE
    BY DEF RowsOf
  <2>2. j \in DOMAIN order' /\ order'[j] = order'[i] /\ i # j
    BY <1>6, <1>7, <2>1
  <2> QED  BY <1>4, <2>2 DEF Distinct
<1>8. DOMAIN cells \subseteq RowsOf(order)
  BY DEF Inv, NoOrphans
<1> QED  BY <1>2, <1>4, <1>5, <1>6, <1>7, <1>8

\* Typing into a cell changes the row of the cell, and no other.
LEMMA SetCellShown ==
    ASSUME Inv, Inv', NEW i \in Indices, NEW c \in Contents, SetCell(i, c)
    PROVE  Rows!Next
<1>0. PICK at \in AnchorsOf(i) : \E new \in NewIds(Missing(at)) :
         /\ order' = order \o new
         /\ cells' = Put(cells, (order \o new)[at], c)
         /\ heights' = heights
  BY DEF SetCell
<1>1. PICK new \in NewIds(Missing(at)) :
         /\ order' = order \o new
         /\ cells' = Put(cells, (order \o new)[at], c)
         /\ heights' = heights
  BY <1>0
<1>2. at \in Indices
  BY AnchorsType DEF Inv
<1>3. /\ order' \in Seq(RowId) /\ Distinct(order')
      /\ at \in DOMAIN order' /\ order'[at] = (order \o new)[at]
      /\ \A j \in DOMAIN order : j \in DOMAIN order' /\ order'[j] = order[j]
      /\ \A j \in DOMAIN order' \ DOMAIN order : order'[j] \notin DOMAIN cells
  BY <1>1, <1>2, GrownRows
<1>4. cells' = Put(cells, order'[at], c)
  BY <1>1, <1>3
<1>5. ASSUME NEW j \in Indices \ {at}
      PROVE  RowAt(j)' = RowAt(j)
  <2>1. j \in DOMAIN order' => order'[j] # order'[at]
    BY <1>3 DEF Distinct
  <2>2. j \in DOMAIN order =>
          /\ j \in DOMAIN order' /\ order'[j] = order[j]
          /\ order[j] \in DOMAIN cells' <=> order[j] \in DOMAIN cells
          /\ order[j] \in DOMAIN cells => cells'[order[j]] = cells[order[j]]
    BY <1>3, <1>4, <2>1 DEF Put
  <2>3. j \in DOMAIN order' \ DOMAIN order => order'[j] \notin DOMAIN cells'
    BY <1>3, <1>4, <2>1 DEF Put
  <2> QED  BY <1>1, <2>2, <2>3 DEF RowAt
<1> QED  BY <1>2, <1>5, OneRowEdited DEF Inv

\* Clearing a cell changes its row, and no other.
LEMMA ClearCellShown ==
    ASSUME Inv, Inv', NEW i \in Indices, ClearCell(i)
    PROVE  Rows!Next
<1>1. PICK at \in AnchorsOf(i) :
         /\ at <= Len(order) /\ order[at] \in DOMAIN cells
         /\ cells' = Drop(cells, {order[at]})
         /\ order' = order /\ heights' = heights
  BY DEF ClearCell
<1>2. at \in Indices
  BY AnchorsType DEF Inv
<1>3. Distinct(order) /\ at \in DOMAIN order
  BY <1>1, <1>2 DEF Inv, TypeOK, OrderOK, Indices
<1>4. ASSUME NEW j \in Indices \ {at}
      PROVE  RowAt(j)' = RowAt(j)
  <2>1. j \in DOMAIN order => order[j] # order[at]
    BY <1>3 DEF Distinct
  <2> QED  BY <1>1, <2>1 DEF RowAt, Drop
<1> QED  BY <1>2, <1>4, OneRowEdited DEF Inv

\* Dragging a height changes its row, and no other.
LEMMA SetRowHeightShown ==
    ASSUME Inv, Inv', NEW i \in Indices, NEW h \in Heights, SetRowHeight(i, h)
    PROVE  Rows!Next
<1>1. heights' = Put(heights, i, h) /\ order' = order /\ cells' = cells
  BY DEF SetRowHeight
<1>2. \A j \in Indices \ {i} : RowAt(j)' = RowAt(j)
  BY <1>1 DEF RowAt, Put
<1> QED  BY <1>2, OneRowEdited DEF Inv

\* Opening a thread grows the order and shows no change.
LEMMA AddThreadShown ==
    ASSUME Inv, NEW t \in ThreadIds, NEW i \in Indices, AddThread(t, i)
    PROVE  UNCHANGED View
<1>1. PICK new \in NewIds(Missing(i)) :
         order' = order \o new /\ cells' = cells /\ heights' = heights
  BY DEF AddThread
<1>2. /\ \A j \in DOMAIN order : j \in DOMAIN order' /\ order'[j] = order[j]
      /\ \A j \in DOMAIN order' \ DOMAIN order : order'[j] \notin DOMAIN cells
  BY <1>1, GrownRows
<1>3. \A j \in Indices : RowAt(j)' = RowAt(j)
  BY <1>1, <1>2 DEF RowAt
<1> QED  BY <1>3 DEF View

\* Merging clears the data of the rows below the anchor, and of no other row.
LEMMA MergeShown ==
    ASSUME Inv, NEW m \in Ranges, MergeRows(m)
    PROVE  Rows!Next
<1> DEFINE S == (m.from + 1) .. m.to
<1>1. /\ cells' = Drop(cells, {order[i] : i \in S \cap DOMAIN order})
      /\ order' = order /\ heights' = heights
  BY DEF MergeRows
<1>2. S \in SUBSET (1 .. MaxRows)
  BY MaxRowsAssumption DEF Ranges, Indices
<1>3. Distinct(order)
  BY DEF Inv, TypeOK, OrderOK
<1> HIDE DEF S
<1>4. ASSUME NEW j \in Indices, j \in DOMAIN order
      PROVE  order[j] \in DOMAIN cells' <=> order[j] \in DOMAIN cells /\ j \notin S
  BY <1>1, <1>3, <1>4 DEF Drop, Distinct
<1>5. ASSUME NEW j \in Indices
      PROVE  RowAt(j)' = IF j \in S THEN [RowAt(j) EXCEPT !.data = "nothing"] ELSE RowAt(j)
  <2>1. \A id \in DOMAIN cells' : cells'[id] = cells[id]
    BY <1>1 DEF Drop
  <2> QED  BY <1>1, <1>4, <2>1 DEF RowAt
<1>6. Rows!ClearData(S)
  BY <1>5 DEF Rows!ClearData, Indices
<1> QED  BY <1>2, <1>6 DEF Rows!Next

LEMMA InsertShown ==
    ASSUME Inv, Inv', NEW index \in Indices, NEW n \in Indices, InsertRows(index, n)
    PROVE  Rows!Next
<1>1. /\ \A j \in (MaxRows - n + 1) .. MaxRows : j > 0 => View[j] = Blank
      /\ View' = SubSeq(View, 1, index - 1) \o Blanks(n) \o SubSeq(View, index, MaxRows - n)
  BY InsertView
<1>2. Blank = Rows!Blank /\ Blanks(n) = Rows!BlankRows(n)
  BY DEF Blank, Rows!Blank, Blanks, Rows!BlankRows
<1>3. Rows!InsertRows(index, n)
  BY <1>1, <1>2 DEF Rows!InsertRows, View
<1>4. index \in 1 .. MaxRows /\ n \in 1 .. MaxRows /\ index + n <= MaxRows + 1
  BY DEF Indices, InsertRows
<1> QED  BY <1>3, <1>4 DEF Rows!Next

LEMMA DeleteShown ==
    ASSUME Inv, Inv', NEW index \in Indices, NEW n \in Indices, DeleteRows(index, n)
    PROVE  Rows!Next
<1>1. View' = SubSeq(View, 1, index - 1) \o SubSeq(View, index + n, MaxRows) \o Blanks(n)
  BY DeleteView
<1>2. Blanks(n) = Rows!BlankRows(n)
  BY DEF Blank, Rows!Blank, Blanks, Rows!BlankRows
<1>3. Rows!DeleteRows(index, n)
  BY <1>1, <1>2 DEF Rows!DeleteRows, View
<1>4. index \in 1 .. MaxRows /\ n \in 1 .. MaxRows /\ index + n <= MaxRows + 1
  BY DEF Indices, DeleteRows
<1> QED  BY <1>3, <1>4 DEF Rows!Next

LEMMA MoveShown ==
    ASSUME Inv, Inv', NEW src \in Indices, NEW n \in Indices, NEW dst \in 1 .. (MaxRows + 1),
           MoveRows(src, n, dst)
    PROVE  Rows!Next
<1>1. Rows!MoveRows(src, n, dst)
  BY MoveView
<1>2. src \in 1 .. MaxRows /\ n \in 1 .. MaxRows /\ src + n <= MaxRows + 1
  BY DEF Indices, MoveRows
<1> QED  BY <1>1, <1>2 DEF Rows!Next

\* Every step of the worksheet is a step of the list of rows, or shows no change.
LEMMA StepShown ==
    ASSUME Inv, Inv', [Next]_vars
    PROVE  [Rows!Next]_View
<1>1. ASSUME NEW i \in Indices, NEW c \in Values \cup [from : Indices, to : Indices],
             SetCell(i, c)
      PROVE  Rows!Next
  <2>1. c \in Contents
    BY DEF Contents, References
  <2> QED  BY <1>1, <2>1, SetCellShown
<1>2. ASSUME NEW i \in Indices, HideRow(i) \/ ShowRow(i)
      PROVE  UNCHANGED View
  BY <1>2, NothingShown DEF HideRow, ShowRow
<1>3. ASSUME NEW r \in Ranges, UnmergeRows(r) \/ AddRule(r) \/ InsertChart(r)
      PROVE  UNCHANGED View
  BY <1>3, NothingShown DEF UnmergeRows, AddRule, InsertChart
<1>4. ASSUME \/ Reload
             \/ \E c \in Charts : UpdateChart(c)
             \/ \E k \in 0 .. MaxFrozen : SetFreezePane(k)
             \/ UNCHANGED vars
      PROVE  UNCHANGED View
  BY <1>4, NothingShown DEF Reload, UpdateChart, SetFreezePane, vars
<1>5. CASE Edit
  BY <1>1, <1>2, <1>3, <1>4, <1>5, ClearCellShown, SetRowHeightShown, MergeShown,
     AddThreadShown DEF Edit
<1>6. CASE Shift
  BY <1>6, InsertShown, DeleteShown DEF Shift
<1>7. CASE Move
  BY <1>7, MoveShown DEF Move
<1> QED  BY <1>4, <1>5, <1>6, <1>7 DEF Next

LEMMA InitShown ==
    ASSUME Init
    PROVE  Rows!Init
<1>1. \A i \in Indices : RowAt(i) = Rows!Blank
  BY DEF Init, RowAt, Rows!Blank
<1> QED  BY <1>1 DEF Rows!Init, Rows!BlankRows, Indices

(* The worksheet keeps an order of row ids, cells by id and heights by      *)
(* index, each rewritten by code of its own (insertWorksheetAxis, deleteAxis,*)
(* moveAxis, shiftDimensionMap, moveDimensionMap); seen from outside, every  *)
(* step is a step of one list of whole rows.                                 *)
THEOREM RowListImplemented == Spec => ImplementsRowList
<1>1. Init => Rows!Init
  BY InitShown
<1>2. Inv /\ Inv' /\ [Next]_vars => [Rows!Next]_View
  BY StepShown
<1>3. Inv /\ Inv' /\ [Next]_vars => [Rows!Next]_([i \in Indices |-> RowAt(i)])
  BY <1>2 DEF View
<1> QED  BY <1>1, <1>3, InvAlways, PTL DEF Spec, ImplementsRowList, Rows!Spec
=============================================================================
