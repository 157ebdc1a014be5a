-------------------------- MODULE SharedSheetProofs --------------------------
(***************************************************************************)
(* Theorems about SharedSheet: what any number of clients that edit,       *)
(* restructure, comment and merge keep, for every sheet they start from.   *)
(***************************************************************************)
EXTENDS SharedSheet, ListLemmas

-----------------------------------------------------------------------------
(* Lists and where things stand in them.                                   *)

LEMMA SeqOfMore ==
    ASSUME NEW S, NEW T, S \subseteq T, NEW s \in Seq(S)
    PROVE  s \in Seq(T)
OBVIOUS

LEMMA PlaceOf ==
    ASSUME NEW S, NEW line \in Seq(S), NEW k
    PROVE  /\ Place(line, k) \in 0 .. Len(line)
           /\ k \in Elements(line) =>
                Place(line, k) \in DOMAIN line /\ line[Place(line, k)] = k
           /\ k \notin Elements(line) => Place(line, k) = 0
<1> DEFINE found == {i \in 1 .. Len(line) : line[i] = k}
<1>1. Len(line) \in Nat /\ DOMAIN line = 1 .. Len(line)
  OBVIOUS
<1>2. Place(line, k) = IF found # {} THEN Min(found) ELSE 0
  BY DEF Place, SelectInSeq
<1>3. CASE found = {}
  BY <1>1, <1>2, <1>3 DEF Elements
<1>4. CASE found # {}
  <2>1. \E m \in found : \A n \in found : m <= n
    <3>1. found \in SUBSET Nat
      BY <1>1
    <3> HIDE DEF found
    <3>2. QED
      BY <3>1, <1>4, LeastNatural
  <2>2. Min(found) \in found
    BY <2>1 DEF Min
  <2>3. QED
    BY <1>1, <1>2, <1>4, <2>2 DEF Elements
<1>5. QED
  BY <1>3, <1>4

\* New elements that stand together in a list.
LEMMA PutBeforeLists ==
    ASSUME NEW S, NEW line \in Seq(S), NEW new \in Seq(S), NEW at \in 1 .. (Len(line) + 1),
           NoRepeats(line), NoRepeats(new), Elements(line) \cap Elements(new) = {}
    PROVE  /\ PutBefore(line, at, new) \in Seq(S)
           /\ NoRepeats(PutBefore(line, at, new))
           /\ Elements(PutBefore(line, at, new)) = Elements(line) \cup Elements(new)
<1>1. Distinct(line) /\ Distinct(new) /\ RowsOf(line) \cap RowsOf(new) = {}
  BY DEF Distinct, NoRepeats, RowsOf, Elements
<1>2. /\ Distinct(PutBefore(line, at, new))
      /\ RowsOf(PutBefore(line, at, new)) = RowsOf(line) \cup RowsOf(new)
  BY <1>1, PutBeforeDistinct
<1>3. PutBefore(line, at, new) \in Seq(S)
  BY PutBeforeAt
<1>4. QED
  BY <1>2, <1>3 DEF Distinct, NoRepeats, RowsOf, Elements

LEMMA FreshLists ==
    ASSUME NEW at \in Nat, NEW n \in Nat
    PROVE  /\ Fresh(at, n) \in Seq(at .. at + n - 1) /\ Len(Fresh(at, n)) = n
           /\ NoRepeats(Fresh(at, n)) /\ Elements(Fresh(at, n)) = at .. at + n - 1
           /\ \A i \in 1 .. n : Fresh(at, n)[i] = at + i - 1
<1> DEFINE new == Fresh(at, n)
<1>1. DOMAIN new = 1 .. n /\ \A i \in 1 .. n : new[i] = at + i - 1
  BY DEF Fresh
<1>2. new \in [1 .. n -> at .. at + n - 1]
  BY DEF Fresh
<1> HIDE DEF new
<1>3. new \in Seq(at .. at + n - 1) /\ Len(new) = n
  BY <1>1, <1>2
<1>4. NoRepeats(new)
  BY <1>1 DEF NoRepeats
<1>5. \A k \in at .. at + n - 1 : k - at + 1 \in 1 .. n /\ new[k - at + 1] = k
  BY <1>1
<1>6. Elements(new) = at .. at + n - 1
  BY <1>1, <1>2, <1>5 DEF Elements
<1>7. QED
  BY <1>1, <1>3, <1>4, <1>6 DEF new

-----------------------------------------------------------------------------
(* The list that the elements say.                                         *)

Tickets(nodes) == DOMAIN nodes \cup {0}
Previous(nodes, k) == Max({l \in Tickets(nodes) : l < k})
Entered(nodes, earlier, k) ==
    PutBefore(earlier, Place(earlier, nodes[k].after) + 1, <<k>>)

\* f has the list up to every element of T.
Grows(nodes, f, T) ==
    f = [k \in T |-> IF k = 0 THEN <<>> ELSE Entered(nodes, f[Previous(nodes, k)], k)]

Numbered(nodes) ==
    /\ DOMAIN nodes \in SUBSET (Nat \ {0})
    /\ \E b \in Nat : \A k \in DOMAIN nodes : k <= b

LEMMA PreviousIs ==
    ASSUME NEW nodes, Numbered(nodes), NEW k \in Tickets(nodes), k # 0
    PROVE  /\ k \in Nat /\ Previous(nodes, k) \in Tickets(nodes) /\ Previous(nodes, k) \in Nat
           /\ Previous(nodes, k) < k
           /\ \A l \in Tickets(nodes) : l < k => l <= Previous(nodes, k)
<1> DEFINE lower == {l \in Tickets(nodes) : l < k}
<1>1. k \in Nat /\ 0 \in lower /\ lower \in SUBSET (0 .. k) /\ lower \subseteq Nat
  BY DEF Numbered, Tickets
<1>2. Previous(nodes, k) = Max(lower)
  BY DEF Previous
<1>3. \E m \in lower : \A n \in lower : n <= m
  <2> HIDE DEF lower
  <2> QED  BY <1>1, GreatestBelow
<1>4. Max(lower) \in lower /\ \A n \in lower : n <= Max(lower)
  <2>1. \E m \in lower : \A n \in lower : m >= n
    BY <1>1, <1>3
  <2> HIDE DEF lower
  <2>2. Max(lower) \in lower /\ \A n \in lower : Max(lower) >= n
    BY <2>1 DEF Max
  <2> QED  BY <1>1, <2>2
<1>5. QED
  BY <1>1, <1>2, <1>4

LEMMA GrowsExists ==
    ASSUME NEW nodes, Numbered(nodes)
    PROVE  \E f : Grows(nodes, f, Tickets(nodes))
<1> DEFINE below(n) == {k \in Tickets(nodes) : k <= n}
           bad == {n \in Nat : ~ \E f : Grows(nodes, f, below(n))}
<1>1. bad = {}
  <2> SUFFICES ASSUME bad # {}  PROVE FALSE
    OBVIOUS
  <2>1. bad \in SUBSET Nat
    OBVIOUS
  <2> HIDE DEF bad
  <2>2. \E n \in bad : \A m \in bad : n <= m
    BY <2>1, LeastNatural
  <2> USE DEF bad
  <2>3. PICK n \in bad : \A m \in bad : n <= m
    BY <2>2
  <2>4. Tickets(nodes) \in SUBSET Nat /\ 0 \in Tickets(nodes)
    BY DEF Tickets, Numbered
  <2>5. CASE n = 0
    <3> DEFINE f == [k \in below(0) |-> <<>>]
    <3>1. \A k \in below(0) : k = 0
      BY <2>4
    <3>2. Grows(nodes, f, below(0))
      BY <3>1 DEF Grows
    <3>3. QED
      BY <2>3, <2>5, <3>2
  <2>6. CASE n # 0
    <3>1. n - 1 \in Nat /\ n - 1 \notin bad
      <4>1. n \in Nat /\ n - 1 \in Nat /\ ~(n <= n - 1)
        BY <2>3, <2>6
      <4> HIDE DEF bad
      <4>2. QED
        BY <2>3, <4>1
    <3>2. PICK g : Grows(nodes, g, below(n - 1))
      BY <3>1
    <3> DEFINE f == [k \in below(n) |->
                       IF k < n THEN g[k] ELSE Entered(nodes, g[Previous(nodes, k)], k)]
    <3>3. \A k \in below(n) : k \in Nat /\ (k < n => k \in below(n - 1)) /\ (~(k < n) => k = n)
      BY <2>3, <2>4
    <3>4. ASSUME NEW k \in below(n), k # 0
          PROVE  Previous(nodes, k) \in below(n - 1) /\ f[Previous(nodes, k)] = g[Previous(nodes, k)]
      <4>1. k \in Tickets(nodes) /\ k <= n
        OBVIOUS
      <4>2. Previous(nodes, k) \in Tickets(nodes) /\ Previous(nodes, k) \in Nat
            /\ Previous(nodes, k) < k
        BY <4>1, <3>4, PreviousIs
      <4>3. QED
        BY <2>3, <3>3, <4>1, <4>2
    <3>5. \A k \in below(n - 1) :
             g[k] = IF k = 0 THEN <<>> ELSE Entered(nodes, g[Previous(nodes, k)], k)
      BY <3>2 DEF Grows
    <3>6. \A k \in below(n) :
             f[k] = IF k = 0 THEN <<>> ELSE Entered(nodes, f[Previous(nodes, k)], k)
      BY <2>6, <3>3, <3>4, <3>5
    <3>7. f = [k \in below(n) |-> f[k]]
      OBVIOUS
    <3> HIDE DEF f, below
    <3>8. Grows(nodes, f, below(n))
      BY <3>6, <3>7 DEF Grows
    <3>9. QED
      BY <2>3, <3>8
  <2>7. QED
    BY <2>5, <2>6
<1>2. PICK n \in Nat : \A k \in Tickets(nodes) : k <= n
  BY DEF Numbered, Tickets
<1>3. below(n) = Tickets(nodes)
  BY <1>2
<1>4. \E f : Grows(nodes, f, below(n))
  BY <1>1
<1>5. QED
  BY <1>3, <1>4

\* The lists up to every element, and the last of them.
Growth(nodes) == CHOOSE f : Grows(nodes, f, Tickets(nodes))
Greatest(nodes) == Max(Tickets(nodes))

LEMMA GrowthIs ==
    ASSUME NEW nodes, Numbered(nodes)
    PROVE  /\ Lined(nodes) = Growth(nodes)[Greatest(nodes)]
           /\ \A k \in Tickets(nodes) : Growth(nodes)[k] =
                 IF k = 0 THEN <<>> ELSE Entered(nodes, Growth(nodes)[Previous(nodes, k)], k)
           /\ Greatest(nodes) \in Tickets(nodes) /\ Greatest(nodes) \in Nat
           /\ \A k \in Tickets(nodes) : k \in Nat /\ k <= Greatest(nodes)
<1>1. Grows(nodes, Growth(nodes), Tickets(nodes))
  BY GrowsExists DEF Growth
<1>2. Lined(nodes) = Growth(nodes)[Greatest(nodes)]
  BY DEF Lined, Growth, Greatest, Grows, Tickets, Previous, Entered
<1>3. \A k \in Tickets(nodes) : Growth(nodes)[k] =
         IF k = 0 THEN <<>> ELSE Entered(nodes, Growth(nodes)[Previous(nodes, k)], k)
  BY <1>1, Zenon DEF Grows
<1>4. PICK b \in Nat : \A k \in DOMAIN nodes : k <= b
  BY DEF Numbered
<1>5. Tickets(nodes) \in SUBSET (0 .. b) /\ Tickets(nodes) # {}
  BY <1>4 DEF Numbered, Tickets
<1>6. \E m \in Tickets(nodes) : \A n \in Tickets(nodes) : m >= n
  <2>1. \E m \in Tickets(nodes) : \A n \in Tickets(nodes) : n <= m
    BY <1>5, GreatestBelow
  <2>2. QED
    BY <1>5, <2>1
<1>7. Greatest(nodes) \in Tickets(nodes) /\ \A n \in Tickets(nodes) : Greatest(nodes) >= n
  BY <1>6 DEF Greatest, Max
<1>8. QED
  BY <1>2, <1>3, <1>5, <1>7

\* A list of every element once.
ListsOnce(line, set) == line \in Seq(set) /\ NoRepeats(line) /\ Elements(line) = set

LEMMA EnteredLists ==
    ASSUME NEW nodes, NEW earlier, NEW set, ListsOnce(earlier, set), NEW k, k \notin set
    PROVE  ListsOnce(Entered(nodes, earlier, k), set \cup {k})
<1> DEFINE S == set \cup {k}
           new == <<k>>
           at == Place(earlier, nodes[k].after) + 1
<1>1. earlier \in Seq(S) /\ new \in Seq(S)
  <2>1. set \subseteq S /\ k \in S /\ earlier \in Seq(set)
    BY DEF ListsOnce
  <2> HIDE DEF S
  <2>2. QED
    BY <2>1
<1>2. at \in 1 .. Len(earlier) + 1
  BY <1>1, PlaceOf
<1>3. NoRepeats(new) /\ Elements(new) = {k}
  BY DEF NoRepeats, Elements
<1>4. Elements(earlier) \cap Elements(new) = {}
  BY <1>3 DEF ListsOnce
<1>5. /\ PutBefore(earlier, at, new) \in Seq(S)
      /\ NoRepeats(PutBefore(earlier, at, new))
      /\ Elements(PutBefore(earlier, at, new)) = Elements(earlier) \cup Elements(new)
  <2>1. NoRepeats(earlier)
    BY DEF ListsOnce
  <2> HIDE DEF S, at, new
  <2>2. QED
    BY <1>1, <1>2, <1>3, <1>4, <2>1, PutBeforeLists
<1>6. QED
  BY <1>3, <1>5 DEF ListsOnce, Entered

LEMMA GrowthLists ==
    ASSUME NEW nodes, Numbered(nodes), NEW k \in Tickets(nodes)
    PROVE  ListsOnce(Growth(nodes)[k], {l \in DOMAIN nodes : l <= k})
<1> DEFINE upTo(n) == {l \in DOMAIN nodes : l <= n}
           bad == {n \in Tickets(nodes) : ~ListsOnce(Growth(nodes)[n], upTo(n))}
<1>1. bad = {}
  <2> SUFFICES ASSUME bad # {}  PROVE FALSE
    OBVIOUS
  <2>1. bad \in SUBSET Nat
    BY GrowthIs
  <2> HIDE DEF bad
  <2>2. \E n \in bad : \A m \in bad : n <= m
    BY <2>1, LeastNatural
  <2> USE DEF bad
  <2>3. PICK n \in bad : \A m \in bad : n <= m
    BY <2>2
  <2>4. n \in Tickets(nodes) /\ n \in Nat
    BY <2>1, <2>3
  <2>5. CASE n = 0
    <3>1. upTo(0) = {} /\ Growth(nodes)[0] = <<>>
      BY <2>4, <2>5, GrowthIs DEF Numbered
    <3>2. ListsOnce(<<>>, {})
      BY DEF ListsOnce, NoRepeats, Elements
    <3>3. QED
      BY <2>3, <2>5, <3>1, <3>2
  <2>6. CASE n # 0
    <3> DEFINE p == Previous(nodes, n)
    <3>1. /\ p \in Tickets(nodes) /\ p \in Nat /\ p < n
          /\ \A l \in Tickets(nodes) : l < n => l <= p
      BY <2>4, <2>6, PreviousIs
    <3>2. p \notin bad
      <4> HIDE DEF bad
      <4>1. QED
        BY <2>3, <2>4, <3>1
    <3>3. ListsOnce(Growth(nodes)[p], upTo(p))
      BY <3>1, <3>2
    <3>4. n \notin upTo(p) /\ n \in DOMAIN nodes
      BY <2>4, <2>6, <3>1 DEF Tickets
    <3>5. upTo(n) = upTo(p) \cup {n}
      BY <2>4, <3>1, <3>4 DEF Tickets, Numbered
    <3>6. Growth(nodes)[n] = Entered(nodes, Growth(nodes)[p], n)
      BY <2>4, <2>6, GrowthIs
    <3>7. ListsOnce(Growth(nodes)[n], upTo(n))
      <4> HIDE DEF p, upTo
      <4>1. QED
        BY <3>3, <3>4, <3>5, <3>6, EnteredLists
    <3>8. QED
      BY <2>3, <3>7
  <2>7. QED
    BY <2>5, <2>6
<1>2. QED
  BY <1>1

\* The list that the elements say has each of them once.
LEMMA LinedLists ==
    ASSUME NEW nodes, Numbered(nodes)
    PROVE  ListsOnce(Lined(nodes), DOMAIN nodes)
<1>1. /\ Lined(nodes) = Growth(nodes)[Greatest(nodes)] /\ Greatest(nodes) \in Tickets(nodes)
      /\ \A l \in DOMAIN nodes : l <= Greatest(nodes)
  BY GrowthIs DEF Tickets
<1>2. {l \in DOMAIN nodes : l <= Greatest(nodes)} = DOMAIN nodes
  BY <1>1
<1>3. QED
  BY <1>1, <1>2, GrowthLists

\* The list depends on who stands behind whom only.
LEMMA GrowthSame ==
    ASSUME NEW nodes, Numbered(nodes), NEW others, Numbered(others), NEW n \in Nat,
           {l \in Tickets(nodes) : l <= n} = {l \in Tickets(others) : l <= n},
           \A l \in DOMAIN nodes : l <= n => nodes[l].after = others[l].after
    PROVE  \A k \in Tickets(nodes) : k <= n => Growth(nodes)[k] = Growth(others)[k]
<1> DEFINE bad == {k \in Tickets(nodes) : k <= n /\ Growth(nodes)[k] # Growth(others)[k]}
<1> SUFFICES ASSUME bad # {}  PROVE FALSE
  OBVIOUS
<1>1. bad \in SUBSET Nat
  BY GrowthIs
<1> HIDE DEF bad
<1>2. \E k \in bad : \A m \in bad : k <= m
  BY <1>1, LeastNatural
<1>3. PICK k \in bad : \A m \in bad : k <= m
  BY <1>2
<1>4. /\ k \in Tickets(nodes) /\ k \in Nat /\ k <= n /\ Growth(nodes)[k] # Growth(others)[k]
      /\ k \in Tickets(others)
  BY <1>1, <1>3 DEF bad
<1>5. CASE k = 0
  BY <1>4, <1>5, GrowthIs
<1>6. CASE k # 0
  <2> DEFINE p == Previous(nodes, k)
             q == Previous(others, k)
  <2>1. p \in Tickets(nodes) /\ p \in Nat /\ p < k /\ \A l \in Tickets(nodes) : l < k => l <= p
    BY <1>4, <1>6, PreviousIs
  <2>2. q \in Tickets(others) /\ q \in Nat /\ q < k /\ \A l \in Tickets(others) : l < k => l <= q
    BY <1>4, <1>6, PreviousIs
  <2>3. p \in Tickets(others) /\ q \in Tickets(nodes)
    BY <1>4, <2>1, <2>2
  <2>4. p = q
    BY <2>1, <2>2, <2>3
  <2>5. p \notin bad
    <3>1. ~(k <= p)
      BY <1>4, <2>1
    <3>2. QED
      BY <1>3, <3>1
  <2>6. Growth(nodes)[p] = Growth(others)[p]
    BY <1>4, <2>1, <2>5 DEF bad
  <2>7. /\ Growth(nodes)[k] = Entered(nodes, Growth(nodes)[p], k)
        /\ Growth(others)[k] = Entered(others, Growth(others)[q], k)
    BY <1>4, <1>6, GrowthIs
  <2>8. nodes[k].after = others[k].after
    BY <1>4, <1>6 DEF Tickets
  <2>9. QED
    BY <1>4, <2>4, <2>6, <2>7, <2>8 DEF Entered
<1>7. QED
  BY <1>5, <1>6

LEMMA LinedSame ==
    ASSUME NEW nodes, Numbered(nodes), NEW others, DOMAIN others = DOMAIN nodes,
           \A l \in DOMAIN nodes : nodes[l].after = others[l].after
    PROVE  Lined(others) = Lined(nodes)
<1>1. Numbered(others) /\ Tickets(others) = Tickets(nodes)
  BY DEF Numbered, Tickets
<1>2. /\ Lined(nodes) = Growth(nodes)[Greatest(nodes)]
      /\ Lined(others) = Growth(others)[Greatest(others)]
      /\ Greatest(nodes) \in Tickets(nodes) /\ Greatest(nodes) \in Nat
  BY <1>1, GrowthIs
<1>3. Greatest(others) = Greatest(nodes)
  BY <1>1 DEF Greatest
<1>4. Growth(nodes)[Greatest(nodes)] = Growth(others)[Greatest(nodes)]
  BY <1>1, <1>2, GrowthSame
<1>5. QED
  BY <1>2, <1>3, <1>4

\* The list r is the list o with new before its place p.
IsPut(r, o, p, new) ==
    /\ r \in Seq(Nat) /\ Len(r) = Len(o) + Len(new)
    /\ \A i \in 1 .. Len(r) :
          r[i] = IF i < p THEN o[i]
                 ELSE IF i < p + Len(new) THEN new[i - p + 1] ELSE o[i - Len(new)]

LEMMA PutIs ==
    ASSUME NEW o \in Seq(Nat), NEW new \in Seq(Nat), NEW p \in 1 .. (Len(o) + 1)
    PROVE  IsPut(PutBefore(o, p, new), o, p, new)
BY PutBeforeAt DEF IsPut

\* To put a row of elements and then one more behind them is to put a longer row.
LEMMA PutOneMore ==
    ASSUME NEW o, NEW f, NEW g, NEW one, NEW p, NEW r, NEW both, NEW later,
           Len(o) \in Nat, Len(f) \in Nat, p \in 1 .. (Len(o) + 1),
           Len(g) = Len(f) + 1, \A i \in 1 .. Len(f) : g[i] = f[i],
           Len(one) = 1, one[1] = g[Len(g)],
           IsPut(r, o, p, f), IsPut(both, r, p + Len(f), one), IsPut(later, o, p, g)
    PROVE  both = later
<1> DEFINE L == Len(o)
           j == Len(f)
<1>1. L \in Nat /\ p \in Nat /\ 1 <= p /\ p <= L + 1 /\ j \in Nat
  OBVIOUS
<1>2. /\ Len(r) = L + j
      /\ \A i \in 1 .. L + j : r[i] = IF i < p THEN o[i]
                                      ELSE IF i < p + j THEN f[i - p + 1] ELSE o[i - j]
  BY DEF IsPut
<1>3. /\ later \in Seq(Nat) /\ Len(later) = L + j + 1
      /\ \A i \in 1 .. L + j + 1 : later[i] = IF i < p THEN o[i]
                                      ELSE IF i < p + (j + 1) THEN g[i - p + 1] ELSE o[i - (j + 1)]
  <2>1. /\ later \in Seq(Nat) /\ Len(later) = L + Len(g)
        /\ \A i \in 1 .. Len(later) : later[i] = IF i < p THEN o[i]
                                      ELSE IF i < p + Len(g) THEN g[i - p + 1] ELSE o[i - Len(g)]
    BY DEF IsPut
  <2>2. Len(g) = j + 1 /\ Len(later) = L + j + 1
    BY <1>1, <2>1
  <2> HIDE DEF L, j
  <2>3. QED
    BY <2>1, <2>2
<1>4. /\ both \in Seq(Nat) /\ Len(both) = L + j + 1
      /\ \A i \in 1 .. L + j + 1 : both[i] = IF i < p + j THEN r[i]
                                      ELSE IF i < p + j + 1 THEN one[i - (p + j) + 1] ELSE r[i - 1]
  <2>1. Len(both) = L + j + 1
    BY <1>2 DEF IsPut
  <2>2. QED
    BY <1>1, <2>1 DEF IsPut
<1>5. g[j + 1] = one[1] /\ \A i \in 1 .. j : g[i] = f[i]
  OBVIOUS
<1> HIDE DEF L, j
<1>6. ASSUME NEW i \in 1 .. L + j + 1
      PROVE  both[i] = later[i]
  <2>1. CASE i < p
    <3>1. i \in 1 .. L + j /\ i < p + j /\ i < p + (j + 1)
      BY <1>1, <2>1
    <3>2. QED
      BY <1>2, <1>3, <1>4, <2>1, <3>1
  <2>2. CASE p <= i /\ i < p + j
    <3>1. i - p + 1 \in 1 .. j /\ i \in 1 .. L + j /\ ~(i < p) /\ i < p + (j + 1)
      BY <1>1, <2>2
    <3>2. both[i] = r[i] /\ r[i] = f[i - p + 1] /\ later[i] = g[i - p + 1]
      BY <1>2, <1>3, <1>4, <2>2, <3>1
    <3>3. QED
      BY <1>5, <3>1, <3>2
  <2>3. CASE i = p + j
    <3>1. ~(i < p) /\ ~(i < p + j) /\ i < p + (j + 1) /\ i < p + j + 1
          /\ i - p + 1 = j + 1 /\ i - (p + j) + 1 = 1
      BY <1>1, <2>3
    <3>2. both[i] = one[1] /\ later[i] = g[j + 1]
      BY <1>3, <1>4, <3>1
    <3>3. QED
      BY <1>5, <3>2
  <2>4. CASE i > p + j
    <3>1. i - 1 \in 1 .. L + j /\ ~(i < p) /\ ~(i < p + j) /\ ~(i < p + (j + 1)) /\ ~(i < p + j + 1)
          /\ ~(i - 1 < p) /\ ~(i - 1 < p + j) /\ i - 1 - j = i - (j + 1)
      BY <1>1, <2>4
    <3>2. both[i] = r[i - 1] /\ r[i - 1] = o[i - 1 - j] /\ later[i] = o[i - (j + 1)]
      BY <1>2, <1>3, <1>4, <3>1
    <3>3. QED
      BY <3>1, <3>2
  <2>5. QED
    BY <1>1, <2>1, <2>2, <2>3, <2>4
<1>7. DOMAIN both = 1 .. L + j + 1 /\ DOMAIN later = 1 .. L + j + 1
  BY <1>1, <1>3, <1>4
<1>8. QED
  <2>1. both = [i \in 1 .. L + j + 1 |-> both[i]] /\ later = [i \in 1 .. L + j + 1 |-> later[i]]
    BY <1>3, <1>4, <1>7
  <2>2. QED
    BY <1>6, <2>1

LEMMA NextPlaced ==
    ASSUME NEW line \in Seq(Nat), NEW P \in 1 .. (Len(line) + 1), NEW at \in Nat, NEW j \in Nat,
           NoRepeats(line), \A k \in Elements(line) : k < at
    PROVE  LET earlier == PutBefore(line, P, Fresh(at, j))
           IN  /\ j # 0 => Place(earlier, at + j - 1) + 1 = P + j
               /\ PutBefore(earlier, P + j, <<at + j>>) = PutBefore(line, P, Fresh(at, j + 1))
<1> DEFINE f == Fresh(at, j)
           m == j + 1
           g == Fresh(at, m)
           x == at + j
           one == <<x>>
           earlier == PutBefore(line, P, f)
<1>1. /\ f \in Seq(at .. at + j - 1) /\ Len(f) = j /\ NoRepeats(f)
      /\ Elements(f) = at .. at + j - 1 /\ \A i \in 1 .. j : f[i] = at + i - 1
  BY FreshLists
<1>2. m \in Nat /\ x \in Nat /\ at .. at + m - 1 \subseteq Nat /\ at .. at + j - 1 \subseteq Nat
  OBVIOUS
<1>3. /\ g \in Seq(at .. at + m - 1) /\ Len(g) = m /\ \A i \in 1 .. m : g[i] = at + i - 1
  <2> HIDE DEF m
  <2>1. QED
    BY <1>2, FreshLists
<1>4. one \in Seq(Nat) /\ Len(one) = 1 /\ one[1] = x
  <2> HIDE DEF x
  <2>1. QED
    BY <1>2
<1> HIDE DEF f, g, one
<1>5. f \in Seq(Nat) /\ g \in Seq(Nat)
  <2> HIDE DEF m
  <2>1. QED
    BY <1>1, <1>2, <1>3, SeqOfMore
<1>6. IsPut(earlier, line, P, f) /\ IsPut(PutBefore(line, P, g), line, P, g)
  BY <1>5, PutIs
<1> HIDE DEF earlier
<1>7. Len(line) \in Nat /\ earlier \in Seq(Nat) /\ Len(earlier) = Len(line) + j
  BY <1>1, <1>6 DEF IsPut
<1>8. P + j \in 1 .. (Len(earlier) + 1)
  BY <1>7
<1>9. IsPut(PutBefore(earlier, P + j, one), earlier, P + j, one)
  BY <1>4, <1>7, <1>8, PutIs
<1>10. /\ Len(g) = Len(f) + 1 /\ \A i \in 1 .. Len(f) : g[i] = f[i]
       /\ one[1] = g[Len(g)]
  BY <1>1, <1>3, <1>4
<1>11. PutBefore(earlier, P + j, one) = PutBefore(line, P, g)
  BY <1>1, <1>4, <1>6, <1>7, <1>9, <1>10, PutOneMore
<1>12. ASSUME j # 0
       PROVE  Place(earlier, at + j - 1) + 1 = P + j
  <2> DEFINE k == at + j - 1
             i == P + j - 1
  <2>1. i \in 1 .. Len(earlier) /\ ~(i < P) /\ i < P + j /\ i - P + 1 = j /\ j \in 1 .. j
    BY <1>7, <1>12
  <2>2. earlier[i] = f[j] /\ f[j] = k
    BY <1>1, <1>6, <2>1 DEF IsPut
  <2>3. DOMAIN earlier = 1 .. Len(earlier)
    BY <1>7
  <2>4. NoRepeats(earlier)
    <3>1. Elements(line) \cap Elements(f) = {}
      <4>1. \A y \in Elements(line) : y \notin at .. at + j - 1
        OBVIOUS
      <4>2. QED
        BY <1>1, <4>1
    <3>2. QED
      BY <1>1, <1>5, <3>1, PutBeforeLists DEF earlier
  <2> HIDE DEF i, k
  <2>5. k \in Elements(earlier)
    BY <2>1, <2>2, <2>3 DEF Elements
  <2>6. Place(earlier, k) \in DOMAIN earlier /\ earlier[Place(earlier, k)] = k
    BY <1>7, <2>5, PlaceOf
  <2>7. Place(earlier, k) = i
    BY <2>1, <2>2, <2>3, <2>4, <2>6 DEF NoRepeats
  <2>8. QED
    BY <2>7 DEF i, k
<1>13. QED
  BY <1>11, <1>12 DEF earlier, one, f, g

\* Of others, the elements that are not in nodes are n later ones, the first behind
\* `after` and each behind the one before.
Extends(others, nodes, after, at, n) ==
    /\ \A k \in DOMAIN nodes : k < at
    /\ DOMAIN others = DOMAIN nodes \cup (at .. at + n - 1)
    /\ \A k \in DOMAIN nodes : others[k].after = nodes[k].after
    /\ \A k \in at .. at + n - 1 : others[k].after = IF k = at THEN after ELSE k - 1

\* Elements with tickets of their own that go in behind one another stand where the
\* list of all elements has them.
LEMMA LinedInserted ==
    ASSUME NEW nodes, Numbered(nodes), NEW others, NEW at \in Nat \ {0}, NEW n \in Nat, NEW after,
           Extends(others, nodes, after, at, n)
    PROVE  Lined(others) =
              PutBefore(Lined(nodes), Place(Lined(nodes), after) + 1, Fresh(at, n))
<1> DEFINE line == Lined(nodes)
           P == Place(line, after) + 1
           top == Greatest(nodes)
           K(j) == IF j = 0 THEN top ELSE at + j - 1
           list(j) == PutBefore(line, P, Fresh(at, j))
<1>0. /\ \A k \in DOMAIN nodes : k < at
      /\ DOMAIN others = DOMAIN nodes \cup (at .. at + n - 1)
      /\ \A k \in DOMAIN nodes : others[k].after = nodes[k].after
      /\ \A k \in at .. at + n - 1 : others[k].after = IF k = at THEN after ELSE k - 1
  BY DEF Extends
<1> USE <1>0
<1>1. /\ line = Growth(nodes)[top] /\ top \in Tickets(nodes) /\ top \in Nat
      /\ \A k \in Tickets(nodes) : k \in Nat /\ k <= top
  BY GrowthIs
<1>2. line \in Seq(DOMAIN nodes) /\ NoRepeats(line) /\ Elements(line) = DOMAIN nodes
  BY LinedLists DEF ListsOnce
<1>3. line \in Seq(Nat) /\ P \in 1 .. (Len(line) + 1) /\ \A k \in Elements(line) : k < at
  <2>1. DOMAIN nodes \subseteq Nat
    BY DEF Numbered
  <2>2. line \in Seq(Nat)
    BY <1>2, <2>1, SeqOfMore
  <2>3. QED
    BY <1>2, <2>2, PlaceOf
<1>4. top < at
  BY <1>1 DEF Tickets
<1>5. Numbered(others)
  <2>1. PICK b \in Nat : \A k \in DOMAIN nodes : k <= b
    BY DEF Numbered
  <2>2. b + at + n \in Nat /\ \A k \in DOMAIN others : k <= b + at + n
    BY <2>1 DEF Numbered
  <2>3. QED
    BY <2>2 DEF Numbered
<1>6. \A j \in 0 .. n : K(j) \in Tickets(others) /\ K(j) \in Nat
  BY <1>1 DEF Tickets
<1>7. list(0) = line
  <2> DEFINE f == Fresh(at, 0)
             r == PutBefore(line, P, f)
  <2>1. f \in Seq(Nat) /\ Len(f) = 0
    <3>1. 0 \in Nat /\ at .. at + 0 - 1 = {}
      OBVIOUS
    <3>2. f \in Seq(at .. at + 0 - 1) /\ Len(f) = 0
      BY FreshLists
    <3> HIDE DEF f
    <3>3. QED
      BY <3>2, SeqOfMore
  <2> HIDE DEF f, line, P
  <2>2. IsPut(r, line, P, f)
    BY <1>3, <2>1, PutIs
  <2> HIDE DEF r
  <2>3. /\ r \in Seq(Nat) /\ Len(r) = Len(line) /\ Len(line) \in Nat
        /\ \A i \in 1 .. Len(line) : r[i] = line[i]
    BY <1>3, <2>1, <2>2 DEF IsPut
  <2>4. r = line
    <3>1. DOMAIN r = 1 .. Len(line) /\ DOMAIN line = 1 .. Len(line)
      BY <1>3, <2>3
    <3>2. r = [i \in 1 .. Len(line) |-> r[i]] /\ line = [i \in 1 .. Len(line) |-> line[i]]
      BY <1>3, <2>3, <3>1
    <3>3. QED
      BY <2>3, <3>2
  <2>5. QED
    BY <2>4 DEF r, f
<1>8. Growth(others)[K(0)] = line
  <2>1. {l \in Tickets(nodes) : l <= top} = {l \in Tickets(others) : l <= top}
    BY <1>1, <1>4 DEF Tickets
  <2>2. Growth(nodes)[top] = Growth(others)[top]
    BY <1>1, <1>5, <2>1, GrowthSame
  <2>3. QED
    BY <1>1, <2>2
<1> DEFINE bad == {j \in 0 .. n : Growth(others)[K(j)] # list(j)}
<1> HIDE DEF line, P, top
<1>9. bad = {}
  <2> SUFFICES ASSUME bad # {}  PROVE FALSE
    OBVIOUS
  <2>1. bad \in SUBSET Nat
    OBVIOUS
  <2> HIDE DEF bad
  <2>2. \E j \in bad : \A m \in bad : j <= m
    BY <2>1, LeastNatural
  <2>3. PICK j \in bad : \A m \in bad : j <= m
    BY <2>2
  <2>4. j \in 0 .. n /\ Growth(others)[K(j)] # list(j)
    BY <2>3 DEF bad
  <2>5. j # 0
    BY <1>7, <1>8, <2>4
  <2> DEFINE i == j - 1
             earlier == list(i)
             k == at + i
  <2>6. i \in Nat /\ i \in 0 .. n /\ j = i + 1 /\ ~(j <= i) /\ k \in Nat /\ k # 0 /\ k = K(j)
    BY <2>4, <2>5
  <2>7. Growth(others)[K(i)] = earlier
    <3>1. i \notin bad
      BY <2>3, <2>6
    <3>2. QED
      BY <2>6, <3>1 DEF bad
  <2>8. k \in at .. at + n - 1 /\ k \in Tickets(others)
    BY <2>4, <2>5 DEF Tickets
  <2>9. Previous(others, k) = K(i)
    <3>1. /\ Previous(others, k) \in Tickets(others) /\ Previous(others, k) \in Nat
          /\ Previous(others, k) < k
          /\ \A l \in Tickets(others) : l < k => l <= Previous(others, k)
      BY <1>5, <2>6, <2>8, PreviousIs
    <3>2. K(i) \in Tickets(others) /\ K(i) \in Nat /\ K(i) < k
      <4>1. CASE i = 0
        BY <1>1, <1>4, <1>6, <2>6, <4>1
      <4>2. CASE i # 0
        BY <1>6, <2>6, <4>2
      <4>3. QED
        BY <4>1, <4>2
    <3>3. \A l \in Tickets(others) : l < k => l <= K(i)
      <4>1. ASSUME NEW l \in Tickets(others), l < k
            PROVE  l <= K(i)
        <5>1. CASE l \in Tickets(nodes)
          BY <1>1, <1>4, <2>6, <5>1 DEF top
        <5>2. CASE l \in at .. at + n - 1
          BY <2>6, <4>1, <5>2
        <5>3. QED
          BY <5>1, <5>2 DEF Tickets
      <4>2. QED
        BY <4>1
    <3>4. QED
      BY <3>1, <3>2, <3>3
  <2>10. Growth(others)[k] = Entered(others, earlier, k)
    BY <1>5, <2>6, <2>7, <2>8, <2>9, GrowthIs
  <2>11. /\ i # 0 => Place(list(i), at + i - 1) + 1 = P + i
         /\ PutBefore(list(i), P + i, <<at + i>>) = list(i + 1)
    <3>1. line \in Seq(Nat) /\ P \in 1 .. (Len(line) + 1) /\ NoRepeats(line)
          /\ \A x \in Elements(line) : x < at
      BY <1>2, <1>3 DEF line
    <3>2. i \in Nat /\ at \in Nat
      BY <2>6
    <3> HIDE <1>0 DEF i
    <3>3. QED
      BY <3>1, <3>2, NextPlaced
  <2>12. Place(earlier, others[k].after) + 1 = P + i
    <3>1. CASE i = 0
      <4>1. earlier = line /\ others[k].after = after
        BY <1>7, <2>8, <3>1
      <4>2. QED
        BY <1>3, <3>1, <4>1 DEF P
    <3>2. CASE i # 0
      <4>1. others[k].after = at + i - 1
        BY <2>6, <2>8, <3>2
      <4>2. QED
        BY <2>11, <3>2, <4>1
    <3>3. QED
      BY <3>1, <3>2
  <2>13. Growth(others)[K(j)] = list(j)
    BY <2>6, <2>10, <2>11, <2>12 DEF Entered
  <2>14. QED
    BY <2>4, <2>13
<1>10. Growth(others)[K(n)] = list(n)
  BY <1>9
<1>11. Greatest(others) = K(n)
  <2>1. /\ Greatest(others) \in Tickets(others) /\ Greatest(others) \in Nat
        /\ \A k \in Tickets(others) : k <= Greatest(others)
    BY <1>5, GrowthIs
  <2>2. K(n) \in Tickets(others) /\ K(n) \in Nat
    BY <1>6
  <2>3. \A k \in Tickets(others) : k <= K(n)
    <3>1. \A k \in Tickets(nodes) : k \in Nat /\ k <= top /\ k <= K(n)
      BY <1>1, <1>4 DEF top
    <3>2. \A k \in at .. at + n - 1 : k <= K(n)
      OBVIOUS
    <3>3. QED
      BY <3>1, <3>2 DEF Tickets
  <2>4. QED
    BY <2>1, <2>2, <2>3
<1>12. Lined(others) = Growth(others)[Greatest(others)]
  BY <1>5, GrowthIs
<1>13. QED
  BY <1>10, <1>11, <1>12 DEF line, P

-----------------------------------------------------------------------------
(* A replica, and the rows it shows.                                       *)

Entry(e) == e = [at |-> e.at, val |-> e.val, live |-> e.live] /\ e.live \in BOOLEAN
Entries(record) == \A k \in DOMAIN record : Entry(record[k])

\* The element k of the list, among others with tickets below b.
Element(nodes, k, b) ==
    LET e == nodes[k]
    IN  /\ e = [id |-> e.id, at |-> e.at, live |-> e.live, after |-> e.after]
        /\ k < b /\ e.id \in Nat /\ e.id < b /\ e.at = k /\ e.live \in BOOLEAN
        /\ e.after \in Tickets(nodes) /\ e.after < k
OfElements(nodes, b) ==
    /\ DOMAIN nodes \in SUBSET (Nat \ {0})
    /\ \A k \in DOMAIN nodes : Element(nodes, k, b)

\* A replica whose elements have tickets and ids below b.
Document(doc, b) ==
    /\ doc = [clock |-> doc.clock, nodes |-> doc.nodes, line |-> doc.line,
              cells |-> doc.cells, heights |-> doc.heights, threads |-> doc.threads]
    /\ doc.clock \in Nat /\ b \in Nat
    /\ OfElements(doc.nodes, b)
    /\ doc.line = Lined(doc.nodes)
    /\ Entries(doc.cells) /\ Entries(doc.heights) /\ Entries(doc.threads)

Live(doc) == {k \in DOMAIN doc.nodes : doc.nodes[k].live}
Ids(doc, set) == {doc.nodes[k].id : k \in set}
\* Ids that two elements of the set have.
Repeated(doc, set) ==
    {id \in Nat : \E k, l \in set : k # l /\ doc.nodes[k].id = id /\ doc.nodes[l].id = id}

LEMMA DocumentNumbered ==
    ASSUME NEW doc, NEW b, Document(doc, b)
    PROVE  Numbered(doc.nodes)
<1>1. \A k \in DOMAIN doc.nodes : k \in Nat /\ k < b
  BY DEF Document, OfElements, Element
<1>2. b \in Nat /\ \A k \in DOMAIN doc.nodes : k <= b
  BY <1>1 DEF Document
<1>3. QED
  BY <1>2 DEF Document, OfElements, Numbered

LEMMA LineLists ==
    ASSUME NEW doc, NEW b, Document(doc, b)
    PROVE  ListsOnce(doc.line, DOMAIN doc.nodes)
<1>1. Numbered(doc.nodes) /\ doc.line = Lined(doc.nodes)
  BY DocumentNumbered DEF Document
<1>2. QED
  BY <1>1, LinedLists

\* The elements shown are the live ones, each once.
LEMMA ShownLists ==
    ASSUME NEW doc, NEW b, Document(doc, b)
    PROVE  /\ ListsOnce(Shown(doc), Live(doc)) /\ Len(Shown(doc)) \in Nat
           /\ DOMAIN Shown(doc) = 1 .. Len(Shown(doc))
           /\ IsFiniteSet(Live(doc)) /\ Cardinality(Live(doc)) = Len(Shown(doc))
<1> DEFINE S == DOMAIN doc.nodes
           dead == Tombstones(doc)
<1>1. doc.line \in Seq(S) /\ NoRepeats(doc.line) /\ Elements(doc.line) = S
  BY LineLists DEF ListsOnce
<1>2. /\ Shown(doc) \in Seq(S) /\ Elements(Shown(doc)) = S \ dead /\ NoRepeats(Shown(doc))
  BY <1>1, OmittingProperties DEF Shown
<1>3. S \ dead = Live(doc)
  BY DEF Tombstones, Live
<1>4. Shown(doc) \in Seq(Live(doc))
  <2>1. \A i \in DOMAIN Shown(doc) : Shown(doc)[i] \in Live(doc)
    BY <1>2, <1>3 DEF Elements
  <2>2. QED
    BY <1>2, <2>1
<1>5. Elements(Shown(doc)) = Live(doc)
  BY <1>2, <1>3
<1>6. /\ IsFiniteSet(Elements(Shown(doc))) /\ Cardinality(Elements(Shown(doc))) = Len(Shown(doc))
      /\ Len(Shown(doc)) \in Nat /\ DOMAIN Shown(doc) = 1 .. Len(Shown(doc))
  <2>1. Shown(doc) \in Seq(S) /\ NoRepeats(Shown(doc))
    BY <1>2
  <2> HIDE DEF S
  <2>2. QED
    BY <2>1, LengthCounts
<1>7. QED
  BY <1>2, <1>4, <1>5, <1>6 DEF ListsOnce

LEMMA RowsAre ==
    ASSUME NEW doc, NEW b, Document(doc, b)
    PROVE  /\ Rows(doc) \in Seq(Nat) /\ Len(Rows(doc)) = Len(Shown(doc))
           /\ DOMAIN Rows(doc) = 1 .. Len(Shown(doc))
           /\ \A i \in 1 .. Len(Shown(doc)) : /\ Shown(doc)[i] \in Live(doc)
                                              /\ Rows(doc)[i] = doc.nodes[Shown(doc)[i]].id
                                              /\ Rows(doc)[i] < b
           /\ ToSet(Rows(doc)) = Ids(doc, Live(doc))
           /\ Twice(doc) = Repeated(doc, Live(doc))
<1> DEFINE shown == Shown(doc)
           rows == Rows(doc)
           L == Len(shown)
<1>1. /\ DOMAIN shown = 1 .. L /\ L \in Nat /\ Elements(shown) = Live(doc) /\ NoRepeats(shown)
  BY ShownLists DEF ListsOnce
<1>2. rows = [i \in 1 .. L |-> doc.nodes[shown[i]].id]
  BY <1>1 DEF Rows
<1>3. \A i \in 1 .. L : shown[i] \in Live(doc)
  BY <1>1 DEF Elements
<1>4. \A k \in Live(doc) : doc.nodes[k].id \in Nat /\ doc.nodes[k].id < b
  BY DEF Live, Document, OfElements, Element
<1>5. \A k \in Live(doc) : \E i \in 1 .. L : shown[i] = k
  BY <1>1 DEF Elements
<1>6. \A i, j \in 1 .. L : shown[i] = shown[j] => i = j
  BY <1>1 DEF NoRepeats
<1> HIDE DEF shown
<1>7. DOMAIN rows = 1 .. L /\ \A i \in 1 .. L : rows[i] = doc.nodes[shown[i]].id /\ rows[i] \in Nat
  BY <1>2, <1>3, <1>4
<1>8. rows \in Seq(Nat) /\ Len(rows) = L
  BY <1>1, <1>2, <1>7
<1> HIDE DEF rows, L
<1>9. ToSet(rows) = Ids(doc, Live(doc))
  BY <1>3, <1>5, <1>7 DEF ToSet, Ids
<1>10. ASSUME NEW id
       PROVE  LET at == {i \in DOMAIN rows : rows[i] = id}
              IN  Cardinality(at) > 1 <=> \E i, j \in DOMAIN rows : i # j /\ rows[i] = id /\ rows[j] = id
  <2> DEFINE at == {i \in DOMAIN rows : rows[i] = id}
  <2>1. IsFiniteSet(at)
    <3>1. at \subseteq 1 .. L /\ IsFiniteSet(1 .. L)
      BY <1>1, <1>7, FS_Interval
    <3>2. QED
      BY <3>1, FS_Subset
  <2>2. ASSUME NEW i \in at, NEW j \in at, i # j
        PROVE  Cardinality(at) > 1
    <3>1. IsFiniteSet({i}) /\ Cardinality({i}) = 1 /\ {i} \subseteq at /\ {i} # at
      BY <2>2, FS_Singleton
    <3> HIDE DEF at
    <3>2. /\ Cardinality({i}) <= Cardinality(at)
          /\ Cardinality({i}) = Cardinality(at) => {i} = at
      <4>1. {i} \in SUBSET at
        BY <3>1
      <4>2. QED
        BY <2>1, <4>1, FS_Subset
    <3>3. Cardinality(at) \in Nat
      BY <2>1, FS_CardinalityType
    <3>4. QED
      BY <3>1, <3>2, <3>3
  <2>3. ASSUME \A i, j \in at : i = j
        PROVE  ~(Cardinality(at) > 1)
    <3>1. CASE at = {}
      BY <3>1, FS_EmptySet
    <3>2. CASE at # {}
      <4>1. PICK i \in at : TRUE
        BY <3>2
      <4>2. at = {i}
        BY <2>3, <4>1
      <4> HIDE DEF at
      <4>3. QED
        BY <4>2, FS_Singleton
    <3>3. QED
      BY <3>1, <3>2
  <2>4. QED
    BY <2>2, <2>3
<1>11. Twice(doc) = Repeated(doc, Live(doc))
  <2>1. Twice(doc) = {id \in ToSet(rows) :
                        \E i, j \in DOMAIN rows : i # j /\ rows[i] = id /\ rows[j] = id}
    BY <1>10 DEF Twice, rows
  <2>2. \A id : id \in Twice(doc) => id \in Repeated(doc, Live(doc))
    BY <1>3, <1>6, <1>7, <2>1 DEF Repeated
  <2>3. \A id : id \in Repeated(doc, Live(doc)) => id \in Twice(doc)
    BY <1>5, <1>6, <1>7, <2>1 DEF Repeated, ToSet
  <2>4. QED
    BY <2>2, <2>3
<1>12. QED
  BY <1>1, <1>3, <1>4, <1>7, <1>8, <1>9, <1>11 DEF rows, shown, L

\* d is doc with live elements for ids, whose tickets begin with at.
Adds(doc, d, at, ids) ==
    LET new == at .. at + Len(ids) - 1
    IN  /\ d.clock = doc.clock /\ d.cells = doc.cells
        /\ d.heights = doc.heights /\ d.threads = doc.threads
        /\ DOMAIN d.nodes = DOMAIN doc.nodes \cup new
        /\ Live(d) = Live(doc) \cup new /\ DOMAIN doc.nodes \cap new = {}
        /\ \A k \in DOMAIN doc.nodes : d.nodes[k] = doc.nodes[k]
        /\ \A i \in 1 .. Len(ids) : d.nodes[at + i - 1].id = ids[i]

LEMMA Inserted ==
    ASSUME NEW doc, NEW b, Document(doc, b), NEW at \in Nat \ {0}, b <= at,
           NEW ids \in Seq(Nat), NEW after \in Tickets(doc.nodes),
           NEW B \in Nat, at + Len(ids) <= B, \A i \in 1 .. Len(ids) : ids[i] < B
    PROVE  LET d == InsertBehind(doc, after, at, ids)
           IN  Document(d, B) /\ Adds(doc, d, at, ids)
<1> DEFINE d == InsertBehind(doc, after, at, ids)
           n == Len(ids)
           new == at .. at + n - 1
           D == DOMAIN doc.nodes
           made(k) == [id |-> ids[k - at + 1], at |-> k, live |-> TRUE,
                       after |-> IF k = at THEN after ELSE k - 1]
           line == PutBefore(doc.line, Place(doc.line, after) + 1, Fresh(at, n))
           nodes == [k \in D \cup new |-> IF k \in D THEN doc.nodes[k] ELSE made(k)]
<1>1. d = [doc EXCEPT !.line = line, !.nodes = nodes]
  BY DEF InsertBehind
<1> HIDE DEF d, line, nodes
<1>2. d = [clock |-> doc.clock, nodes |-> nodes, line |-> line, cells |-> doc.cells,
           heights |-> doc.heights, threads |-> doc.threads]
  BY <1>1 DEF Document
<1>3. /\ d.clock = doc.clock /\ d.nodes = nodes /\ d.line = line /\ d.cells = doc.cells
      /\ d.heights = doc.heights /\ d.threads = doc.threads
  BY <1>2
<1>4. n \in Nat /\ b \in Nat /\ D \in SUBSET (Nat \ {0}) /\ \A k \in D : k < b
  BY DEF Document, OfElements, Element
<1>5. D \cap new = {} /\ new \subseteq Nat \ {0}
  BY <1>4
<1>6. /\ DOMAIN nodes = D \cup new
      /\ \A k \in D : nodes[k] = doc.nodes[k]
      /\ \A k \in new : nodes[k] = made(k)
  BY <1>5 DEF nodes
<1>7. line = Lined(nodes)
  <2> DEFINE old == doc.nodes
  <2>1. Numbered(old) /\ doc.line = Lined(old)
    BY DocumentNumbered DEF Document
  <2>2. \A k \in DOMAIN old : k < at /\ nodes[k].after = old[k].after
    BY <1>4, <1>6
  <2>3. ASSUME NEW k \in new
        PROVE  nodes[k].after = IF k = at THEN after ELSE k - 1
    <3>1. nodes[k] = made(k)
      BY <1>6
    <3>2. QED
      BY <3>1
  <2>4. DOMAIN nodes = DOMAIN old \cup (at .. at + n - 1)
    BY <1>6
  <2>5. line = PutBefore(Lined(old), Place(Lined(old), after) + 1, Fresh(at, n))
    BY <2>1 DEF line
  <2>6. \A k \in at .. at + n - 1 : nodes[k].after = IF k = at THEN after ELSE k - 1
    BY <2>3
  <2>7. n \in Nat
    BY <1>4
  <2> HIDE DEF old, n
  <2>8. \A k \in DOMAIN old : k < at
    BY <2>2
  <2>9. \A k \in DOMAIN old : nodes[k].after = old[k].after
    BY <2>2
  <2>10. Extends(nodes, old, after, at, n)
    BY <2>4, <2>6, <2>8, <2>9 DEF Extends
  <2>11. Lined(nodes) = PutBefore(Lined(old), Place(Lined(old), after) + 1, Fresh(at, n))
    BY <2>1, <2>7, <2>10, LinedInserted
  <2>12. QED
    BY <2>5, <2>11
<1>8. OfElements(nodes, B)
  <2>1. ASSUME NEW k \in D
        PROVE  Element(nodes, k, B)
    <3>1. Element(doc.nodes, k, b)
      BY DEF Document, OfElements
    <3>2. Tickets(doc.nodes) \subseteq Tickets(nodes) /\ b <= B
      BY <1>4, <1>6 DEF Tickets
    <3>3. QED
      BY <1>4, <1>6, <3>1, <3>2 DEF Element
  <2>2. ASSUME NEW k \in new
        PROVE  Element(nodes, k, B)
    <3>1. nodes[k] = made(k) /\ k \in Nat /\ k < B
      BY <1>4, <1>6
    <3>2. k - at + 1 \in 1 .. n /\ ids[k - at + 1] \in Nat /\ ids[k - at + 1] < B
      BY <1>4
    <3>3. after \in Tickets(nodes) /\ after < at
      BY <1>4, <1>6 DEF Tickets
    <3>4. k # at => k - 1 \in Tickets(nodes) /\ k - 1 < k
      BY <1>4, <1>6 DEF Tickets
    <3>5. QED
      BY <3>1, <3>2, <3>3, <3>4 DEF Element
  <2>3. QED
    BY <1>4, <1>5, <1>6, <2>1, <2>2 DEF OfElements
<1>9. Document(d, B)
  BY <1>2, <1>3, <1>6, <1>7, <1>8 DEF Document
<1>10. Live(d) = Live(doc) \cup new
  <2>1. ASSUME NEW k \in new
        PROVE  nodes[k].live
    <3>1. nodes[k] = made(k)
      BY <1>6
    <3>2. QED
      BY <3>1
  <2>2. QED
    BY <1>3, <1>6, <2>1 DEF Live
<1>11. \A i \in 1 .. n : d.nodes[at + i - 1].id = ids[i]
  <2>1. \A i \in 1 .. n : at + i - 1 \in new /\ (at + i - 1) - at + 1 = i
    BY <1>4
  <2>2. ASSUME NEW k \in new
        PROVE  nodes[k].id = ids[k - at + 1]
    <3>1. nodes[k] = made(k)
      BY <1>6
    <3>2. QED
      BY <3>1
  <2>3. QED
    BY <1>3, <2>1, <2>2
<1>12. Adds(doc, d, at, ids)
  BY <1>3, <1>5, <1>6, <1>10, <1>11 DEF Adds
<1>13. QED
  BY <1>9, <1>12 DEF d

\* Rows added below the last get ids of their own.
LEMMA Grown ==
    ASSUME NEW doc, NEW b, Document(doc, b), NEW at \in Nat \ {0}, b <= at,
           NEW len \in Nat, NEW B \in Nat, at + len <= B
    PROVE  LET d == Grow(doc, at, len)
               missing == MaxOf(0, len - Len(Shown(doc)))
               new == at .. at + missing - 1
           IN  /\ Document(d, B) /\ missing \in 0 .. len
               /\ d.clock = doc.clock /\ d.cells = doc.cells
               /\ d.heights = doc.heights /\ d.threads = doc.threads
               /\ DOMAIN d.nodes = DOMAIN doc.nodes \cup new
               /\ Live(d) = Live(doc) \cup new /\ DOMAIN doc.nodes \cap new = {}
               /\ \A k \in DOMAIN doc.nodes : d.nodes[k] = doc.nodes[k]
               /\ \A k \in new : d.nodes[k].id = k
               /\ Len(Shown(d)) = Len(Shown(doc)) + missing /\ Len(Shown(d)) >= len
<1> DEFINE d == Grow(doc, at, len)
           missing == MaxOf(0, len - Len(Shown(doc)))
           new == at .. at + missing - 1
           after == IF doc.line = <<>> THEN 0 ELSE Last(doc.line)
           ids == Fresh(at, missing)
<1>1. Len(Shown(doc)) \in Nat
  BY ShownLists
<1>2. missing \in 0 .. len /\ Len(Shown(doc)) + missing >= len
  BY <1>1 DEF MaxOf
<1> HIDE DEF missing
<1>3. d = InsertBehind(doc, after, at, ids)
  BY DEF Grow, missing
<1>4. after \in Tickets(doc.nodes)
  <2>1. doc.line \in Seq(DOMAIN doc.nodes)
    BY LineLists DEF ListsOnce
  <2>2. CASE doc.line # <<>>
    <3>1. doc.line[Len(doc.line)] \in DOMAIN doc.nodes
      BY <2>1, <2>2
    <3>2. QED
      BY <2>2, <3>1 DEF Last, Tickets
  <2>3. QED
    BY <2>2 DEF Tickets
<1>5. /\ ids \in Seq(Nat) /\ Len(ids) = missing
      /\ \A i \in 1 .. missing : ids[i] = at + i - 1 /\ ids[i] < B
  <2>1. missing \in Nat /\ at \in Nat
    BY <1>2
  <2>2. /\ ids \in Seq(at .. at + missing - 1) /\ Len(ids) = missing
        /\ \A i \in 1 .. missing : ids[i] = at + i - 1
    BY <2>1, FreshLists
  <2>3. at .. at + missing - 1 \subseteq Nat
    BY <2>1
  <2> HIDE DEF ids
  <2>4. ids \in Seq(Nat)
    BY <2>2, <2>3
  <2>5. QED
    BY <1>2, <2>2, <2>4
<1> HIDE DEF after, ids, d
<1>6. at + Len(ids) <= B
  BY <1>2, <1>5
<1>7. /\ Document(d, B)
      /\ d.clock = doc.clock /\ d.cells = doc.cells
      /\ d.heights = doc.heights /\ d.threads = doc.threads
      /\ DOMAIN d.nodes = DOMAIN doc.nodes \cup new
      /\ Live(d) = Live(doc) \cup new /\ DOMAIN doc.nodes \cap new = {}
      /\ \A k \in DOMAIN doc.nodes : d.nodes[k] = doc.nodes[k]
      /\ \A i \in 1 .. missing : d.nodes[at + i - 1].id = ids[i]
  <2>1. Document(d, B) /\ Adds(doc, d, at, ids)
    BY <1>3, <1>4, <1>5, <1>6, Inserted
  <2>2. QED
    BY <1>5, <2>1 DEF Adds
<1>8. \A k \in new : d.nodes[k].id = k
  <2>1. \A k \in new : k - at + 1 \in 1 .. missing /\ at + (k - at + 1) - 1 = k
    BY <1>2
  <2>2. QED
    BY <1>5, <1>7, <2>1
<1>9. Len(Shown(d)) = Len(Shown(doc)) + missing
  <2>1. IsFiniteSet(Live(doc)) /\ Cardinality(Live(doc)) = Len(Shown(doc))
    BY ShownLists
  <2>2. Cardinality(Live(d)) = Len(Shown(d))
    BY <1>7, ShownLists
  <2>3. IsFiniteSet(new) /\ Cardinality(new) = missing
    BY <1>2, FS_Interval
  <2>4. Live(doc) \cap new = {}
    BY <1>7 DEF Live
  <2>5. Cardinality(Live(doc) \cup new)
            = Cardinality(Live(doc)) + Cardinality(new) - Cardinality(Live(doc) \cap new)
    <3> HIDE DEF new
    <3>1. QED
      BY <2>1, <2>3, FS_Union
  <2>6. Cardinality(Live(doc) \cap new) = 0
    BY <2>4, FS_EmptySet
  <2> DEFINE cl == Cardinality(Live(doc))
             cn == Cardinality(new)
  <2>7. Cardinality(Live(d)) = cl + cn
    <3>1. Live(d) = Live(doc) \cup new
      BY <1>7
    <3>2. cl \in Nat /\ cn \in Nat
      BY <1>1, <1>2, <2>1, <2>3
    <3> HIDE DEF cl, cn, new
    <3>3. Cardinality(Live(d)) = cl + cn - 0
      BY <2>5, <2>6, <3>1 DEF cl, cn
    <3>4. QED
      BY <3>2, <3>3
  <2>8. QED
    BY <1>1, <1>2, <2>1, <2>2, <2>3, <2>7
<1>10. QED
  BY <1>2, <1>7, <1>8, <1>9 DEF d, missing

\* Elements that leave the list stay as tombstones.
Buries(doc, d, taken) ==
    /\ d.clock = doc.clock /\ d.cells = doc.cells
    /\ d.heights = doc.heights /\ d.threads = doc.threads
    /\ DOMAIN d.nodes = DOMAIN doc.nodes
    /\ Live(d) = Live(doc) \ taken
    /\ \A k \in DOMAIN doc.nodes : /\ d.nodes[k].id = doc.nodes[k].id
                                   /\ d.nodes[k].after = doc.nodes[k].after

LEMMA CutOut ==
    ASSUME NEW doc, NEW b, Document(doc, b), NEW taken
    PROVE  LET d == [doc EXCEPT !.nodes = Erased(@, taken)]
           IN  Document(d, b) /\ Buries(doc, d, taken)
<1> DEFINE nodes == Erased(doc.nodes, taken)
           d == [doc EXCEPT !.nodes = nodes]
<1>1. d = [clock |-> doc.clock, nodes |-> nodes, line |-> doc.line, cells |-> doc.cells,
           heights |-> doc.heights, threads |-> doc.threads]
  BY DEF Document
<1> HIDE DEF d
<1>2. /\ d.clock = doc.clock /\ d.nodes = nodes /\ d.line = doc.line /\ d.cells = doc.cells
      /\ d.heights = doc.heights /\ d.threads = doc.threads
  BY <1>1
<1>3. DOMAIN nodes = DOMAIN doc.nodes
  BY DEF Erased
<1>4. ASSUME NEW k \in DOMAIN doc.nodes
      PROVE  /\ Element(nodes, k, b) /\ nodes[k].id = doc.nodes[k].id
             /\ nodes[k].after = doc.nodes[k].after
             /\ nodes[k].live <=> doc.nodes[k].live /\ k \notin taken
  <2> DEFINE e == doc.nodes[k]
  <2>1. Element(doc.nodes, k, b)
    BY DEF Document, OfElements
  <2>2. e = [id |-> e.id, at |-> e.at, live |-> e.live, after |-> e.after]
    BY <2>1 DEF Element
  <2>3. nodes[k] = IF k \in taken THEN [e EXCEPT !.live = FALSE] ELSE e
    BY DEF Erased
  <2>4. CASE k \in taken
    <3>1. nodes[k] = [id |-> e.id, at |-> e.at, live |-> FALSE, after |-> e.after]
      BY <2>2, <2>3, <2>4
    <3>2. QED
      BY <1>3, <2>1, <2>4, <3>1 DEF Element, Tickets
  <2>5. CASE k \notin taken
    BY <1>3, <2>1, <2>3, <2>5 DEF Element, Tickets
  <2>6. QED
    BY <2>4, <2>5
<1> HIDE DEF nodes
<1>5. OfElements(nodes, b)
  BY <1>3, <1>4 DEF OfElements, Document
<1>6. Document(d, b)
  <2>1. doc.line = Lined(nodes)
    <3>1. doc.line = Lined(doc.nodes) /\ Numbered(doc.nodes)
      BY DocumentNumbered DEF Document
    <3>2. \A l \in DOMAIN doc.nodes : doc.nodes[l].after = nodes[l].after
      BY <1>4
    <3>3. QED
      BY <1>3, <3>1, <3>2, LinedSame
  <2>2. QED
    BY <1>1, <1>2, <1>5, <2>1 DEF Document
<1>7. Live(d) = Live(doc) \ taken
  BY <1>2, <1>3, <1>4 DEF Live
<1>8. d = [doc EXCEPT !.nodes = Erased(@, taken)]
  BY DEF d, nodes
<1>9. Buries(doc, d, taken)
  BY <1>2, <1>3, <1>4, <1>7 DEF Buries
<1>10. QED
  BY <1>6, <1>8, <1>9

-----------------------------------------------------------------------------
(* Records: cells, heights and threads.                                    *)

\* The values f written with the ticket at.
Stamped(record, f, at) ==
    [k \in DOMAIN record \cup DOMAIN f |->
        IF k \in DOMAIN f THEN [at |-> at, val |-> f[k], live |-> TRUE] ELSE record[k]]

LEMMA StampedHolds ==
    ASSUME NEW record, Entries(record), NEW f, NEW at
    PROVE  LET r == Stamped(record, f, at)
           IN  /\ Entries(r)
               /\ DOMAIN r = DOMAIN record \cup DOMAIN f
               /\ Held(r) = Held(record) \cup DOMAIN f
               /\ \A k \in DOMAIN f : r[k].val = f[k]
               /\ \A k \in DOMAIN record \ DOMAIN f : r[k] = record[k]
<1> DEFINE r == Stamped(record, f, at)
<1>1. /\ DOMAIN r = DOMAIN record \cup DOMAIN f
      /\ \A k \in DOMAIN record \ DOMAIN f : r[k] = record[k]
      /\ \A k \in DOMAIN f : r[k] = [at |-> at, val |-> f[k], live |-> TRUE]
  BY DEF Stamped
<1> HIDE DEF r
<1>2. ASSUME NEW k \in DOMAIN f
      PROVE  Entry(r[k]) /\ r[k].val = f[k] /\ r[k].live
  <2>1. r[k] = [at |-> at, val |-> f[k], live |-> TRUE]
    BY <1>1
  <2>2. QED
    BY <2>1 DEF Entry
<1>3. Entries(r)
  BY <1>1, <1>2 DEF Entries
<1>4. Held(r) = Held(record) \cup DOMAIN f
  BY <1>1, <1>2 DEF Held
<1>5. QED
  BY <1>1, <1>2, <1>3, <1>4 DEF r

LEMMA ErasedHolds ==
    ASSUME NEW record, Entries(record), NEW keys
    PROVE  LET r == Erased(record, keys)
           IN  /\ Entries(r) /\ DOMAIN r = DOMAIN record
               /\ Held(r) = Held(record) \ keys
               /\ \A k \in DOMAIN record : r[k].val = record[k].val
<1> DEFINE r == Erased(record, keys)
<1>1. DOMAIN r = DOMAIN record
  BY DEF Erased
<1>2. ASSUME NEW k \in DOMAIN record
      PROVE  /\ Entry(r[k]) /\ r[k].val = record[k].val
             /\ r[k].live <=> record[k].live /\ k \notin keys
  <2> DEFINE e == record[k]
  <2>1. Entry(e)
    BY DEF Entries
  <2>2. r[k] = IF k \in keys THEN [e EXCEPT !.live = FALSE] ELSE e
    BY DEF Erased
  <2>3. CASE k \in keys
    <3>1. r[k] = [at |-> e.at, val |-> e.val, live |-> FALSE]
      BY <2>1, <2>2, <2>3 DEF Entry
    <3> HIDE DEF r
    <3>2. QED
      BY <2>3, <3>1 DEF Entry
  <2>4. CASE k \notin keys
    <3> HIDE DEF r
    <3>1. QED
      BY <2>1, <2>2, <2>4
  <2>5. QED
    BY <2>3, <2>4
<1> HIDE DEF r
<1>3. QED
  BY <1>1, <1>2 DEF Entries, Held, r

\* What the rewriting of formulas and heights leaves alone.
SameRows(doc, d) ==
    /\ d.clock = doc.clock /\ d.nodes = doc.nodes /\ d.line = doc.line
    /\ d.threads = doc.threads /\ Held(d.cells) = Held(doc.cells)

LEMMA CellsPut ==
    ASSUME NEW doc, NEW b, Document(doc, b), NEW cells, Entries(cells)
    PROVE  LET d == [doc EXCEPT !.cells = cells]
           IN  /\ Document(d, b) /\ d.cells = cells
               /\ d.clock = doc.clock /\ d.nodes = doc.nodes /\ d.line = doc.line
               /\ d.heights = doc.heights /\ d.threads = doc.threads
<1> DEFINE d == [doc EXCEPT !.cells = cells]
<1>1. d = [clock |-> doc.clock, nodes |-> doc.nodes, line |-> doc.line, cells |-> cells,
           heights |-> doc.heights, threads |-> doc.threads]
  BY DEF Document
<1> HIDE DEF d
<1>2. Document(d, b)
  BY <1>1 DEF Document
<1>3. QED
  BY <1>1, <1>2 DEF d

LEMMA HeightsPut ==
    ASSUME NEW doc, NEW b, Document(doc, b), NEW heights, Entries(heights)
    PROVE  LET d == [doc EXCEPT !.heights = heights]
           IN  /\ Document(d, b) /\ SameRows(doc, d)
               /\ d.cells = doc.cells /\ d.heights = heights
<1> DEFINE d == [doc EXCEPT !.heights = heights]
<1>1. d = [clock |-> doc.clock, nodes |-> doc.nodes, line |-> doc.line, cells |-> doc.cells,
           heights |-> heights, threads |-> doc.threads]
  BY DEF Document
<1> HIDE DEF d
<1>2. Document(d, b)
  BY <1>1 DEF Document
<1>3. QED
  BY <1>1, <1>2 DEF SameRows, d

LEMMA ThreadsPut ==
    ASSUME NEW doc, NEW b, Document(doc, b), NEW threads, Entries(threads)
    PROVE  LET d == [doc EXCEPT !.threads = threads]
           IN  /\ Document(d, b) /\ d.threads = threads
               /\ d.clock = doc.clock /\ d.nodes = doc.nodes /\ d.line = doc.line
               /\ d.cells = doc.cells /\ d.heights = doc.heights
<1> DEFINE d == [doc EXCEPT !.threads = threads]
<1>1. d = [clock |-> doc.clock, nodes |-> doc.nodes, line |-> doc.line, cells |-> doc.cells,
           heights |-> doc.heights, threads |-> threads]
  BY DEF Document
<1> HIDE DEF d
<1>2. Document(d, b)
  BY <1>1 DEF Document
<1>3. QED
  BY <1>1, <1>2 DEF d

-----------------------------------------------------------------------------
(* The calls.  A structural edit writes the formulas and heights again.     *)

ShiftedFormulas(doc, i, count) ==
    [id \in Formulas(doc) |->
        LET f == doc.cells[id].val.f
        IN  Reference(IF f = Gone THEN Gone ELSE ShiftIndex(f, i, count))]
MovedFormulas(doc, src, n, dst) ==
    [id \in Formulas(doc) |->
        LET f == doc.cells[id].val.f
        IN  Reference(IF f = Gone THEN Gone ELSE RemapIndex(f, src, n, dst))]

LEMMA FormulasHeld ==
    ASSUME NEW doc, NEW b, Document(doc, b), NEW f, DOMAIN f = Formulas(doc), NEW t
    PROVE  LET d == [doc EXCEPT !.cells = Stamped(@, f, t)]
           IN  /\ Document(d, b) /\ SameRows(doc, d)
               /\ d.cells = Stamped(doc.cells, f, t) /\ d.heights = doc.heights
<1> DEFINE cells == Stamped(doc.cells, f, t)
           d == [doc EXCEPT !.cells = cells]
<1>1. Entries(cells) /\ Held(cells) = Held(doc.cells) \cup Formulas(doc)
  <2>1. Entries(doc.cells)
    BY DEF Document
  <2>2. Entries(cells) /\ Held(cells) = Held(doc.cells) \cup DOMAIN f
    <3> DEFINE old == doc.cells
    <3>1. Entries(old)
      BY <2>1
    <3> HIDE DEF old
    <3>2. Entries(Stamped(old, f, t)) /\ Held(Stamped(old, f, t)) = Held(old) \cup DOMAIN f
      BY <3>1, StampedHolds
    <3>3. QED
      BY <3>2 DEF old
  <2>3. QED
    BY <2>2
<1>2. Formulas(doc) \subseteq Held(doc.cells)
  BY DEF Formulas
<1> HIDE DEF cells
<1>3. /\ Document(d, b) /\ d.cells = cells
      /\ d.clock = doc.clock /\ d.nodes = doc.nodes /\ d.line = doc.line
      /\ d.heights = doc.heights /\ d.threads = doc.threads
  BY <1>1, CellsPut
<1> HIDE DEF d
<1>4. SameRows(doc, d)
  BY <1>1, <1>2, <1>3 DEF SameRows
<1>5. QED
  BY <1>3, <1>4 DEF d, cells

LEMMA HeightsReplaced ==
    ASSUME NEW doc, NEW b, Document(doc, b), NEW keys, NEW new, NEW t
    PROVE  LET d == [doc EXCEPT !.heights = Stamped(Erased(@, keys), new, t)]
           IN  Document(d, b) /\ SameRows(doc, d) /\ d.cells = doc.cells
<1>1. Entries(Erased(doc.heights, keys))
  BY ErasedHolds DEF Document
<1>2. Entries(Stamped(Erased(doc.heights, keys), new, t))
  BY <1>1, StampedHolds
<1>3. QED
  BY <1>2, HeightsPut

ShiftedSheet(doc, t, i, count) ==
    LET Rename(k) == ShiftIndex(k, i, count)
    IN  ReplaceHeights(RewriteFormulas(doc, t, Rename), t, Rename)
MovedSheet(doc, t, src, n, dst) ==
    LET Rename(k) == RemapIndex(k, src, n, dst)
    IN  ReplaceHeights(RewriteFormulas(doc, t, Rename), t, Rename)

LEMMA ShiftRewrites ==
    ASSUME NEW doc, NEW b, Document(doc, b), NEW t, NEW i, NEW count
    PROVE  LET d == ShiftedSheet(doc, t, i, count)
           IN  /\ Document(d, b) /\ SameRows(doc, d)
               /\ d.cells = Stamped(doc.cells, ShiftedFormulas(doc, i, count), t)
<1> DEFINE Rename(k) == ShiftIndex(k, i, count)
           f == ShiftedFormulas(doc, i, count)
           e == RewriteFormulas(doc, t, Rename)
           d == ReplaceHeights(e, t, Rename)
           old == [k \in Held(e.heights) |-> e.heights[k].val]
           new == Rekey(old, Rename)
<1>1. DOMAIN f = Formulas(doc)
  BY DEF ShiftedFormulas
<1>2. e = [doc EXCEPT !.cells = Stamped(@, f, t)]
  BY DEF RewriteFormulas, Written, Stamped, ShiftedFormulas
<1>3. d = [e EXCEPT !.heights = Stamped(Erased(@, DOMAIN old), new, t)]
  BY DEF ReplaceHeights, Written, Stamped
<1> HIDE DEF f, e, d, old, new
<1>4. /\ Document(e, b) /\ SameRows(doc, e) /\ e.cells = Stamped(doc.cells, f, t)
  BY <1>1, <1>2, FormulasHeld
<1>5. Document(d, b) /\ SameRows(e, d) /\ d.cells = e.cells
  BY <1>3, <1>4, HeightsReplaced
<1>6. SameRows(doc, d)
  BY <1>4, <1>5 DEF SameRows
<1>7. QED
  BY <1>4, <1>5, <1>6 DEF ShiftedSheet, d, e, f

LEMMA MoveRewrites ==
    ASSUME NEW doc, NEW b, Document(doc, b), NEW t, NEW src, NEW n, NEW dst
    PROVE  LET d == MovedSheet(doc, t, src, n, dst)
           IN  /\ Document(d, b) /\ SameRows(doc, d)
               /\ d.cells = Stamped(doc.cells, MovedFormulas(doc, src, n, dst), t)
<1> DEFINE Rename(k) == RemapIndex(k, src, n, dst)
           f == MovedFormulas(doc, src, n, dst)
           e == RewriteFormulas(doc, t, Rename)
           d == ReplaceHeights(e, t, Rename)
           old == [k \in Held(e.heights) |-> e.heights[k].val]
           new == Rekey(old, Rename)
<1>1. DOMAIN f = Formulas(doc)
  BY DEF MovedFormulas
<1>2. e = [doc EXCEPT !.cells = Stamped(@, f, t)]
  BY DEF RewriteFormulas, Written, Stamped, MovedFormulas
<1>3. d = [e EXCEPT !.heights = Stamped(Erased(@, DOMAIN old), new, t)]
  BY DEF ReplaceHeights, Written, Stamped
<1> HIDE DEF f, e, d, old, new
<1>4. /\ Document(e, b) /\ SameRows(doc, e) /\ e.cells = Stamped(doc.cells, f, t)
  BY <1>1, <1>2, FormulasHeld
<1>5. Document(d, b) /\ SameRows(e, d) /\ d.cells = e.cells
  BY <1>3, <1>4, HeightsReplaced
<1>6. SameRows(doc, d)
  BY <1>4, <1>5 DEF SameRows
<1>7. QED
  BY <1>4, <1>5, <1>6 DEF MovedSheet, d, e, f

-----------------------------------------------------------------------------
(* Bounds.                                                                 *)

LEMMA FiniteBounded ==
    ASSUME NEW S \in SUBSET Nat, IsFiniteSet(S)
    PROVE  \E b \in Nat : \A x \in S : x <= b
<1> DEFINE Bounded(T) == \E b \in Nat : \A x \in T : x <= b
           bad == {n \in Nat : \E T \in SUBSET S : Cardinality(T) = n /\ ~Bounded(T)}
<1>1. bad = {}
  <2> SUFFICES ASSUME bad # {}  PROVE FALSE
    OBVIOUS
  <2>1. bad \in SUBSET Nat
    OBVIOUS
  <2> HIDE DEF bad
  <2>2. \E n \in bad : \A m \in bad : n <= m
    BY <2>1, LeastNatural
  <2>3. PICK n \in bad : \A m \in bad : n <= m
    BY <2>2
  <2>4. PICK T \in SUBSET S : Cardinality(T) = n /\ ~Bounded(T) /\ n \in Nat
    BY <2>3 DEF bad
  <2>5. PICK x \in T : TRUE
    BY <2>4
  <2>6. IsFiniteSet(T)
    BY <2>4, FS_Subset
  <2>7. IsFiniteSet(T \ {x}) /\ Cardinality(T \ {x}) = n - 1 /\ n - 1 \in Nat
    <3>1. Cardinality(T \ {x}) = n - 1 /\ IsFiniteSet(T \ {x})
      BY <2>4, <2>5, <2>6, FS_RemoveElement
    <3>2. QED
      BY <3>1, FS_CardinalityType
  <2>8. n - 1 \notin bad
    BY <2>3, <2>4, <2>7
  <2>9. Bounded(T \ {x})
    BY <2>4, <2>7, <2>8 DEF bad
  <2>10. PICK b \in Nat : \A y \in T \ {x} : y <= b
    BY <2>9
  <2>11. x \in Nat
    BY <2>4, <2>5
  <2>12. CASE x <= b
    <3>1. \A y \in T : y <= b
      BY <2>10, <2>12
    <3>2. QED
      BY <2>4, <3>1
  <2>13. CASE b < x
    <3>1. \A y \in T : y <= x
      BY <2>4, <2>10, <2>11, <2>13
    <3>2. QED
      BY <2>4, <2>11, <3>1
  <2>14. QED
    BY <2>11, <2>12, <2>13
<1>2. Cardinality(S) \in Nat /\ Cardinality(S) \notin bad
  BY <1>1, FS_CardinalityType
<1>3. QED
  BY <1>2

\* Rows of the largest seed.
Largest == Max({Len(seed.cells) : seed \in Seeds})

LEMMA LargestIs ==
    /\ Largest \in Nat
    /\ \A seed \in Seeds : Len(seed.cells) \in Nat /\ Len(seed.cells) <= Largest
<1> DEFINE lengths == {Len(seed.cells) : seed \in Seeds}
<1>1. \A seed \in Seeds : Len(seed.cells) \in Nat
  BY SeedsAssumption
<1>2. lengths \in SUBSET Nat /\ lengths # {}
  BY <1>1, SeedsAssumption
<1>3. IsFiniteSet(lengths)
  <2> DEFINE f == [seed \in Seeds |-> Len(seed.cells)]
  <2>1. lengths = {f[seed] : seed \in Seeds}
    OBVIOUS
  <2>2. f \in Surjection(Seeds, lengths)
    BY DEF Surjection
  <2> HIDE DEF f, lengths
  <2>3. QED
    BY <2>2, SeedsAssumption, FS_Surjection
<1> HIDE DEF lengths
<1>4. PICK b \in Nat : \A x \in lengths : x <= b
  BY <1>2, <1>3, FiniteBounded
<1>5. \E m \in lengths : \A n \in lengths : n <= m
  <2>1. lengths \in SUBSET (0 .. b)
    BY <1>2, <1>4
  <2>2. QED
    BY <1>2, <2>1, GreatestBelow
<1>6. \E m \in lengths : \A n \in lengths : m >= n
  BY <1>2, <1>5
<1>7. Max(lengths) \in lengths /\ \A n \in lengths : Max(lengths) >= n
  BY <1>6 DEF Max
<1>8. Largest = Max(lengths)
  BY DEF Largest, lengths
<1>9. Largest \in Nat /\ \A n \in lengths : n <= Largest
  BY <1>2, <1>7, <1>8
<1>10. QED
  BY <1>1, <1>9 DEF lengths

LEMMA TimesMonotone ==
    ASSUME NEW a \in Nat, NEW b \in Nat, NEW w \in Nat, a <= b
    PROVE  a * w \in Nat /\ b * w \in Nat /\ a * w <= b * w
<1>1. PICK e \in Nat : b = a + e
  <2>1. b - a \in Nat /\ b = a + (b - a)
    OBVIOUS
  <2>2. QED
    BY <2>1
<1>2. a * w \in Nat /\ e * w \in Nat
  OBVIOUS
<1>3. b * w = a * w + e * w
  BY <1>1
<1>4. QED
  BY <1>2, <1>3

LEMMA LimitIs ==
    /\ Limit \in Nat /\ Width \in Nat /\ Width = 2 * Limit
    /\ MaxRows \in Nat \ {0} /\ MaxBlock \in Nat \ {0} /\ MaxChanges \in Nat
    /\ Limit = Largest + MaxChanges * (MaxRows + MaxBlock)
    /\ Largest <= Limit
    /\ \A n \in 0 .. MaxChanges : n * (MaxRows + MaxBlock) \in Nat
                                  /\ Largest + n * (MaxRows + MaxBlock) <= Limit
    /\ MaxChanges # 0 => MaxRows + MaxBlock <= Limit
<1>1. MaxRows \in Nat \ {0} /\ MaxBlock \in Nat \ {0} /\ MaxChanges \in Nat
  BY BoundsAssumption
<1> DEFINE w == MaxRows + MaxBlock
<1>2. w \in Nat
  BY <1>1
<1>3. Limit = Largest + MaxChanges * w
  BY DEF Limit, Largest
<1> HIDE DEF w
<1>4. \A n \in 0 .. MaxChanges : n * w \in Nat /\ n * w <= MaxChanges * w
  BY <1>1, <1>2, TimesMonotone
<1>5. MaxChanges * w \in Nat
  BY <1>1, <1>2
<1>6. \A n \in 0 .. MaxChanges : n * w \in Nat /\ Largest + n * w <= Limit
  BY <1>3, <1>4, <1>5, LargestIs
<1>7. Limit \in Nat /\ Width \in Nat /\ Width = 2 * Limit /\ Largest <= Limit
  BY <1>3, <1>5, LargestIs DEF Width
<1>8. MaxChanges # 0 => w <= Limit
  <2>1. MaxChanges # 0 => 1 * w <= MaxChanges * w
    BY <1>1, <1>4
  <2>2. QED
    BY <1>2, <1>3, <1>5, <2>1, LargestIs
<1>9. QED
  BY <1>1, <1>3, <1>6, <1>7, <1>8 DEF w

\* What a client writes next has a ticket later than all its replica knows.
Ceiling(doc) == ((doc.clock + 1) * Cardinality(Clients) + 1) * Width

LEMMA TicketIs ==
    ASSUME NEW doc, doc.clock \in Nat, NEW c \in Clients
    PROVE  /\ Ticket(doc, c) \in Nat /\ Ceiling(doc) \in Nat
           /\ Ceiling(doc) <= Ticket(doc, c)
           /\ Ticket(doc, c) + Width <= ((doc.clock + 1 + 1) * Cardinality(Clients) + 1) * Width
           /\ Limit # 0 => Ticket(doc, c) # 0
<1> DEFINE C == Cardinality(Clients)
           p == (doc.clock + 1) * C
<1>1. C \in Nat /\ c \in Nat /\ 1 <= c /\ c <= C
  BY ClientsAssumption
<1>2. p \in Nat /\ (doc.clock + 1 + 1) * C = p + C
  BY <1>1
<1>3. Ceiling(doc) = (p + 1) * Width /\ Ticket(doc, c) = (p + c) * Width
  BY DEF Ceiling, Ticket
<1> HIDE DEF p, C
<1>4. Width \in Nat /\ Width = 2 * Limit /\ Limit \in Nat
  BY LimitIs
<1>5. (p + 1) * Width \in Nat /\ (p + c) * Width \in Nat /\ (p + 1) * Width <= (p + c) * Width
  BY <1>1, <1>2, <1>4, TimesMonotone
<1>6. (p + c + 1) * Width <= (p + C + 1) * Width
  BY <1>1, <1>2, <1>4, TimesMonotone
<1>7. (p + c + 1) * Width = (p + c) * Width + Width
  BY <1>1, <1>2, <1>4
<1>8. 1 * Width <= (p + c) * Width
  BY <1>1, <1>2, <1>4, TimesMonotone
<1>9. QED
  BY <1>2, <1>3, <1>4, <1>5, <1>6, <1>7, <1>8 DEF C

-----------------------------------------------------------------------------
(* What a call of one client does to its replica.                          *)

\* Ids that cells or threads stand for.
Occupied(doc) == Held(doc.cells) \cup {doc.threads[t].val : t \in Held(doc.threads)}

LEMMA OrphansAre ==
    ASSUME NEW doc, NEW b, Document(doc, b)
    PROVE  /\ Orphans(doc) = Occupied(doc) \ Ids(doc, Live(doc))
           /\ Twice(doc) = Repeated(doc, Live(doc))
BY RowsAre DEF Orphans, Occupied

\* What d has and doc has not is in rows d shows, and no row doc shows goes
\* without what is in it; d repeats no id.
CleanAfter(doc, d) ==
    /\ Occupied(d) \subseteq Occupied(doc) \cup Ids(d, Live(d))
    /\ Occupied(d) \cap Ids(doc, Live(doc)) \subseteq Ids(d, Live(d))
    /\ Repeated(d, Live(d)) \subseteq Repeated(doc, Live(doc))

LEMMA CleanIs ==
    ASSUME NEW doc, NEW b, Document(doc, b), NEW d, NEW B, Document(d, B), CleanAfter(doc, d)
    PROVE  Orphans(d) \subseteq Orphans(doc) /\ Twice(d) \subseteq Twice(doc)
BY OrphansAre DEF CleanAfter

\* d shows the rows of doc, and new ones with ids made on the spot.
AddsRows(doc, d, new, at) ==
    /\ new \in SUBSET Nat /\ \A k \in new : k >= at /\ d.nodes[k].id = k
    /\ Live(d) = Live(doc) \cup new
    /\ \A k \in DOMAIN doc.nodes : d.nodes[k].id = doc.nodes[k].id

LEMMA RowsAdded ==
    ASSUME NEW doc, NEW b, Document(doc, b), NEW d, NEW at \in Nat, b <= at,
           NEW new, AddsRows(doc, d, new, at)
    PROVE  /\ Ids(doc, Live(doc)) \subseteq Ids(d, Live(d))
           /\ Repeated(d, Live(d)) \subseteq Repeated(doc, Live(doc))
<1>1. \A k \in Live(doc) : /\ d.nodes[k].id = doc.nodes[k].id
                           /\ doc.nodes[k].id \in Nat /\ doc.nodes[k].id < b
  BY DEF AddsRows, Live, Document, OfElements, Element
<1>2. /\ b \in Nat /\ new \in SUBSET Nat /\ Live(d) = Live(doc) \cup new
      /\ \A k \in new : k >= at /\ d.nodes[k].id = k
  BY DEF AddsRows, Document
<1>3. Ids(doc, Live(doc)) \subseteq Ids(d, Live(d))
  BY <1>1, <1>2 DEF Ids
<1>4. ASSUME NEW k \in Live(d), NEW l \in Live(d), k # l, d.nodes[k].id = d.nodes[l].id
      PROVE  k \in Live(doc) /\ l \in Live(doc)
  <2>1. CASE k \in new /\ l \in new
    BY <1>2, <1>4, <2>1
  <2>2. CASE k \in new /\ l \in Live(doc)
    <3>1. k \in Nat /\ at <= k /\ d.nodes[k].id = k
      BY <1>2, <2>2
    <3>2. d.nodes[l].id \in Nat /\ d.nodes[l].id < b
      BY <1>1, <2>2
    <3>3. QED
      BY <1>2, <1>4, <3>1, <3>2
  <2>3. CASE k \in Live(doc) /\ l \in new
    <3>1. l \in Nat /\ at <= l /\ d.nodes[l].id = l
      BY <1>2, <2>3
    <3>2. d.nodes[k].id \in Nat /\ d.nodes[k].id < b
      BY <1>1, <2>3
    <3>3. QED
      BY <1>2, <1>4, <3>1, <3>2
  <2>4. QED
    BY <1>2, <2>1, <2>2, <2>3
<1>5. QED
  BY <1>1, <1>3, <1>4 DEF Repeated

\* The elements of doc are in d as they were, dead or alive.
Keeps(doc, d) ==
    /\ DOMAIN doc.nodes \subseteq DOMAIN d.nodes
    /\ \A k \in DOMAIN doc.nodes : /\ d.nodes[k].id = doc.nodes[k].id
                                   /\ d.nodes[k].after = doc.nodes[k].after
NewElements(doc, d) == DOMAIN d.nodes \ DOMAIN doc.nodes

\* The rows of a call are added first.
Widened(doc, d, t) ==
    /\ Document(d, t + Limit) /\ Keeps(doc, d)
    /\ NewElements(doc, d) \subseteq t .. t + Limit - 1
    /\ d.clock = doc.clock /\ d.cells = doc.cells
    /\ d.heights = doc.heights /\ d.threads = doc.threads
    /\ Ids(doc, Live(doc)) \subseteq Ids(d, Live(d))
    /\ Repeated(d, Live(d)) \subseteq Repeated(doc, Live(doc))

LEMMA GrowWidens ==
    ASSUME NEW doc, NEW b, Document(doc, b), NEW t \in Nat \ {0}, b <= t, NEW len \in 0 .. Limit
    PROVE  Widened(doc, Grow(doc, t, len), t) /\ Len(Shown(Grow(doc, t, len))) >= len
<1> DEFINE d == Grow(doc, t, len)
           missing == MaxOf(0, len - Len(Shown(doc)))
           new == t .. t + missing - 1
<1>1. Limit \in Nat
  BY LimitIs
<1>2. t + Limit \in Nat /\ t + len <= t + Limit /\ len \in Nat
  BY <1>1
<1>3. /\ Document(d, t + Limit) /\ missing \in 0 .. len
      /\ d.clock = doc.clock /\ d.cells = doc.cells
      /\ d.heights = doc.heights /\ d.threads = doc.threads
      /\ DOMAIN d.nodes = DOMAIN doc.nodes \cup new
      /\ Live(d) = Live(doc) \cup new /\ DOMAIN doc.nodes \cap new = {}
      /\ \A k \in DOMAIN doc.nodes : d.nodes[k] = doc.nodes[k]
      /\ \A k \in new : d.nodes[k].id = k
      /\ Len(Shown(d)) >= len
  BY <1>2, Grown
<1> HIDE DEF d, missing
<1>4. \A k \in new : k >= t /\ k \in Nat /\ k \in t .. t + Limit - 1
  BY <1>1, <1>3
<1>5. /\ Ids(doc, Live(doc)) \subseteq Ids(d, Live(d))
      /\ Repeated(d, Live(d)) \subseteq Repeated(doc, Live(doc))
  <2>1. AddsRows(doc, d, new, t)
    BY <1>3, <1>4 DEF AddsRows
  <2>2. QED
    BY <2>1, RowsAdded
<1>6. Keeps(doc, d) /\ NewElements(doc, d) \subseteq t .. t + Limit - 1
  BY <1>3, <1>4 DEF Keeps, NewElements
<1>7. QED
  BY <1>3, <1>5, <1>6 DEF Widened, d

LEMMA ElementBeforeIs ==
    ASSUME NEW doc, NEW b, Document(doc, b), NEW i \in Int
    PROVE  ElementBefore(doc, i) \in Tickets(doc.nodes)
<1>1. /\ DOMAIN Shown(doc) = 1 .. Len(Shown(doc)) /\ Len(Shown(doc)) \in Nat
      /\ Shown(doc) \in Seq(Live(doc))
  BY ShownLists DEF ListsOnce
<1>2. CASE i <= 1 \/ Shown(doc) = <<>>
  BY <1>2 DEF ElementBefore, Tickets
<1>3. CASE ~(i <= 1 \/ Shown(doc) = <<>>)
  <2>1. MinOf(i - 1, Len(Shown(doc))) \in DOMAIN Shown(doc)
    <3>1. Len(Shown(doc)) # 0
      BY <1>1, <1>3
    <3>2. QED
      BY <1>1, <1>3, <3>1 DEF MinOf
  <2>2. Shown(doc)[MinOf(i - 1, Len(Shown(doc)))] \in Live(doc)
    BY <1>1, <2>1
  <2>3. QED
    BY <1>3, <2>2 DEF ElementBefore, Live, Tickets
<1>4. QED
  BY <1>2, <1>3

\* What cells hold: what users type, formulas up to row N, and what they held before.
Seeded == UNION {ToSet(seed.cells) : seed \in Seeds}
Contents(N) == {Value} \cup {Reference(i) : i \in 0 .. N} \cup (Seeded \ References)
Spanned(doc, N) == \A id \in DOMAIN doc.cells : doc.cells[id].val \in Contents(N)
Reach == MaxRows + MaxBlock

\* Every cell that is held stands for an element of the list, dead or alive.
Named(doc) == Held(doc.cells) \subseteq Ids(doc, DOMAIN doc.nodes)

\* d is doc after a call with ticket t, formulas reaching r rows further.
Follows(doc, d, t, r) ==
    /\ Document(d, t + Width) /\ d.clock = doc.clock
    /\ Keeps(doc, d) /\ NewElements(doc, d) \subseteq t .. t + Width - 1
    /\ DOMAIN d.threads \subseteq DOMAIN doc.threads \cup {t}
    /\ Named(doc) => Named(d)
    /\ \A N \in Nat : N + r <= Limit /\ Spanned(doc, N) => Spanned(d, N + r)

LEMMA DocumentWider ==
    ASSUME NEW doc, NEW b, Document(doc, b), NEW B \in Nat, b <= B
    PROVE  Document(doc, B)
<1>1. b \in Nat /\ \A k \in DOMAIN doc.nodes : Element(doc.nodes, k, b) /\ k \in Nat
  BY DEF Document, OfElements
<1>2. \A k \in DOMAIN doc.nodes : Element(doc.nodes, k, B)
  BY <1>1 DEF Element
<1>3. QED
  BY <1>2 DEF Document, OfElements

LEMMA ContentsGrow ==
    ASSUME NEW N \in Nat, NEW M \in Nat, N <= M
    PROVE  Contents(N) \subseteq Contents(M)
<1>1. 0 .. N \subseteq 0 .. M
  OBVIOUS
<1>2. QED
  BY <1>1 DEF Contents

LEMMA FormulaIs ==
    ASSUME NEW N \in Nat, N <= Limit, NEW v \in Contents(N), v \in References
    PROVE  v.f \in 0 .. N
<1>1. v \in {Reference(i) : i \in 0 .. N}
  BY ValueAssumption DEF Contents
<1>2. PICK i \in 0 .. N : v = [f |-> i]
  BY <1>1 DEF Reference
<1>3. QED
  BY <1>2

LEMMA KeptIds ==
    ASSUME NEW doc, NEW d, Keeps(doc, d)
    PROVE  Ids(doc, DOMAIN doc.nodes) \subseteq Ids(d, DOMAIN d.nodes)
BY DEF Keeps, Ids

LEMMA KeptOn ==
    ASSUME NEW doc, NEW d, NEW e, Keeps(doc, d), Keeps(d, e)
    PROVE  Keeps(doc, e) /\ NewElements(doc, e) = NewElements(doc, d) \cup NewElements(d, e)
BY DEF Keeps, NewElements

LEMMA SameRowsClean ==
    ASSUME NEW doc, NEW d, NEW e, CleanAfter(doc, d), SameRows(d, e)
    PROVE  CleanAfter(doc, e)
BY DEF SameRows, CleanAfter, Occupied, Live, Ids, Repeated

LEMMA RewritesFollow ==
    ASSUME NEW doc, NEW b, Document(doc, b), NEW t \in Nat, NEW d, Follows(doc, d, t, 0),
           NEW e, Document(e, t + Width), SameRows(d, e), Reach <= Limit,
           NEW f, DOMAIN f = Formulas(d), e.cells = Stamped(d.cells, f, t),
           \A id \in Formulas(d) : \A N \in Nat : d.cells[id].val.f \in 0 .. N =>
               f[id] \in {Reference(i) : i \in 0 .. N + Reach}
    PROVE  Follows(doc, e, t, Reach)
<1>1. /\ e.clock = d.clock /\ e.nodes = d.nodes /\ e.threads = d.threads
      /\ Held(e.cells) = Held(d.cells)
  BY DEF SameRows
<1>2. Keeps(doc, e) /\ NewElements(doc, e) = NewElements(doc, d)
  BY <1>1 DEF Follows, Keeps, NewElements
<1>3. Named(doc) => Named(e)
  BY <1>1 DEF Follows, Named, Ids
<1>4. Reach \in Nat /\ Limit \in Nat
  BY LimitIs DEF Reach
<1>5. ASSUME NEW N \in Nat, N + Reach <= Limit, Spanned(doc, N)
      PROVE  Spanned(e, N + Reach)
  <2>1. N + 0 = N /\ N <= Limit /\ N <= N + Reach /\ N + Reach \in Nat
    BY <1>4, <1>5
  <2>2. Spanned(d, N)
    BY <1>5, <2>1 DEF Follows
  <2>3. \A id \in DOMAIN d.cells : d.cells[id].val \in Contents(N + Reach)
    BY <2>1, <2>2, ContentsGrow DEF Spanned
  <2>4. ASSUME NEW id \in Formulas(d)
        PROVE  f[id] \in Contents(N + Reach)
    <3>1. id \in DOMAIN d.cells /\ d.cells[id].val \in References
      BY DEF Formulas, Held
    <3>2. d.cells[id].val \in Contents(N)
      BY <2>2, <3>1 DEF Spanned
    <3>3. d.cells[id].val.f \in 0 .. N
      BY <2>1, <3>1, <3>2, FormulaIs
    <3>4. QED
      BY <3>3 DEF Contents
  <2>5. ASSUME NEW id \in DOMAIN e.cells
        PROVE  e.cells[id].val \in Contents(N + Reach)
    <3>1. id \in DOMAIN d.cells \cup DOMAIN f
      BY DEF Stamped
    <3>2. e.cells[id] = IF id \in DOMAIN f THEN [at |-> t, val |-> f[id], live |-> TRUE]
                        ELSE d.cells[id]
      BY <3>1 DEF Stamped
    <3>3. CASE id \in DOMAIN f
      <4>1. e.cells[id].val = f[id]
        BY <3>2, <3>3
      <4>2. QED
        BY <2>4, <3>3, <4>1
    <3>4. CASE id \notin DOMAIN f
      BY <2>3, <3>1, <3>2, <3>4
    <3>5. QED
      BY <3>3, <3>4
  <2>6. QED
    BY <2>5 DEF Spanned
<1>6. QED
  BY <1>1, <1>2, <1>3, <1>5 DEF Follows

LEMMA ShiftReaches ==
    ASSUME NEW N \in Nat, NEW i \in 1 .. N, NEW index \in Nat \ {0}, NEW count \in Int,
           -MaxBlock <= count, count <= MaxBlock
    PROVE  ShiftIndex(i, index, count) \in 0 .. N + Reach
<1>1. MaxRows \in Nat /\ MaxBlock \in Nat
  BY LimitIs
<1>2. QED
  BY <1>1 DEF ShiftIndex, Reach, Gone

LEMMA MoveReaches ==
    ASSUME NEW N \in Nat, NEW i \in 1 .. N, NEW src \in Nat \ {0}, NEW n \in 1 .. MaxBlock,
           NEW dst \in 1 .. MaxRows + 1, dst \notin src .. (src + n)
    PROVE  RemapIndex(i, src, n, dst) \in 0 .. N + Reach
<1>1. MaxRows \in Nat /\ MaxBlock \in Nat
  BY LimitIs
<1>2. dst < src \/ dst > src + n
  OBVIOUS
<1>3. CASE dst <= src
  BY <1>1, <1>3 DEF RemapIndex, Reach
<1>4. CASE dst > src
  BY <1>1, <1>2, <1>4 DEF RemapIndex, Reach
<1>5. QED
  BY <1>1, <1>3, <1>4

\* What a call that gives cells new values, or none, leaves of the rest.
LEMMA CellsFollow ==
    ASSUME NEW doc, NEW b, Document(doc, b), NEW t \in Nat \ {0}, b <= t, Reach <= Limit,
           NEW d, Widened(doc, d, t), NEW cells, Entries(cells), NEW kept,
           Held(cells) \subseteq Held(doc.cells) \cup kept, kept \subseteq Ids(d, Live(d)),
           \A id \in DOMAIN cells : \/ id \in DOMAIN doc.cells /\ cells[id].val = doc.cells[id].val
                                    \/ cells[id].val = Value
    PROVE  LET e == [d EXCEPT !.cells = cells]
           IN  Follows(doc, e, t, Reach) /\ CleanAfter(doc, e)
<1> DEFINE e == [d EXCEPT !.cells = cells]
<1>1. Document(d, t + Limit)
  BY DEF Widened
<1>2. Limit \in Nat /\ Width \in Nat /\ Limit <= Width /\ Reach \in Nat
  BY LimitIs DEF Reach
<1>3. /\ Document(e, t + Limit) /\ e.cells = cells
      /\ e.clock = d.clock /\ e.nodes = d.nodes /\ e.line = d.line
      /\ e.heights = d.heights /\ e.threads = d.threads
  BY <1>1, CellsPut
<1> HIDE DEF e
<1>4. Document(e, t + Width)
  <2>1. t + Width \in Nat /\ t + Limit <= t + Width
    BY <1>2
  <2>2. QED
    BY <1>3, <2>1, DocumentWider
<1>5. /\ e.clock = doc.clock /\ Keeps(doc, e) /\ NewElements(doc, e) \subseteq t .. t + Width - 1
      /\ DOMAIN e.threads \subseteq DOMAIN doc.threads \cup {t}
  <2>1. /\ e.clock = doc.clock /\ Keeps(doc, e) /\ NewElements(doc, e) \subseteq t .. t + Limit - 1
        /\ DOMAIN e.threads = DOMAIN doc.threads
    BY <1>3 DEF Widened, Keeps, NewElements
  <2>2. t .. t + Limit - 1 \subseteq t .. t + Width - 1
    BY <1>2
  <2>3. QED
    BY <2>1, <2>2
<1>6. Named(doc) => Named(e)
  <2>1. Ids(doc, DOMAIN doc.nodes) \subseteq Ids(e, DOMAIN e.nodes)
    BY <1>5, KeptIds
  <2>2. kept \subseteq Ids(e, DOMAIN e.nodes)
    BY <1>3 DEF Ids, Live
  <2>3. QED
    BY <1>3, <2>1, <2>2 DEF Named
<1>7. ASSUME NEW N \in Nat, N + Reach <= Limit, Spanned(doc, N)
      PROVE  Spanned(e, N + Reach)
  <2>1. N <= N + Reach /\ N + Reach \in Nat
    BY <1>2
  <2>2. Contents(N) \subseteq Contents(N + Reach) /\ Value \in Contents(N + Reach)
    BY <2>1, ContentsGrow DEF Contents
  <2>3. QED
    BY <1>3, <1>7, <2>2 DEF Spanned
<1>8. Follows(doc, e, t, Reach)
  BY <1>4, <1>5, <1>6, <1>7 DEF Follows
<1>9. CleanAfter(doc, e)
  <2>1. /\ Ids(doc, Live(doc)) \subseteq Ids(d, Live(d))
        /\ Repeated(d, Live(d)) \subseteq Repeated(doc, Live(doc)) /\ d.threads = doc.threads
    BY DEF Widened
  <2>2. Ids(e, Live(e)) = Ids(d, Live(d)) /\ Repeated(e, Live(e)) = Repeated(d, Live(d))
    BY <1>3 DEF Ids, Live, Repeated
  <2>3. Occupied(e) \subseteq Occupied(doc) \cup Ids(d, Live(d))
    BY <1>3, <2>1 DEF Occupied
  <2>4. QED
    BY <2>1, <2>2, <2>3 DEF CleanAfter
<1>10. QED
  BY <1>8, <1>9 DEF e

LEMMA WidenedSelf ==
    ASSUME NEW doc, NEW b, Document(doc, b), NEW t \in Nat, b <= t
    PROVE  Widened(doc, doc, t)
<1>1. b \in Nat /\ t + Limit \in Nat /\ b <= t + Limit
  BY LimitIs DEF Document
<1>2. Document(doc, t + Limit)
  BY <1>1, DocumentWider
<1>3. QED
  BY <1>2 DEF Widened, Keeps, NewElements

LEMMA SetCellFollows ==
    ASSUME NEW doc, NEW b, Document(doc, b), NEW t \in Nat \ {0}, b <= t, Reach <= Limit,
           NEW i \in Indices
    PROVE  LET d == SetCell(doc, t, i, Value)
           IN  Follows(doc, d, t, Reach) /\ CleanAfter(doc, d)
<1> DEFINE d == Grow(doc, t, i)
           row == Rows(d)[i]
           f == [id \in {row} |-> Value]
           cells == Stamped(d.cells, f, t)
<1>1. MaxRows \in Nat /\ MaxBlock \in Nat /\ Limit \in Nat
  BY LimitIs
<1>2. i \in 0 .. Limit /\ i # 0
  BY <1>1 DEF Indices, Reach
<1>3. Widened(doc, d, t) /\ Len(Shown(d)) >= i
  BY <1>2, GrowWidens
<1>4. SetCell(doc, t, i, Value) = [d EXCEPT !.cells = cells]
  BY DEF SetCell, Written, Stamped
<1> HIDE DEF d
<1>5. row \in Ids(d, Live(d))
  <2>1. Document(d, t + Limit)
    BY <1>3 DEF Widened
  <2>2. /\ ToSet(Rows(d)) = Ids(d, Live(d)) /\ DOMAIN Rows(d) = 1 .. Len(Shown(d))
    BY <2>1, RowsAre
  <2>3. Len(Shown(d)) \in Nat
    BY <2>1, ShownLists
  <2>4. i \in DOMAIN Rows(d)
    BY <1>2, <1>3, <2>2, <2>3
  <2>5. QED
    BY <2>2, <2>4 DEF ToSet
<1>6. d.cells = doc.cells /\ Entries(doc.cells)
  BY <1>3 DEF Widened, Document
<1> HIDE DEF row
<1>7. /\ Entries(cells) /\ Held(cells) = Held(doc.cells) \cup {row}
      /\ \A id \in DOMAIN cells : \/ id \in DOMAIN doc.cells /\ cells[id].val = doc.cells[id].val
                                  \/ cells[id].val = Value
  <2>1. DOMAIN f = {row} /\ f[row] = Value
    OBVIOUS
  <2> DEFINE old == d.cells
  <2>2. Entries(old)
    BY <1>6
  <2>3. cells = [k \in DOMAIN old \cup {row} |->
                   IF k \in {row} THEN [at |-> t, val |-> Value, live |-> TRUE] ELSE old[k]]
    BY DEF Stamped
  <2> HIDE DEF f, old
  <2>4. Entries(Stamped(old, f, t)) /\ Held(Stamped(old, f, t)) = Held(old) \cup DOMAIN f
    BY <2>2, StampedHolds
  <2>5. cells = Stamped(old, f, t)
    BY DEF cells, old
  <2> HIDE DEF cells
  <2>6. ASSUME NEW id \in DOMAIN cells
        PROVE  \/ id \in DOMAIN old /\ cells[id].val = old[id].val
               \/ cells[id].val = Value
    <3>1. CASE id = row
      <4>1. cells[id] = [at |-> t, val |-> Value, live |-> TRUE]
        BY <2>3, <3>1
      <4>2. QED
        BY <4>1
    <3>2. CASE id # row
      BY <2>3, <3>2
    <3>3. QED
      BY <3>1, <3>2
  <2>7. QED
    BY <1>6, <2>1, <2>4, <2>5, <2>6 DEF old
<1> HIDE DEF cells
<1>8. {row} \subseteq Ids(d, Live(d)) /\ Held(cells) \subseteq Held(doc.cells) \cup {row}
  BY <1>5, <1>7
<1>9. QED
  BY <1>3, <1>4, <1>7, <1>8, CellsFollow

LEMMA ClearCellFollows ==
    ASSUME NEW doc, NEW b, Document(doc, b), NEW t \in Nat \ {0}, b <= t, Reach <= Limit,
           NEW i \in Indices
    PROVE  LET d == ClearCell(doc, i)
           IN  Follows(doc, d, t, Reach) /\ CleanAfter(doc, d)
<1>1. PICK keys : ClearCell(doc, i) = [doc EXCEPT !.cells = Erased(@, keys)]
                  \/ ClearCell(doc, i) = doc
  BY DEF ClearCell
<1>2. Widened(doc, doc, t)
  BY WidenedSelf
<1>3. ASSUME NEW cells, Entries(cells), Held(cells) \subseteq Held(doc.cells),
             DOMAIN cells = DOMAIN doc.cells,
             \A id \in DOMAIN cells : cells[id].val = doc.cells[id].val
      PROVE  LET d == [doc EXCEPT !.cells = cells]
             IN  Follows(doc, d, t, Reach) /\ CleanAfter(doc, d)
  <2>1. Held(cells) \subseteq Held(doc.cells) \cup {} /\ {} \subseteq Ids(doc, Live(doc))
    BY <1>3
  <2>2. QED
    BY <1>2, <1>3, <2>1, CellsFollow
<1>4. Entries(doc.cells)
  BY DEF Document
<1>5. doc = [doc EXCEPT !.cells = doc.cells]
  BY DEF Document
<1>6. /\ Entries(Erased(doc.cells, keys)) /\ DOMAIN Erased(doc.cells, keys) = DOMAIN doc.cells
      /\ Held(Erased(doc.cells, keys)) \subseteq Held(doc.cells)
      /\ \A id \in DOMAIN doc.cells : Erased(doc.cells, keys)[id].val = doc.cells[id].val
  BY <1>4, ErasedHolds
<1>7. CASE ClearCell(doc, i) = doc
  <2>1. LET d == [doc EXCEPT !.cells = doc.cells]
        IN  Follows(doc, d, t, Reach) /\ CleanAfter(doc, d)
    BY <1>3, <1>4
  <2>2. QED
    BY <1>5, <1>7, <2>1
<1>8. CASE ClearCell(doc, i) = [doc EXCEPT !.cells = Erased(@, keys)]
  <2>1. LET d == [doc EXCEPT !.cells = Erased(doc.cells, keys)]
        IN  Follows(doc, d, t, Reach) /\ CleanAfter(doc, d)
    BY <1>3, <1>6
  <2>2. QED
    BY <1>8, <2>1
<1>9. QED
  BY <1>1, <1>7, <1>8

LEMMA WidenedFollows ==
    ASSUME NEW doc, NEW d, NEW t \in Nat, Widened(doc, d, t)
    PROVE  Follows(doc, d, t, 0) /\ CleanAfter(doc, d)
<1>1. Limit \in Nat /\ Width \in Nat /\ Limit <= Width
  BY LimitIs
<1>2. Document(d, t + Width)
  <2>1. t + Width \in Nat /\ t + Limit <= t + Width
    BY <1>1
  <2>2. QED
    BY <2>1, DocumentWider DEF Widened
<1>3. NewElements(doc, d) \subseteq t .. t + Width - 1
  <2>1. t .. t + Limit - 1 \subseteq t .. t + Width - 1
    BY <1>1
  <2>2. QED
    BY <2>1 DEF Widened
<1>4. Named(doc) => Named(d)
  <2>1. Ids(doc, DOMAIN doc.nodes) \subseteq Ids(d, DOMAIN d.nodes)
    BY KeptIds DEF Widened
  <2>2. QED
    BY <2>1 DEF Widened, Named
<1>5. \A N \in Nat : N + 0 = N
  OBVIOUS
<1>6. \A N \in Nat : N + 0 <= Limit /\ Spanned(doc, N) => Spanned(d, N + 0)
  BY <1>5 DEF Widened, Spanned
<1>7. CleanAfter(doc, d)
  BY DEF Widened, CleanAfter, Occupied
<1>8. QED
  BY <1>2, <1>3, <1>4, <1>6, <1>7 DEF Follows, Widened

LEMMA FollowsMore ==
    ASSUME NEW doc, NEW d, NEW t \in Nat, Follows(doc, d, t, 0)
    PROVE  Follows(doc, d, t, Reach)
<1>1. ASSUME NEW N \in Nat, N + Reach <= Limit, Spanned(doc, N)
      PROVE  Spanned(d, N + Reach)
  <2>1. N + 0 = N /\ N <= Limit /\ N <= N + Reach /\ N + Reach \in Nat
    BY <1>1, LimitIs DEF Reach
  <2>2. Spanned(d, N)
    BY <1>1, <2>1 DEF Follows
  <2>3. QED
    BY <2>1, <2>2, ContentsGrow DEF Spanned
<1>2. QED
  BY <1>1 DEF Follows

\* Growing the list and nothing else: the composer opened below the last row.
LEMMA GrowFollows ==
    ASSUME NEW doc, NEW b, Document(doc, b), NEW t \in Nat \ {0}, b <= t, Reach <= Limit,
           NEW i \in Indices
    PROVE  LET d == Grow(doc, t, i)
           IN  Follows(doc, d, t, Reach) /\ CleanAfter(doc, d) /\ Len(Shown(d)) >= i
<1>1. i \in 0 .. Limit
  BY LimitIs DEF Indices, Reach
<1>2. Widened(doc, Grow(doc, t, i), t) /\ Len(Shown(Grow(doc, t, i))) >= i
  BY <1>1, GrowWidens
<1>3. QED
  BY <1>2, WidenedFollows, FollowsMore

LEMMA SetHeightFollows ==
    ASSUME NEW doc, NEW b, Document(doc, b), NEW t \in Nat \ {0}, b <= t, NEW i
    PROVE  LET d == SetHeight(doc, t, i)
           IN  Follows(doc, d, t, Reach) /\ CleanAfter(doc, d)
<1> DEFINE f == [k \in {i} |-> Height]
           heights == Stamped(doc.heights, f, t)
           d == SetHeight(doc, t, i)
<1>1. d = [doc EXCEPT !.heights = heights]
  BY DEF SetHeight, Written, Stamped
<1>2. Entries(heights)
  <2> HIDE DEF f
  <2>1. QED
    BY StampedHolds DEF Document
<1> HIDE DEF d, heights
<1>3. Widened(doc, doc, t)
  BY WidenedSelf
<1>4. Document(d, t + Limit) /\ SameRows(doc, d) /\ d.cells = doc.cells
  BY <1>1, <1>2, <1>3, HeightsPut DEF Widened
<1>5. Follows(doc, doc, t, 0) /\ CleanAfter(doc, doc)
  BY <1>3, WidenedFollows
<1>6. Document(d, t + Width)
  <2>1. t + Width \in Nat /\ t + Limit <= t + Width
    BY LimitIs
  <2>2. QED
    BY <1>4, <2>1, DocumentWider
<1>7. Follows(doc, d, t, 0)
  <2>1. d.clock = doc.clock /\ d.nodes = doc.nodes /\ d.threads = doc.threads
    BY <1>4 DEF SameRows
  <2>2. Keeps(doc, d) /\ NewElements(doc, d) \subseteq t .. t + Width - 1
    BY <1>5, <2>1 DEF Follows, Keeps, NewElements
  <2>3. Named(doc) => Named(d)
    BY <1>4, <2>1 DEF Named, Ids
  <2>4. \A N \in Nat : N + 0 <= Limit /\ Spanned(doc, N) => Spanned(d, N + 0)
    BY <1>4, <1>5 DEF Spanned, Follows
  <2>5. QED
    BY <1>6, <2>1, <2>2, <2>3, <2>4 DEF Follows
<1>8. CleanAfter(doc, d)
  BY <1>4, <1>5, SameRowsClean
<1>9. QED
  BY <1>7, <1>8, FollowsMore DEF d

\* A comment on a row that is shown.
LEMMA AddThreadFollows ==
    ASSUME NEW doc, NEW b, Document(doc, b), NEW t \in Nat \ {0}, b <= t,
           NEW row \in Ids(doc, Live(doc))
    PROVE  LET d == AddThread(doc, t, row)
           IN  /\ Follows(doc, d, t, 0) /\ CleanAfter(doc, d)
               /\ d.nodes = doc.nodes /\ d.line = doc.line
               /\ \A th \in Held(d.threads) \ Held(doc.threads) : d.threads[th].val = row
<1> DEFINE f == [th \in {t} |-> row]
           threads == Stamped(doc.threads, f, t)
           d == AddThread(doc, t, row)
<1>1. d = [doc EXCEPT !.threads = threads]
  BY DEF AddThread, Written, Stamped
<1>2. /\ Entries(threads) /\ DOMAIN threads = DOMAIN doc.threads \cup {t}
      /\ Held(threads) = Held(doc.threads) \cup {t}
  <2> DEFINE old == doc.threads
  <2>1. DOMAIN f = {t} /\ Entries(old)
    BY DEF Document
  <2> HIDE DEF f, old
  <2>2. /\ Entries(Stamped(old, f, t)) /\ DOMAIN Stamped(old, f, t) = DOMAIN old \cup DOMAIN f
        /\ Held(Stamped(old, f, t)) = Held(old) \cup DOMAIN f
    BY <2>1, StampedHolds
  <2>3. QED
    BY <2>1, <2>2 DEF old
<1>3. /\ threads[t].val = row
      /\ \A th \in DOMAIN doc.threads \ {t} : threads[th] = doc.threads[th]
  BY DEF Stamped
<1> HIDE DEF d, threads
<1>4. Widened(doc, doc, t)
  BY WidenedSelf
<1>5. /\ Document(d, t + Limit) /\ d.threads = threads
      /\ d.clock = doc.clock /\ d.nodes = doc.nodes /\ d.line = doc.line
      /\ d.cells = doc.cells /\ d.heights = doc.heights
  BY <1>1, <1>2, <1>4, ThreadsPut DEF Widened
<1>6. Follows(doc, doc, t, 0)
  BY <1>4, WidenedFollows
<1>7. Document(d, t + Width)
  <2>1. t + Width \in Nat /\ t + Limit <= t + Width
    BY LimitIs
  <2>2. QED
    BY <1>5, <2>1, DocumentWider
<1>8. Follows(doc, d, t, 0)
  <2>1. Keeps(doc, d) /\ NewElements(doc, d) \subseteq t .. t + Width - 1
    BY <1>5, <1>6 DEF Follows, Keeps, NewElements
  <2>2. Named(doc) => Named(d)
    BY <1>5 DEF Named, Ids
  <2>3. \A N \in Nat : N + 0 <= Limit /\ Spanned(doc, N) => Spanned(d, N + 0)
    BY <1>5, <1>6 DEF Spanned, Follows
  <2>4. QED
    BY <1>2, <1>5, <1>7, <2>1, <2>2, <2>3 DEF Follows
<1>9. CleanAfter(doc, d)
  <2>1. /\ Live(d) = Live(doc) /\ Ids(d, Live(d)) = Ids(doc, Live(doc))
        /\ Repeated(d, Live(d)) = Repeated(doc, Live(doc))
    BY <1>5 DEF Live, Ids, Repeated
  <2>2. Held(threads) \subseteq DOMAIN threads
    BY DEF Held
  <2>3. \A th \in Held(threads) : \/ threads[th].val = row
                                  \/ th \in Held(doc.threads) /\ threads[th].val = doc.threads[th].val
    BY <1>2, <1>3 DEF Held
  <2>4. Occupied(d) \subseteq Occupied(doc) \cup {row}
    BY <1>5, <2>3 DEF Occupied
  <2>5. QED
    BY <2>1, <2>4 DEF CleanAfter
<1>10. \A th \in Held(d.threads) \ Held(doc.threads) : d.threads[th].val = row
  BY <1>2, <1>3, <1>5
<1>11. QED
  BY <1>5, <1>8, <1>9, <1>10 DEF d

\* Elements put in behind those of g, which is doc with rows added or taken out.
LEMMA InsertedFollows ==
    ASSUME NEW doc, NEW t \in Nat \ {0}, NEW g, NEW at, at = t + Limit, Document(g, at),
           Keeps(doc, g), NewElements(doc, g) \subseteq t .. t + Limit - 1,
           g.clock = doc.clock, g.cells = doc.cells, g.threads = doc.threads,
           NEW after \in Tickets(g.nodes), NEW ids \in Seq(Nat), Len(ids) <= Limit,
           \A i \in 1 .. Len(ids) : ids[i] < t + Width
    PROVE  LET w == InsertBehind(g, after, at, ids)
           IN  Follows(doc, w, t, 0) /\ Adds(g, w, at, ids)
<1> DEFINE w == InsertBehind(g, after, at, ids)
           new == at .. at + Len(ids) - 1
           B == t + Width
<1>1. Limit \in Nat /\ Width \in Nat /\ Width = 2 * Limit
  BY LimitIs
<1>2. at \in Nat \ {0} /\ B \in Nat /\ at + Len(ids) <= B /\ at <= at
  BY <1>1
<1>3. Document(w, B) /\ Adds(g, w, at, ids)
  <2>1. w = InsertBehind(g, after, at, ids) /\ \A i \in 1 .. Len(ids) : ids[i] < B
    OBVIOUS
  <2> HIDE DEF w, B
  <2>2. QED
    BY <1>2, <2>1, Inserted
<1> HIDE DEF w
<1>4. Keeps(doc, w) /\ NewElements(doc, w) \subseteq t .. t + Width - 1
  <2>1. Keeps(g, w) /\ NewElements(g, w) = new
    BY <1>3 DEF Adds, Keeps, NewElements
  <2>2. Keeps(doc, w) /\ NewElements(doc, w) = NewElements(doc, g) \cup NewElements(g, w)
    <3> HIDE DEF new
    <3>1. QED
      BY <2>1, KeptOn
  <2>3. t .. t + Limit - 1 \subseteq t .. t + Width - 1 /\ new \subseteq t .. t + Width - 1
    BY <1>1
  <2>4. QED
    BY <2>1, <2>2, <2>3
<1>5. Named(doc) => Named(w)
  <2>1. Ids(doc, DOMAIN doc.nodes) \subseteq Ids(w, DOMAIN w.nodes)
    BY <1>4, KeptIds
  <2>2. QED
    BY <1>3, <2>1 DEF Adds, Named
<1>6. \A N \in Nat : N + 0 <= Limit /\ Spanned(doc, N) => Spanned(w, N + 0)
  <2>1. \A N \in Nat : N + 0 = N
    OBVIOUS
  <2>2. QED
    BY <1>3, <2>1 DEF Adds, Spanned
<1>7. Follows(doc, w, t, 0)
  BY <1>3, <1>4, <1>5, <1>6 DEF Adds, Follows
<1>8. QED
  BY <1>3, <1>7 DEF w

LEMMA InsertRowsFollows ==
    ASSUME NEW doc, NEW b, Document(doc, b), NEW t \in Nat \ {0}, b <= t, Reach <= Limit,
           NEW i \in Indices, NEW n \in 1 .. MaxBlock
    PROVE  LET d == InsertRows(doc, t, i, n)
           IN  Follows(doc, d, t, Reach) /\ CleanAfter(doc, d)
<1> DEFINE g == Grow(doc, t, i - 1)
           at == t + Limit
           ids == Fresh(at, n)
           w == InsertBehind(g, ElementBefore(g, i), at, ids)
           new == at .. at + n - 1
           f == ShiftedFormulas(w, i, n)
           d == InsertRows(doc, t, i, n)
<1>1. /\ Limit \in Nat /\ Width \in Nat /\ Width = 2 * Limit /\ MaxRows \in Nat /\ MaxBlock \in Nat
      /\ i \in Nat \ {0} /\ i - 1 \in 0 .. Limit /\ i \in Int
      /\ n \in Nat /\ n <= Limit /\ n <= MaxBlock /\ -MaxBlock <= n /\ n \in Int
  BY LimitIs DEF Indices, Reach
<1>2. Widened(doc, g, t)
  BY <1>1, GrowWidens
<1> HIDE DEF g
<1>3. /\ Document(g, at) /\ Keeps(doc, g) /\ NewElements(doc, g) \subseteq t .. t + Limit - 1
      /\ g.clock = doc.clock /\ g.cells = doc.cells /\ g.threads = doc.threads
  BY <1>2 DEF Widened
<1>4. ElementBefore(g, i) \in Tickets(g.nodes)
  BY <1>1, <1>3, ElementBeforeIs
<1>5. /\ ids \in Seq(Nat) /\ Len(ids) = n /\ \A j \in 1 .. n : ids[j] = at + j - 1
      /\ \A j \in 1 .. n : ids[j] < t + Width
  <2>1. at \in Nat
    BY <1>1
  <2>2. /\ ids \in Seq(at .. at + n - 1) /\ Len(ids) = n
        /\ \A j \in 1 .. n : ids[j] = at + j - 1
    <3> HIDE DEF at
    <3>1. QED
      BY <1>1, <2>1, FreshLists
  <2>3. at .. at + n - 1 \subseteq Nat
    BY <2>1
  <2> HIDE DEF ids
  <2>4. ids \in Seq(Nat)
    <3> HIDE DEF at
    <3>1. QED
      BY <2>2, <2>3, SeqOfMore
  <2>5. QED
    BY <1>1, <2>2, <2>4
<1> HIDE DEF ids
<1>6. /\ Follows(doc, w, t, 0) /\ w.cells = doc.cells /\ w.threads = doc.threads
      /\ Live(w) = Live(g) \cup new
      /\ \A k \in DOMAIN g.nodes : w.nodes[k].id = g.nodes[k].id
      /\ \A j \in 1 .. n : w.nodes[at + j - 1].id = ids[j]
  <2>1. Len(ids) <= Limit /\ \A j \in 1 .. Len(ids) : ids[j] < t + Width
    BY <1>1, <1>5
  <2>2. Follows(doc, w, t, 0) /\ Adds(g, w, at, ids)
    <3> DEFINE after == ElementBefore(g, i)
    <3>1. at = t + Limit /\ w = InsertBehind(g, after, at, ids) /\ after \in Tickets(g.nodes)
      BY <1>4
    <3> HIDE DEF at, w, after
    <3>2. QED
      BY <1>3, <1>4, <1>5, <2>1, <3>1, InsertedFollows
  <2>3. QED
    BY <1>3, <1>5, <2>2 DEF Adds
<1> HIDE DEF w
<1>7. CleanAfter(doc, w)
  <2>1. AddsRows(g, w, new, at)
    <3>1. \A k \in new : k \in Nat /\ k >= at /\ k - at + 1 \in 1 .. n /\ at + (k - at + 1) - 1 = k
      BY <1>1
    <3>2. \A k \in new : w.nodes[k].id = k
      BY <1>5, <1>6, <3>1
    <3>3. QED
      BY <1>6, <3>1, <3>2 DEF AddsRows
  <2>2. /\ Ids(g, Live(g)) \subseteq Ids(w, Live(w))
        /\ Repeated(w, Live(w)) \subseteq Repeated(g, Live(g))
    <3>1. at \in Nat /\ at <= at
      BY <1>1
    <3> HIDE DEF at, new
    <3>2. QED
      BY <1>3, <2>1, <3>1, RowsAdded
  <2>3. Occupied(w) = Occupied(doc)
    BY <1>6 DEF Occupied
  <2>4. QED
    BY <1>2, <2>2, <2>3 DEF Widened, CleanAfter
<1>8. /\ Document(d, t + Width) /\ SameRows(w, d) /\ d.cells = Stamped(w.cells, f, t)
  <2>1. Document(w, t + Width)
    BY <1>6 DEF Follows
  <2>2. d = ShiftedSheet(w, t, i, n)
    BY DEF InsertRows, ShiftedSheet, w, g, ids
  <2> HIDE DEF f, d
  <2>3. QED
    BY <2>1, <2>2, ShiftRewrites DEF f
<1>9. DOMAIN f = Formulas(w)
  BY DEF ShiftedFormulas
<1>10. \A id \in Formulas(w) : \A N \in Nat : w.cells[id].val.f \in 0 .. N =>
               f[id] \in {Reference(x) : x \in 0 .. N + Reach}
  <2>1. SUFFICES ASSUME NEW id \in Formulas(w), NEW N \in Nat, w.cells[id].val.f \in 0 .. N
                 PROVE  f[id] \in {Reference(x) : x \in 0 .. N + Reach}
    OBVIOUS
  <2> DEFINE v == w.cells[id].val.f
  <2>2. f[id] = Reference(IF v = Gone THEN Gone ELSE ShiftIndex(v, i, n))
    BY DEF ShiftedFormulas
  <2>3. 0 \in 0 .. N + Reach
    BY <1>1 DEF Reach
  <2>4. v # 0 => ShiftIndex(v, i, n) \in 0 .. N + Reach
    <3>1. v # 0 => v \in 1 .. N
      BY <2>1
    <3> HIDE DEF v
    <3>2. QED
      BY <1>1, <3>1, ShiftReaches
  <2>5. QED
    BY <2>2, <2>3, <2>4 DEF Gone
<1> HIDE DEF f, d
<1>11. Follows(doc, d, t, Reach)
  BY <1>6, <1>8, <1>9, <1>10, RewritesFollow
<1>12. CleanAfter(doc, d)
  BY <1>7, <1>8, SameRowsClean
<1>13. QED
  BY <1>11, <1>12 DEF d

LEMMA DeleteRowsFollows ==
    ASSUME NEW doc, NEW b, Document(doc, b), NEW t \in Nat \ {0}, b <= t, Reach <= Limit,
           NEW i \in Indices, NEW n \in 1 .. MaxBlock
    PROVE  LET d == DeleteRows(doc, t, i, n)
           IN  Follows(doc, d, t, Reach) /\ CleanAfter(doc, d)
<1> DEFINE m == MinOf(i + n - 1, Len(Rows(doc)))
           gone == SubSeq(Rows(doc), i, m)
           removed == ToSet(gone)
           taken == {Shown(doc)[j] : j \in i .. m}
           short == [doc EXCEPT !.nodes = Erased(@, taken)]
           cells == Erased(short.cells, removed)
           cut == [short EXCEPT !.cells = cells]
           f == ShiftedFormulas(cut, i, -n)
           shifted == ShiftedSheet(cut, t, i, -n)
           orphans == {th \in Held(shifted.threads) : shifted.threads[th].val \in removed}
           threads == Erased(shifted.threads, orphans)
           d == DeleteRows(doc, t, i, n)
<1>1. /\ Limit \in Nat /\ Width \in Nat /\ Limit <= Width /\ MaxRows \in Nat /\ MaxBlock \in Nat
      /\ i \in Nat \ {0} /\ n \in Nat \ {0} /\ n <= MaxBlock
      /\ -n \in Int /\ -MaxBlock <= -n /\ -n <= MaxBlock
  BY LimitIs DEF Indices
<1>2. /\ Rows(doc) \in Seq(Nat) /\ Len(Rows(doc)) = Len(Shown(doc)) /\ Len(Shown(doc)) \in Nat
      /\ \A j \in 1 .. Len(Shown(doc)) : Rows(doc)[j] = doc.nodes[Shown(doc)[j]].id
  BY RowsAre, ShownLists
<1>3. d = [shifted EXCEPT !.threads = threads]
  BY <1>2 DEF DeleteRows, ShiftedSheet, Cut
<1> HIDE DEF d, shifted, m, taken, removed
<1>4. \A j \in i .. m : j \in 1 .. Len(Shown(doc)) /\ Rows(doc)[j] \in removed
  <2>1. m \in Nat /\ m <= Len(Rows(doc))
    BY <1>1, <1>2 DEF m, MinOf
  <2>2. /\ Len(gone) = IF i <= m THEN m - i + 1 ELSE 0
        /\ DOMAIN gone = 1 .. Len(gone)
        /\ \A x \in 1 .. Len(gone) : gone[x] = Rows(doc)[i + x - 1]
    <3> DEFINE rows == Rows(doc)
    <3>1. rows \in Seq(Nat) /\ i \in Nat \ {0} /\ m \in 0 .. Len(rows)
      BY <1>1, <1>2, <2>1
    <3> HIDE DEF rows
    <3>2. /\ Len(SubSeq(rows, i, m)) = IF i <= m THEN m - i + 1 ELSE 0
          /\ DOMAIN SubSeq(rows, i, m) = 1 .. Len(SubSeq(rows, i, m))
          /\ \A x \in 1 .. Len(SubSeq(rows, i, m)) : SubSeq(rows, i, m)[x] = rows[i + x - 1]
      BY <3>1, SubSeqAt
    <3>3. QED
      BY <3>2 DEF rows
  <2> HIDE DEF gone
  <2>3. \A j \in i .. m : j - i + 1 \in 1 .. Len(gone) /\ i + (j - i + 1) - 1 = j
    BY <1>1, <2>1, <2>2
  <2>4. \A j \in i .. m : Rows(doc)[j] = gone[j - i + 1]
    BY <2>2, <2>3
  <2>5. \A j \in i .. m : Rows(doc)[j] \in removed
    BY <2>2, <2>3, <2>4 DEF removed, ToSet
  <2>6. \A j \in i .. m : j \in 1 .. Len(Shown(doc))
    BY <1>1, <1>2, <2>1
  <2>7. QED
    BY <2>5, <2>6
<1>5. \A k \in taken : doc.nodes[k].id \in removed
  BY <1>2, <1>4 DEF taken
<1>6. /\ Document(short, b)
      /\ short.clock = doc.clock /\ short.cells = doc.cells /\ short.threads = doc.threads
      /\ DOMAIN short.nodes = DOMAIN doc.nodes
      /\ Live(short) = Live(doc) \ taken
      /\ \A k \in DOMAIN doc.nodes : /\ short.nodes[k].id = doc.nodes[k].id
                                     /\ short.nodes[k].after = doc.nodes[k].after
  <2> HIDE DEF taken
  <2>1. Document(short, b) /\ Buries(doc, short, taken)
    BY CutOut
  <2>2. QED
    BY <2>1 DEF Buries
<1> HIDE DEF short
<1>7. /\ Entries(cells) /\ DOMAIN cells = DOMAIN doc.cells
      /\ Held(cells) = Held(doc.cells) \ removed
      /\ \A id \in DOMAIN doc.cells : cells[id].val = doc.cells[id].val
  <2> DEFINE old == short.cells
  <2>1. Entries(old) /\ old = doc.cells
    BY <1>6 DEF Document
  <2> HIDE DEF old
  <2>2. /\ Entries(Erased(old, removed)) /\ DOMAIN Erased(old, removed) = DOMAIN old
        /\ Held(Erased(old, removed)) = Held(old) \ removed
        /\ \A id \in DOMAIN old : Erased(old, removed)[id].val = old[id].val
    BY <2>1, ErasedHolds
  <2>3. cells = Erased(old, removed)
    BY DEF old
  <2> HIDE DEF cells
  <2>4. QED
    BY <2>1, <2>2, <2>3
<1> HIDE DEF cells
<1>8. /\ Document(cut, b) /\ cut.cells = cells
      /\ cut.clock = short.clock /\ cut.nodes = short.nodes /\ cut.line = short.line
      /\ cut.heights = short.heights /\ cut.threads = short.threads
  BY <1>6, <1>7, CellsPut
<1> HIDE DEF cut
<1>9. Document(cut, t + Width)
  <2>1. t + Width \in Nat /\ b \in Nat /\ b <= t + Width
    BY <1>1 DEF Document
  <2>2. QED
    BY <1>8, <2>1, DocumentWider
<1>10. Follows(doc, cut, t, 0)
  <2>1. Keeps(doc, cut) /\ NewElements(doc, cut) \subseteq t .. t + Width - 1
    BY <1>6, <1>8 DEF Keeps, NewElements
  <2>2. Ids(doc, DOMAIN doc.nodes) \subseteq Ids(cut, DOMAIN cut.nodes)
    BY <2>1, KeptIds
  <2>3. Named(doc) => Named(cut)
    BY <1>7, <1>8, <2>2 DEF Named
  <2>4. \A N \in Nat : N + 0 = N
    OBVIOUS
  <2>5. \A N \in Nat : N + 0 <= Limit /\ Spanned(doc, N) => Spanned(cut, N + 0)
    BY <1>7, <1>8, <2>4 DEF Spanned
  <2>6. QED
    BY <1>6, <1>8, <1>9, <2>1, <2>3, <2>5 DEF Follows
<1>11. /\ Document(shifted, t + Width) /\ SameRows(cut, shifted)
       /\ shifted.cells = Stamped(cut.cells, f, t)
  <2> DEFINE c == -n
  <2>1. shifted = ShiftedSheet(cut, t, i, c) /\ f = ShiftedFormulas(cut, i, c)
    BY DEF shifted
  <2> HIDE DEF f, c
  <2>2. QED
    BY <1>9, <2>1, ShiftRewrites
<1>12. DOMAIN f = Formulas(cut)
  BY DEF ShiftedFormulas
<1>13. \A id \in Formulas(cut) : \A N \in Nat : cut.cells[id].val.f \in 0 .. N =>
               f[id] \in {Reference(x) : x \in 0 .. N + Reach}
  <2>1. SUFFICES ASSUME NEW id \in Formulas(cut), NEW N \in Nat, cut.cells[id].val.f \in 0 .. N
                 PROVE  f[id] \in {Reference(x) : x \in 0 .. N + Reach}
    OBVIOUS
  <2> DEFINE v == cut.cells[id].val.f
             c == -n
  <2>2. f[id] = Reference(IF v = Gone THEN Gone ELSE ShiftIndex(v, i, c))
    BY DEF ShiftedFormulas
  <2>3. 0 \in 0 .. N + Reach
    BY <1>1 DEF Reach
  <2>4. v # 0 => ShiftIndex(v, i, c) \in 0 .. N + Reach
    <3>1. v # 0 => v \in 1 .. N
      BY <2>1
    <3>2. c \in Int /\ -MaxBlock <= c /\ c <= MaxBlock
      BY <1>1
    <3> HIDE DEF v, c
    <3>3. QED
      BY <1>1, <3>1, <3>2, ShiftReaches
  <2>5. QED
    BY <2>2, <2>3, <2>4 DEF Gone
<1> HIDE DEF f
<1>14. Follows(doc, shifted, t, Reach)
  BY <1>10, <1>11, <1>12, <1>13, RewritesFollow
<1>15. /\ shifted.clock = doc.clock /\ shifted.nodes = cut.nodes /\ shifted.threads = doc.threads
       /\ Held(shifted.cells) = Held(doc.cells) \ removed
  BY <1>6, <1>7, <1>8, <1>11 DEF SameRows
<1>16. /\ Entries(threads) /\ DOMAIN threads = DOMAIN doc.threads
       /\ Held(threads) = Held(doc.threads) \ orphans
       /\ \A th \in DOMAIN doc.threads : threads[th].val = doc.threads[th].val
  <2> DEFINE old == shifted.threads
  <2>1. Entries(old) /\ old = doc.threads
    BY <1>15 DEF Document
  <2>2. threads = Erased(old, orphans)
    OBVIOUS
  <2> HIDE DEF old, orphans
  <2>3. /\ Entries(Erased(old, orphans)) /\ DOMAIN Erased(old, orphans) = DOMAIN old
        /\ Held(Erased(old, orphans)) = Held(old) \ orphans
        /\ \A th \in DOMAIN old : Erased(old, orphans)[th].val = old[th].val
    BY <2>1, ErasedHolds
  <2> HIDE DEF threads
  <2>4. QED
    BY <2>1, <2>2, <2>3
<1>17. orphans = {th \in Held(doc.threads) : doc.threads[th].val \in removed}
  BY <1>15
<1> HIDE DEF threads, orphans
<1>18. /\ Document(d, t + Width) /\ d.threads = threads
       /\ d.clock = shifted.clock /\ d.nodes = shifted.nodes /\ d.line = shifted.line
       /\ d.cells = shifted.cells /\ d.heights = shifted.heights
  BY <1>3, <1>11, <1>16, ThreadsPut
<1>19. Follows(doc, d, t, Reach)
  <2>1. Keeps(doc, d) /\ NewElements(doc, d) \subseteq t .. t + Width - 1
    BY <1>14, <1>18 DEF Follows, Keeps, NewElements
  <2>2. Named(doc) => Named(d)
    BY <1>14, <1>18 DEF Follows, Named, Ids
  <2>3. \A N \in Nat : N + Reach <= Limit /\ Spanned(doc, N) => Spanned(d, N + Reach)
    BY <1>14, <1>18 DEF Follows, Spanned
  <2>4. QED
    BY <1>15, <1>16, <1>18, <2>1, <2>2, <2>3 DEF Follows
<1>20. CleanAfter(doc, d)
  <2>1. /\ d.nodes = short.nodes /\ Live(d) = Live(doc) \ taken
        /\ \A k \in Live(d) : d.nodes[k].id = doc.nodes[k].id
    BY <1>6, <1>8, <1>15, <1>18 DEF Live
  <2>2. Occupied(d) \subseteq Occupied(doc) \ removed
    BY <1>15, <1>16, <1>17, <1>18 DEF Occupied, Held
  <2>3. Ids(doc, Live(doc)) \ removed \subseteq Ids(d, Live(d))
    BY <1>5, <2>1 DEF Ids
  <2>4. Repeated(d, Live(d)) \subseteq Repeated(doc, Live(doc))
    BY <2>1 DEF Repeated
  <2>5. QED
    BY <2>2, <2>3, <2>4 DEF CleanAfter
<1>21. QED
  BY <1>19, <1>20 DEF d

LEMMA MoveRowsFollows ==
    ASSUME NEW doc, NEW b, Document(doc, b), NEW t \in Nat \ {0}, b <= t, Reach <= Limit,
           NEW src \in Indices, NEW n \in 1 .. MaxBlock, NEW dst \in 1 .. MaxRows + 1,
           dst \notin src .. (src + n)
    PROVE  LET d == MoveRows(doc, t, src, n, dst)
           IN  Follows(doc, d, t, Reach) /\ CleanAfter(doc, d)
<1> DEFINE len == MaxOf(src + n - 1, dst - 1)
           g == Grow(doc, t, len)
           last0 == src + n - 1
           ids == SubSeq(Rows(g), src, last0)
           taken == {Shown(g)[j] : j \in src .. MinOf(last0, Len(Shown(g)))}
           cut == [g EXCEPT !.nodes = Erased(@, taken)]
           to == IF dst > src THEN dst - n ELSE dst
           at == t + Limit
           w == InsertBehind(cut, ElementBefore(cut, to), at, ids)
           new == at .. at + n - 1
           f == MovedFormulas(w, src, n, dst)
           d == MoveRows(doc, t, src, n, dst)
<1>1. /\ Limit \in Nat /\ Width \in Nat /\ Width = 2 * Limit /\ MaxRows \in Nat /\ MaxBlock \in Nat
      /\ src \in Nat \ {0} /\ n \in Nat \ {0} /\ n <= Limit /\ dst \in Nat \ {0}
      /\ last0 \in Nat /\ to \in Int /\ at \in Nat \ {0} /\ src <= last0
      /\ len \in 0 .. Limit /\ last0 <= len
  BY LimitIs DEF Indices, Reach, MaxOf
<1>2. Widened(doc, g, t) /\ Len(Shown(g)) >= len
  BY <1>1, GrowWidens
<1>3. d = MovedSheet(w, t, src, n, dst)
  BY DEF MoveRows, MovedSheet, Cut
<1> HIDE DEF d, g, len, to
<1>4. /\ Document(g, at) /\ Keeps(doc, g) /\ NewElements(doc, g) \subseteq t .. t + Limit - 1
      /\ g.clock = doc.clock /\ g.cells = doc.cells /\ g.threads = doc.threads
  BY <1>2 DEF Widened
<1> HIDE DEF at
<1>5. /\ ListsOnce(Shown(g), Live(g)) /\ Len(Shown(g)) \in Nat
      /\ DOMAIN Shown(g) = 1 .. Len(Shown(g)) /\ last0 <= Len(Shown(g))
  BY <1>1, <1>2, <1>4, ShownLists
<1>6. /\ Rows(g) \in Seq(Nat) /\ Len(Rows(g)) = Len(Shown(g))
      /\ \A j \in 1 .. Len(Shown(g)) : /\ Shown(g)[j] \in Live(g)
                                       /\ Rows(g)[j] = g.nodes[Shown(g)[j]].id /\ Rows(g)[j] < at
  BY <1>4, RowsAre
<1>7. /\ ids \in Seq(Nat) /\ Len(ids) = n
      /\ \A j \in 1 .. n : ids[j] = Rows(g)[src + j - 1]
  <2>1. last0 <= Len(Rows(g))
    BY <1>5, <1>6
  <2>2. /\ ids \in Seq(Nat)
        /\ Len(ids) = IF src <= last0 THEN last0 - src + 1 ELSE 0
        /\ \A j \in 1 .. Len(ids) : ids[j] = Rows(g)[src + j - 1]
    BY <1>1, <1>6, <2>1, SubSeqAt
  <2>3. Len(ids) = n
    BY <1>1, <2>2
  <2> HIDE DEF ids
  <2>4. QED
    BY <2>2, <2>3
<1> HIDE DEF ids
<1>8. taken = {Shown(g)[j] : j \in src .. last0}
  <2>1. MinOf(last0, Len(Shown(g))) = last0
    BY <1>1, <1>5 DEF MinOf
  <2>2. QED
    BY <2>1
<1> HIDE DEF taken
<1>9. Document(cut, at) /\ Buries(g, cut, taken)
  BY <1>4, CutOut
<1> HIDE DEF cut
<1>10. ElementBefore(cut, to) \in Tickets(cut.nodes)
  BY <1>1, <1>9, ElementBeforeIs
<1>11. Follows(doc, w, t, 0) /\ Adds(cut, w, at, ids)
  <2> DEFINE after == ElementBefore(cut, to)
  <2>1. at = t + Limit /\ after \in Tickets(cut.nodes)
    BY <1>10 DEF at
  <2>2. /\ Keeps(doc, cut) /\ NewElements(doc, cut) \subseteq t .. t + Limit - 1
        /\ cut.clock = doc.clock /\ cut.cells = doc.cells /\ cut.threads = doc.threads
    BY <1>4, <1>9 DEF Buries, Keeps, NewElements
  <2>3. Len(ids) <= Limit /\ \A j \in 1 .. Len(ids) : ids[j] < t + Width
    <3>1. \A j \in 1 .. n : src + j - 1 \in 1 .. Len(Shown(g))
      BY <1>1, <1>5
    <3>2. \A j \in 1 .. n : ids[j] < at
      BY <1>6, <1>7, <3>1
    <3>3. at <= t + Width /\ at \in Nat /\ t + Width \in Nat
      BY <1>1 DEF at
    <3>4. \A j \in 1 .. n : ids[j] \in Nat
      <4>1. \A x \in 1 .. Len(Shown(g)) : Rows(g)[x] \in Nat
        BY <1>6
      <4>2. QED
        BY <1>7, <3>1, <4>1
    <3>5. \A j \in 1 .. n : ids[j] < t + Width
      BY <3>2, <3>3, <3>4
    <3>6. QED
      BY <1>1, <1>7, <3>5
  <2> HIDE DEF after
  <2>4. Follows(doc, InsertBehind(cut, after, at, ids), t, 0)
        /\ Adds(cut, InsertBehind(cut, after, at, ids), at, ids)
    BY <1>7, <1>9, <2>1, <2>2, <2>3, InsertedFollows
  <2>5. QED
    BY <2>4 DEF after
<1> HIDE DEF w
<1>12. /\ Live(w) = (Live(g) \ taken) \cup new /\ DOMAIN g.nodes \cap new = {}
       /\ \A k \in DOMAIN g.nodes : w.nodes[k].id = g.nodes[k].id
       /\ \A j \in 1 .. n : w.nodes[at + j - 1].id = Rows(g)[src + j - 1]
       /\ w.cells = doc.cells /\ w.threads = doc.threads
  BY <1>4, <1>7, <1>9, <1>11 DEF Adds, Buries
<1> DEFINE Origin(k) == IF k \in new THEN Shown(g)[src + (k - at)] ELSE k
<1>13. \A k \in new : /\ k - at + 1 \in 1 .. n /\ at + (k - at + 1) - 1 = k
                      /\ src + (k - at) \in src .. last0 /\ src + (k - at) \in 1 .. Len(Shown(g))
                      /\ src + (k - at + 1) - 1 = src + (k - at)
  BY <1>1, <1>5
<1>14. ASSUME NEW k \in Live(w)
       PROVE  /\ Origin(k) \in Live(g) /\ w.nodes[k].id = g.nodes[Origin(k)].id
              /\ k \in new => Origin(k) \in taken
              /\ k \notin new => Origin(k) \notin taken
  <2>1. CASE k \in new
    <3>1. w.nodes[k].id = Rows(g)[src + (k - at)]
      <4>1. w.nodes[at + (k - at + 1) - 1].id = Rows(g)[src + (k - at + 1) - 1]
        BY <1>12, <1>13, <2>1
      <4>2. QED
        BY <1>13, <2>1, <4>1
    <3>2. QED
      BY <1>6, <1>8, <1>13, <2>1, <3>1
  <2>2. CASE k \notin new
    BY <1>12, <2>2 DEF Live
  <2>3. QED
    BY <2>1, <2>2
<1>15. ASSUME NEW k \in Live(w), NEW l \in Live(w), Origin(k) = Origin(l)
       PROVE  k = l
  <2>1. CASE k \in new /\ l \in new
    <3>1. src + (k - at) = src + (l - at)
      BY <1>5, <1>13, <1>15, <2>1 DEF ListsOnce, NoRepeats
    <3>2. k \in Int /\ l \in Int /\ at \in Int
      BY <1>1, <2>1
    <3>3. QED
      BY <1>1, <3>1, <3>2
  <2>2. CASE k \notin new /\ l \notin new
    BY <1>15, <2>2
  <2>3. QED
    BY <1>14, <1>15, <2>1, <2>2
<1>16. ASSUME NEW m \in Live(g)
       PROVE  \E k \in Live(w) : Origin(k) = m
  <2>1. CASE m \in taken
    <3>1. PICK j \in src .. last0 : m = Shown(g)[j]
      BY <1>8, <2>1
    <3> DEFINE k == at + (j - src)
    <3>2. k \in new /\ src + (k - at) = j
      BY <1>1, <3>1
    <3> HIDE DEF k
    <3>3. k \in Live(w) /\ Origin(k) = m
      BY <1>12, <3>1, <3>2
    <3>4. QED
      BY <3>3
  <2>2. CASE m \notin taken
    <3>1. m \in Live(w) /\ m \notin new
      BY <1>12, <2>2 DEF Live
    <3>2. Origin(m) = m
      BY <3>1
    <3>3. QED
      BY <3>1, <3>2
  <2>3. QED
    BY <2>1, <2>2
<1> HIDE DEF Origin, new
<1>17. Ids(g, Live(g)) \subseteq Ids(w, Live(w))
  BY <1>14, <1>16 DEF Ids
<1>18. Repeated(w, Live(w)) \subseteq Repeated(g, Live(g))
  BY <1>14, <1>15 DEF Repeated
<1>19. CleanAfter(doc, w)
  <2>1. Occupied(w) = Occupied(doc)
    BY <1>12 DEF Occupied
  <2>2. QED
    BY <1>2, <1>17, <1>18, <2>1 DEF Widened, CleanAfter
<1>20. /\ Document(d, t + Width) /\ SameRows(w, d) /\ d.cells = Stamped(w.cells, f, t)
  <2>1. Document(w, t + Width)
    BY <1>11 DEF Follows
  <2> HIDE DEF f
  <2>2. QED
    BY <1>3, <2>1, MoveRewrites DEF f
<1>21. DOMAIN f = Formulas(w)
  BY DEF MovedFormulas
<1>22. \A id \in Formulas(w) : \A N \in Nat : w.cells[id].val.f \in 0 .. N =>
               f[id] \in {Reference(x) : x \in 0 .. N + Reach}
  <2>1. SUFFICES ASSUME NEW id \in Formulas(w), NEW N \in Nat, w.cells[id].val.f \in 0 .. N
                 PROVE  f[id] \in {Reference(x) : x \in 0 .. N + Reach}
    OBVIOUS
  <2> DEFINE v == w.cells[id].val.f
  <2>2. f[id] = Reference(IF v = Gone THEN Gone ELSE RemapIndex(v, src, n, dst))
    BY DEF MovedFormulas
  <2>3. 0 \in 0 .. N + Reach
    BY <1>1 DEF Reach
  <2>4. v # 0 => RemapIndex(v, src, n, dst) \in 0 .. N + Reach
    <3>1. v # 0 => v \in 1 .. N
      BY <2>1
    <3> HIDE DEF v
    <3>2. QED
      BY <1>1, <3>1, MoveReaches
  <2>5. QED
    BY <2>2, <2>3, <2>4 DEF Gone
<1> HIDE DEF f
<1>23. Follows(doc, d, t, Reach)
  BY <1>11, <1>20, <1>21, <1>22, RewritesFollow
<1>24. CleanAfter(doc, d)
  BY <1>19, <1>20, SameRowsClean
<1>25. QED
  BY <1>23, <1>24 DEF d

\* The call m of client c, whose ticket is later than all of the replica.
LEMMA CallFollows ==
    ASSUME NEW doc, Document(doc, Ceiling(doc)), NEW c \in Clients, MaxChanges # 0, NEW m \in Calls
    PROVE  \E d : /\ Follows(doc, d, Ticket(doc, c), Reach) /\ CleanAfter(doc, d)
                  /\ Apply(doc, c, m) = Committed(d)
<1> DEFINE t == Ticket(doc, c)
           b == Ceiling(doc)
<1>1. Reach <= Limit /\ Limit # 0 /\ Limit \in Nat
  BY LimitIs DEF Reach
<1>2. t \in Nat \ {0} /\ b <= t
  BY <1>1, TicketIs DEF Document
<1>3. \/ m \in [call : {"set", "clear", "height"}, at : Indices]
      \/ m \in [call : {"insert", "delete"}, at : Indices, n : 1 .. MaxBlock]
      \/ /\ m \in [call : {"move"}, at : Indices, n : 1 .. MaxBlock, to : 1 .. MaxRows + 1]
         /\ m.to \notin m.at .. m.at + m.n
  BY DEF Calls
<1>4. Document(doc, b)
  OBVIOUS
<1> HIDE DEF t, b
<1>5. CASE m.call = "set"
  <2>1. m.at \in Indices
    BY <1>3
  <2>2. Apply(doc, c, m) = Committed(SetCell(doc, t, m.at, Value))
    BY <1>5 DEF Apply, t
  <2>3. LET d == SetCell(doc, t, m.at, Value) IN Follows(doc, d, t, Reach) /\ CleanAfter(doc, d)
    BY <1>1, <1>2, <1>4, <2>1, SetCellFollows
  <2>4. QED
    BY <2>2, <2>3 DEF t
<1>6. CASE m.call = "clear"
  <2>1. m.at \in Indices
    BY <1>3
  <2>2. Apply(doc, c, m) = Committed(ClearCell(doc, m.at))
    BY <1>6 DEF Apply, t
  <2>3. LET d == ClearCell(doc, m.at) IN Follows(doc, d, t, Reach) /\ CleanAfter(doc, d)
    BY <1>1, <1>2, <1>4, <2>1, ClearCellFollows
  <2>4. QED
    BY <2>2, <2>3 DEF t
<1>7. CASE m.call = "height"
  <2>1. Apply(doc, c, m) = Committed(SetHeight(doc, t, m.at))
    BY <1>7 DEF Apply, t
  <2>2. LET d == SetHeight(doc, t, m.at) IN Follows(doc, d, t, Reach) /\ CleanAfter(doc, d)
    BY <1>2, <1>4, SetHeightFollows
  <2>3. QED
    BY <2>1, <2>2 DEF t
<1>8. CASE m.call = "insert"
  <2>1. m.at \in Indices /\ m.n \in 1 .. MaxBlock
    BY <1>3, <1>8
  <2>2. Apply(doc, c, m) = Committed(InsertRows(doc, t, m.at, m.n))
    BY <1>8 DEF Apply, t
  <2>3. LET d == InsertRows(doc, t, m.at, m.n) IN Follows(doc, d, t, Reach) /\ CleanAfter(doc, d)
    BY <1>1, <1>2, <1>4, <2>1, InsertRowsFollows
  <2>4. QED
    BY <2>2, <2>3 DEF t
<1>9. CASE m.call = "delete"
  <2>1. m.at \in Indices /\ m.n \in 1 .. MaxBlock
    BY <1>3, <1>9
  <2>2. Apply(doc, c, m) = Committed(DeleteRows(doc, t, m.at, m.n))
    BY <1>9 DEF Apply, t
  <2>3. LET d == DeleteRows(doc, t, m.at, m.n) IN Follows(doc, d, t, Reach) /\ CleanAfter(doc, d)
    BY <1>1, <1>2, <1>4, <2>1, DeleteRowsFollows
  <2>4. QED
    BY <2>2, <2>3 DEF t
<1>10. CASE m.call = "move"
  <2>1. /\ m.at \in Indices /\ m.n \in 1 .. MaxBlock /\ m.to \in 1 .. MaxRows + 1
        /\ m.to \notin m.at .. m.at + m.n
    BY <1>3, <1>10
  <2>2. Apply(doc, c, m) = Committed(MoveRows(doc, t, m.at, m.n, m.to))
    BY <1>10 DEF Apply, t
  <2>3. LET d == MoveRows(doc, t, m.at, m.n, m.to)
        IN  Follows(doc, d, t, Reach) /\ CleanAfter(doc, d)
    <3> DEFINE at == m.at
               n == m.n
               to == m.to
    <3>1. at \in Indices /\ n \in 1 .. MaxBlock /\ to \in 1 .. MaxRows + 1 /\ to \notin at .. (at + n)
      BY <2>1
    <3> HIDE DEF at, n, to
    <3>2. LET d == MoveRows(doc, t, at, n, to)
          IN  Follows(doc, d, t, Reach) /\ CleanAfter(doc, d)
      BY <1>1, <1>2, <1>4, <3>1, MoveRowsFollows
    <3>3. QED
      BY <3>2 DEF at, n, to
  <2>4. QED
    BY <2>2, <2>3 DEF t
<1>11. m.call \in {"set", "clear", "height", "insert", "delete", "move"}
  BY <1>3
<1>12. QED
  BY <1>5, <1>6, <1>7, <1>8, <1>9, <1>10, <1>11

-----------------------------------------------------------------------------
(* What all copies of the sheet keep.                                      *)

\* Threads have the tickets they were made with.
Dated(doc) ==
    \A t \in DOMAIN doc.threads :
        t \in Nat /\ t <= (doc.clock + 1) * Width * Cardinality(Clients)
\* A copy of the sheet after n changes.
Sound(doc, n) ==
    /\ Document(doc, Ceiling(doc)) /\ Named(doc) /\ Dated(doc)
    /\ Spanned(doc, Largest + n * Reach)

Copies == {server} \cup {replica[c] : c \in Clients}

\* What two copies both have they have alike.
Agree(a, b) ==
    \A k \in DOMAIN a.nodes \cap DOMAIN b.nodes :
        a.nodes[k].id = b.nodes[k].id /\ a.nodes[k].after = b.nodes[k].after

\* The tickets that client c uses at clock n.
Block(n, c) ==
    LET t == ((n + 1) * Cardinality(Clients) + c) * Width IN t .. t + Width - 1
\* Nobody has an element whose ticket client c may still use.
Unclaimed(c) ==
    \A n \in Nat : n >= replica[c].clock =>
        \A doc \in Copies : DOMAIN doc.nodes \cap Block(n, c) = {}

\* An open composer, repainted since the last merge, knows where its row is.
Pinned(c) ==
    painted[c] /\ composer[c] # None =>
        /\ composer[c].at \in DOMAIN Rows(replica[c])
        /\ Rows(replica[c])[composer[c].at] = composer[c].row

SheetsInv ==
    /\ replica = [c \in Clients |-> replica[c]] /\ changes \in 0 .. MaxChanges
    /\ \A doc \in Copies : Sound(doc, changes)
    /\ \A a, b \in Copies : Agree(a, b)
    /\ \A c \in Clients : Unclaimed(c)
ComposersInv ==
    /\ composer \in [Clients -> {None} \cup [row : Nat, at : Nat \ {0}]]
    /\ painted \in [Clients -> BOOLEAN]
    /\ \A c \in Clients : Pinned(c)

\* Two clients, or one at two times, never use the same ticket.
LEMMA BlocksApart ==
    ASSUME NEW n \in Nat, NEW m \in Nat, NEW c \in Clients, NEW e \in Clients,
           n # m \/ c # e
    PROVE  Block(n, c) \cap Block(m, e) = {}
<1> DEFINE C == Cardinality(Clients)
           q == (n + 1) * C + c
           r == (m + 1) * C + e
<1>1. C \in Nat /\ c \in 1 .. C /\ e \in 1 .. C
  BY ClientsAssumption
<1>2. Width \in Nat
  BY LimitIs
<1>3. ASSUME NEW x \in Nat, NEW y \in Nat, x < y, NEW a \in 1 .. C, NEW b \in 1 .. C
      PROVE  (x + 1) * C + a < (y + 1) * C + b
  <2>1. (x + 1 + 1) * C <= (y + 1) * C
    BY <1>1, <1>3, TimesMonotone
  <2>2. (x + 1 + 1) * C = (x + 1) * C + C /\ (x + 1) * C \in Nat /\ (y + 1) * C \in Nat
    BY <1>1
  <2>3. QED
    BY <1>1, <2>1, <2>2
<1>4. (n + 1) * C \in Nat /\ (m + 1) * C \in Nat
  BY <1>1
<1>5. q \in Nat /\ r \in Nat /\ q # r
  <2>1. CASE n < m
    BY <1>1, <1>3, <1>4, <2>1
  <2>2. CASE m < n
    BY <1>1, <1>3, <1>4, <2>2
  <2>3. CASE n = m
    BY <1>1, <1>4, <2>3
  <2>4. QED
    BY <2>1, <2>2, <2>3
<1>6. ASSUME NEW x \in Nat, NEW y \in Nat, x < y
      PROVE  x * Width + Width <= y * Width /\ x * Width \in Nat /\ y * Width \in Nat
  <2>1. (x + 1) * Width <= y * Width /\ x * Width \in Nat /\ y * Width \in Nat
    BY <1>2, <1>6, TimesMonotone
  <2>2. (x + 1) * Width = x * Width + Width
    BY <1>2
  <2>3. QED
    BY <2>1, <2>2
<1>7. Block(n, c) = q * Width .. q * Width + Width - 1
      /\ Block(m, e) = r * Width .. r * Width + Width - 1
  BY DEF Block
<1> HIDE DEF q, r
<1>8. CASE q < r
  <2>1. q * Width + Width <= r * Width /\ q * Width \in Nat /\ r * Width \in Nat
    BY <1>5, <1>6, <1>8
  <2>2. QED
    BY <1>2, <1>7, <2>1
<1>9. CASE r < q
  <2>1. r * Width + Width <= q * Width /\ q * Width \in Nat /\ r * Width \in Nat
    BY <1>5, <1>6, <1>9
  <2>2. QED
    BY <1>2, <1>7, <2>1
<1>10. QED
  BY <1>5, <1>8, <1>9

\* The clock goes on with every change.
LEMMA Advanced ==
    ASSUME NEW doc, Document(doc, Ceiling(doc)), Dated(doc), NEW c \in Clients, NEW r,
           NEW d, Follows(doc, d, Ticket(doc, c), r)
    PROVE  LET e == Committed(d)
           IN  /\ Document(e, Ceiling(e)) /\ Dated(e) /\ e.clock = doc.clock + 1
               /\ e.nodes = d.nodes /\ e.line = d.line /\ e.cells = d.cells
               /\ e.threads = d.threads
               /\ Keeps(doc, e) /\ NewElements(doc, e) \subseteq Block(doc.clock, c)
<1> DEFINE t == Ticket(doc, c)
           C == Cardinality(Clients)
           e == Committed(d)
<1>1. /\ Document(d, t + Width) /\ d.clock = doc.clock
      /\ Keeps(doc, d) /\ NewElements(doc, d) \subseteq t .. t + Width - 1
      /\ DOMAIN d.threads \subseteq DOMAIN doc.threads \cup {t}
  BY DEF Follows
<1>2. e = [clock |-> d.clock + 1, nodes |-> d.nodes, line |-> d.line, cells |-> d.cells,
           heights |-> d.heights, threads |-> d.threads]
  BY <1>1 DEF Document, Committed
<1> HIDE DEF e
<1>3. /\ e.clock = d.clock + 1 /\ e.nodes = d.nodes /\ e.line = d.line /\ e.cells = d.cells
      /\ e.heights = d.heights /\ e.threads = d.threads
  BY <1>2
<1>4. doc.clock \in Nat /\ Width \in Nat /\ C \in Nat /\ c \in 1 .. C
  BY ClientsAssumption, LimitIs DEF Document
<1>5. /\ t \in Nat /\ Ceiling(e) \in Nat /\ t + Width <= Ceiling(e)
  <2>1. t \in Nat /\ t + Width <= ((doc.clock + 1 + 1) * C + 1) * Width
    BY <1>4, TicketIs
  <2>2. e.clock \in Nat /\ Ceiling(e) = ((doc.clock + 1 + 1) * C + 1) * Width
    BY <1>1, <1>3, <1>4 DEF Ceiling
  <2>3. Ceiling(e) \in Nat
    BY <2>2, TicketIs, <1>4
  <2>4. QED
    BY <2>1, <2>2, <2>3
<1>6. Document(e, t + Width)
  <2>1. e.clock \in Nat
    BY <1>1, <1>3, <1>4
  <2>2. QED
    BY <1>1, <1>2, <1>3, <2>1 DEF Document
<1>7. Document(e, Ceiling(e))
  BY <1>5, <1>6, DocumentWider
<1>8. Dated(e)
  <2> DEFINE old == (doc.clock + 1) * Width * C
             now == (e.clock + 1) * Width * C
             p == (doc.clock + 1) * C
  <2>1. p \in Nat /\ old = p * Width /\ now = (p + C) * Width
    BY <1>1, <1>3, <1>4
  <2>2. t = (p + c) * Width
    BY DEF Ticket
  <2> HIDE DEF p, t, old, now
  <2>3. /\ p * Width \in Nat /\ (p + C) * Width \in Nat /\ p * Width <= (p + C) * Width
        /\ (p + c) * Width <= (p + C) * Width
    BY <1>4, <2>1, TimesMonotone
  <2>4. old \in Nat /\ now \in Nat /\ old <= now /\ t <= now
    BY <2>1, <2>2, <2>3
  <2>5. \A th \in DOMAIN doc.threads : th \in Nat /\ th <= old
    BY DEF Dated, old
  <2>6. \A th \in DOMAIN e.threads : th \in Nat /\ th <= now
    BY <1>1, <1>3, <1>5, <2>4, <2>5
  <2>7. QED
    BY <2>6 DEF Dated, now
<1>9. Keeps(doc, e) /\ NewElements(doc, e) \subseteq Block(doc.clock, c)
  BY <1>1, <1>3 DEF Keeps, NewElements, Block, Ticket
<1>10. QED
  BY <1>1, <1>3, <1>7, <1>8, <1>9 DEF e

LEMMA LatestIs ==
    ASSUME NEW a, NEW b, Entry(a), Entry(b)
    PROVE  /\ Entry(Latest(a, b))
           /\ Latest(a, b).val \in {a.val, b.val}
           /\ Latest(a, b).live => a.live \/ b.live
<1>1. /\ a = [at |-> a.at, val |-> a.val, live |-> a.live] /\ a.live \in BOOLEAN
      /\ b = [at |-> b.at, val |-> b.val, live |-> b.live] /\ b.live \in BOOLEAN
  BY DEF Entry
<1> DEFINE both == [a EXCEPT !.live = a.live /\ b.live]
<1>2. both = [at |-> a.at, val |-> a.val, live |-> a.live /\ b.live]
  BY <1>1
<1>3. Entry(both) /\ both.val = a.val /\ (both.live => a.live)
  <2> HIDE DEF both
  <2>1. both.at = a.at /\ both.val = a.val /\ both.live = (a.live /\ b.live)
    BY <1>2
  <2>2. QED
    BY <1>2, <2>1 DEF Entry
<1>4. Latest(a, b) \in {a, b, both}
  BY DEF Latest
<1> HIDE DEF both
<1>5. QED
  BY <1>3, <1>4

\* r holds what f and g hold, and nothing of its own.
Merged(r, f, g) ==
    /\ Entries(r) /\ DOMAIN r = DOMAIN f \cup DOMAIN g
    /\ Held(r) \subseteq Held(f) \cup Held(g)
    /\ \A k \in DOMAIN r : \/ k \in DOMAIN f /\ r[k].val = f[k].val
                           \/ k \in DOMAIN g /\ r[k].val = g[k].val

LEMMA RecordsMerged ==
    ASSUME NEW f, NEW g, Entries(f), Entries(g)
    PROVE  Merged(MergeRecords(f, g), f, g)
<1> DEFINE r == MergeRecords(f, g)
<1>1. DOMAIN r = DOMAIN f \cup DOMAIN g
  BY DEF MergeRecords
<1>2. ASSUME NEW k \in DOMAIN r
      PROVE  /\ Entry(r[k])
             /\ \/ k \in DOMAIN f /\ r[k].val = f[k].val
                \/ k \in DOMAIN g /\ r[k].val = g[k].val
             /\ r[k].live => k \in Held(f) \cup Held(g)
  <2>1. r[k] = IF k \notin DOMAIN f THEN g[k] ELSE IF k \notin DOMAIN g THEN f[k]
               ELSE Latest(f[k], g[k])
    BY <1>1 DEF MergeRecords
  <2> HIDE DEF r
  <2>2. (k \in DOMAIN f => Entry(f[k])) /\ (k \in DOMAIN g => Entry(g[k]))
    BY DEF Entries
  <2>3. CASE k \notin DOMAIN f
    BY <1>1, <2>1, <2>2, <2>3 DEF Held
  <2>4. CASE k \in DOMAIN f /\ k \notin DOMAIN g
    BY <2>1, <2>2, <2>4 DEF Held
  <2>5. CASE k \in DOMAIN f /\ k \in DOMAIN g
    <3>1. r[k] = Latest(f[k], g[k])
      BY <2>1, <2>5
    <3>2. /\ Entry(r[k]) /\ r[k].val \in {f[k].val, g[k].val}
          /\ r[k].live => f[k].live \/ g[k].live
      BY <2>2, <2>5, <3>1, LatestIs
    <3>3. QED
      BY <2>5, <3>2 DEF Held
  <2>6. QED
    BY <2>3, <2>4, <2>5
<1> HIDE DEF r
<1>3. Entries(r) /\ Held(r) \subseteq Held(f) \cup Held(g)
  BY <1>2 DEF Entries, Held
<1>4. Merged(r, f, g)
  BY <1>1, <1>2, <1>3 DEF Merged
<1>5. QED
  BY <1>4 DEF r

\* The elements f and g both have are the same elements.
SameElements(f, g) ==
    \A k \in DOMAIN f \cap DOMAIN g : f[k].id = g[k].id /\ f[k].after = g[k].after

LEMMA NodesMerged ==
    ASSUME NEW f, NEW g, NEW b, OfElements(f, b), OfElements(g, b), SameElements(f, g)
    PROVE  LET r == MergeRecords(f, g)
           IN  /\ OfElements(r, b) /\ DOMAIN r = DOMAIN f \cup DOMAIN g
               /\ SameElements(r, f) /\ SameElements(r, g)
<1> DEFINE r == MergeRecords(f, g)
<1>1. DOMAIN r = DOMAIN f \cup DOMAIN g
  BY DEF MergeRecords
<1>2. ASSUME NEW k \in DOMAIN r
      PROVE  /\ Element(r, k, b)
             /\ k \in DOMAIN f => r[k].id = f[k].id /\ r[k].after = f[k].after
             /\ k \in DOMAIN g => r[k].id = g[k].id /\ r[k].after = g[k].after
  <2>1. r[k] = IF k \notin DOMAIN f THEN g[k] ELSE IF k \notin DOMAIN g THEN f[k]
               ELSE Latest(f[k], g[k])
    BY <1>1 DEF MergeRecords
  <2> HIDE DEF r
  <2>2. (k \in DOMAIN f => Element(f, k, b)) /\ (k \in DOMAIN g => Element(g, k, b))
    BY DEF OfElements
  <2>3. Tickets(f) \subseteq Tickets(r) /\ Tickets(g) \subseteq Tickets(r)
    BY <1>1 DEF Tickets
  <2>4. CASE k \notin DOMAIN f
    BY <1>1, <2>1, <2>2, <2>3, <2>4 DEF Element
  <2>5. CASE k \in DOMAIN f /\ k \notin DOMAIN g
    BY <2>1, <2>2, <2>3, <2>5 DEF Element
  <2>6. CASE k \in DOMAIN f /\ k \in DOMAIN g
    <3> DEFINE e == f[k]
               o == g[k]
    <3>0. o.id = e.id /\ o.after = e.after
      BY <2>6 DEF SameElements
    <3>1. /\ e = [id |-> e.id, at |-> e.at, live |-> e.live, after |-> e.after]
          /\ k < b /\ e.id \in Nat /\ e.id < b /\ e.at = k /\ e.live \in BOOLEAN
          /\ e.after \in Tickets(f) /\ e.after < k
          /\ o.at = k /\ o.live \in BOOLEAN
      BY <2>2, <2>6 DEF Element
    <3>2. k \in Nat
      BY <2>6 DEF OfElements
    <3>3. r[k] = [e EXCEPT !.live = e.live /\ o.live]
      BY <2>1, <2>6, <3>1, <3>2 DEF Latest
    <3>4. r[k] = [id |-> e.id, at |-> e.at, live |-> e.live /\ o.live, after |-> e.after]
      BY <3>1, <3>3
    <3>5. /\ r[k].id = e.id /\ r[k].at = e.at /\ r[k].live \in BOOLEAN /\ r[k].after = e.after
          /\ r[k].live = (e.live /\ o.live)
      BY <3>4
    <3>6. Element(r, k, b)
      BY <2>3, <3>1, <3>4, <3>5 DEF Element
    <3>7. QED
      BY <2>6, <3>0, <3>5, <3>6
  <2>7. QED
    BY <2>4, <2>5, <2>6
<1> HIDE DEF r
<1>3. OfElements(r, b)
  BY <1>1, <1>2 DEF OfElements
<1>4. SameElements(r, f) /\ SameElements(r, g)
  BY <1>1, <1>2 DEF SameElements
<1>5. QED
  BY <1>1, <1>3, <1>4 DEF r

\* Copies that agree merge into one that agrees with whatever they agree with.
LEMMA MergeSound ==
    ASSUME NEW a, NEW b, NEW n \in Nat, Sound(a, n), Sound(b, n), Agree(a, b)
    PROVE  LET m == Merge(a, b)
           IN  /\ Sound(m, n) /\ DOMAIN m.nodes = DOMAIN a.nodes \cup DOMAIN b.nodes
               /\ a.clock <= m.clock /\ b.clock <= m.clock /\ m.clock \in Nat
               /\ \A x : Agree(a, x) /\ Agree(b, x) => Agree(m, x)
<1> DEFINE m == Merge(a, b)
           C == Cardinality(Clients)
           B == Ceiling(m)
<1>1. /\ m = [clock |-> m.clock, nodes |-> m.nodes, line |-> m.line, cells |-> m.cells,
              heights |-> m.heights, threads |-> m.threads]
      /\ m.clock = MaxOf(a.clock, b.clock)
      /\ m.nodes = MergeRecords(a.nodes, b.nodes)
      /\ m.line = IF DOMAIN b.nodes \subseteq DOMAIN a.nodes THEN a.line
                  ELSE IF DOMAIN a.nodes \subseteq DOMAIN b.nodes THEN b.line
                  ELSE Lined(MergeRecords(a.nodes, b.nodes))
      /\ m.cells = MergeRecords(a.cells, b.cells)
      /\ m.heights = MergeRecords(a.heights, b.heights)
      /\ m.threads = MergeRecords(a.threads, b.threads)
  BY DEF Merge
<1> HIDE DEF m
<1>2. Document(a, Ceiling(a)) /\ Document(b, Ceiling(b))
  BY DEF Sound
<1>3. /\ a.clock \in Nat /\ b.clock \in Nat /\ m.clock \in Nat
      /\ a.clock <= m.clock /\ b.clock <= m.clock
  BY <1>1, <1>2 DEF Document, MaxOf
<1>4. C \in Nat /\ Width \in Nat /\ Limit \in Nat
  BY ClientsAssumption, LimitIs
<1>5. ASSUME NEW x \in Nat, NEW y \in Nat, x <= y
      PROVE  /\ ((x + 1) * C + 1) * Width <= ((y + 1) * C + 1) * Width
             /\ ((y + 1) * C + 1) * Width \in Nat
             /\ (x + 1) * Width * C \in Nat /\ (y + 1) * Width * C \in Nat
             /\ (x + 1) * Width * C <= (y + 1) * Width * C
  <2>1. (x + 1) * C \in Nat /\ (y + 1) * C \in Nat /\ (x + 1) * C <= (y + 1) * C
    BY <1>4, <1>5, TimesMonotone
  <2>2. ((x + 1) * C + 1) * Width <= ((y + 1) * C + 1) * Width /\ ((y + 1) * C + 1) * Width \in Nat
    BY <1>4, <2>1, TimesMonotone
  <2>3. (x + 1) * Width \in Nat /\ (y + 1) * Width \in Nat /\ (x + 1) * Width <= (y + 1) * Width
    BY <1>4, <1>5, TimesMonotone
  <2>4. (x + 1) * Width * C \in Nat /\ (y + 1) * Width * C \in Nat
        /\ (x + 1) * Width * C <= (y + 1) * Width * C
    BY <1>4, <2>3, TimesMonotone
  <2>5. QED
    BY <2>2, <2>4
<1>6. B \in Nat /\ Ceiling(a) <= B /\ Ceiling(b) <= B
  BY <1>3, <1>5 DEF Ceiling
<1> HIDE DEF B
<1>7. Document(a, B) /\ Document(b, B)
  BY <1>2, <1>6, DocumentWider
<1>8. /\ OfElements(m.nodes, B) /\ DOMAIN m.nodes = DOMAIN a.nodes \cup DOMAIN b.nodes
      /\ \A k \in DOMAIN a.nodes : /\ m.nodes[k].id = a.nodes[k].id
                                   /\ m.nodes[k].after = a.nodes[k].after
      /\ \A k \in DOMAIN b.nodes : /\ m.nodes[k].id = b.nodes[k].id
                                   /\ m.nodes[k].after = b.nodes[k].after
  <2> DEFINE f == a.nodes
             g == b.nodes
  <2>1. OfElements(f, B) /\ OfElements(g, B)
    BY <1>7 DEF Document
  <2>2. SameElements(f, g)
    BY DEF Agree, SameElements
  <2>3. m.nodes = MergeRecords(f, g)
    BY <1>1
  <2> HIDE DEF f, g
  <2>4. /\ OfElements(m.nodes, B) /\ DOMAIN m.nodes = DOMAIN f \cup DOMAIN g
        /\ SameElements(m.nodes, f) /\ SameElements(m.nodes, g)
    BY <2>1, <2>2, <2>3, NodesMerged
  <2>5. QED
    BY <2>4 DEF f, g, SameElements
<1>9. m.line = Lined(m.nodes)
  <2>1. /\ Numbered(a.nodes) /\ a.line = Lined(a.nodes)
        /\ Numbered(b.nodes) /\ b.line = Lined(b.nodes)
    BY <1>2, DocumentNumbered DEF Document
  <2>2. CASE DOMAIN b.nodes \subseteq DOMAIN a.nodes
    <3>1. DOMAIN m.nodes = DOMAIN a.nodes
      BY <1>8, <2>2
    <3>2. \A k \in DOMAIN a.nodes : a.nodes[k].after = m.nodes[k].after
      BY <1>8
    <3>3. Lined(m.nodes) = Lined(a.nodes)
      BY <2>1, <3>1, <3>2, LinedSame
    <3>4. QED
      BY <1>1, <2>1, <2>2, <3>3
  <2>3. CASE /\ ~(DOMAIN b.nodes \subseteq DOMAIN a.nodes)
             /\ DOMAIN a.nodes \subseteq DOMAIN b.nodes
    <3>1. DOMAIN m.nodes = DOMAIN b.nodes
      BY <1>8, <2>3
    <3>2. \A k \in DOMAIN b.nodes : b.nodes[k].after = m.nodes[k].after
      BY <1>8
    <3>3. Lined(m.nodes) = Lined(b.nodes)
      BY <2>1, <3>1, <3>2, LinedSame
    <3>4. QED
      BY <1>1, <2>1, <2>3, <3>3
  <2>4. QED
    BY <1>1, <2>2, <2>3
<1>10. /\ Entries(m.cells) /\ Entries(m.heights) /\ Entries(m.threads)
       /\ DOMAIN m.cells = DOMAIN a.cells \cup DOMAIN b.cells
       /\ Held(m.cells) \subseteq Held(a.cells) \cup Held(b.cells)
       /\ \A k \in DOMAIN m.cells : \/ k \in DOMAIN a.cells /\ m.cells[k].val = a.cells[k].val
                                    \/ k \in DOMAIN b.cells /\ m.cells[k].val = b.cells[k].val
       /\ DOMAIN m.threads = DOMAIN a.threads \cup DOMAIN b.threads
  <2>1. /\ Entries(a.cells) /\ Entries(a.heights) /\ Entries(a.threads)
        /\ Entries(b.cells) /\ Entries(b.heights) /\ Entries(b.threads)
    BY <1>2 DEF Document
  <2>2. Merged(m.heights, a.heights, b.heights)
    BY <1>1, <2>1, RecordsMerged
  <2>3. Merged(m.threads, a.threads, b.threads)
    BY <1>1, <2>1, RecordsMerged
  <2>4. Merged(m.cells, a.cells, b.cells)
    BY <1>1, <2>1, RecordsMerged
  <2>5. QED
    BY <2>2, <2>3, <2>4 DEF Merged
<1>11. Document(m, B)
  BY <1>1, <1>3, <1>6, <1>8, <1>9, <1>10 DEF Document
<1>12. Named(m)
  <2>1. Held(a.cells) \subseteq Ids(a, DOMAIN a.nodes) /\ Held(b.cells) \subseteq Ids(b, DOMAIN b.nodes)
    BY DEF Sound, Named
  <2>2. Ids(a, DOMAIN a.nodes) \subseteq Ids(m, DOMAIN m.nodes)
    BY <1>8 DEF Ids
  <2>3. Ids(b, DOMAIN b.nodes) \subseteq Ids(m, DOMAIN m.nodes)
    BY <1>8 DEF Ids
  <2>4. QED
    BY <1>10, <2>1, <2>2, <2>3 DEF Named
<1>13. Dated(m)
  <2> DEFINE top(x) == (x.clock + 1) * Width * C
  <2>1. /\ top(a) \in Nat /\ top(b) \in Nat /\ top(m) \in Nat
        /\ top(a) <= top(m) /\ top(b) <= top(m)
    BY <1>3, <1>5
  <2>2. /\ \A th \in DOMAIN a.threads : th \in Nat /\ th <= top(a)
        /\ \A th \in DOMAIN b.threads : th \in Nat /\ th <= top(b)
    BY DEF Sound, Dated
  <2> HIDE DEF top
  <2>3. \A th \in DOMAIN m.threads : th \in Nat /\ th <= top(m)
    BY <1>10, <2>1, <2>2
  <2>4. QED
    BY <2>3 DEF Dated, top
<1>14. Spanned(m, Largest + n * Reach)
  BY <1>10 DEF Sound, Spanned
<1>15. Sound(m, n)
  BY <1>11, <1>12, <1>13, <1>14 DEF Sound, B
<1>16. ASSUME NEW x, Agree(a, x), Agree(b, x)
       PROVE  Agree(m, x)
  BY <1>8, <1>16 DEF Agree
<1>17. QED
  BY <1>3, <1>8, <1>15, <1>16 DEF m

LEMMA SoundOn ==
    ASSUME NEW doc, NEW n \in Nat, NEW m \in Nat, n <= m, Sound(doc, n)
    PROVE  Sound(doc, m)
<1>1. Reach \in Nat /\ Largest \in Nat
  BY LimitIs, LargestIs DEF Reach
<1>2. n * Reach \in Nat /\ m * Reach \in Nat /\ n * Reach <= m * Reach
  BY <1>1, TimesMonotone
<1>3. Largest + n * Reach \in Nat /\ Largest + m * Reach \in Nat
      /\ Largest + n * Reach <= Largest + m * Reach
  BY <1>1, <1>2
<1>4. Contents(Largest + n * Reach) \subseteq Contents(Largest + m * Reach)
  BY <1>3, ContentsGrow
<1>5. Spanned(doc, Largest + m * Reach)
  BY <1>4 DEF Sound, Spanned
<1>6. QED
  BY <1>5 DEF Sound

\* What client c's replica may become by a change of c's own.
Succeeds(e, doc, c) ==
    /\ e.clock = doc.clock + 1
    /\ Keeps(doc, e) /\ NewElements(doc, e) \subseteq Block(doc.clock, c)

LEMMA ReplicaAdvances ==
    ASSUME SheetsInv, NEW c \in Clients, NEW e, Succeeds(e, replica[c], c),
           changes' \in 0 .. MaxChanges, changes <= changes', Sound(e, changes'),
           replica' = [replica EXCEPT ![c] = e], server' = server
    PROVE  SheetsInv'
<1> DEFINE doc == replica[c]
<1>1. /\ replica' = [x \in Clients |-> replica'[x]] /\ replica'[c] = e
      /\ \A x \in Clients \ {c} : replica'[x] = replica[x]
  BY DEF SheetsInv
<1>2. /\ doc \in Copies /\ doc.clock \in Nat
      /\ \A x \in Clients : replica[x] \in Copies /\ replica[x].clock \in Nat
  BY DEF Copies, SheetsInv, Sound, Document
<1>3. Copies' \subseteq Copies \cup {e}
  BY <1>1 DEF Copies
<1>4. changes \in Nat /\ changes' \in Nat
  BY LimitIs DEF SheetsInv
<1>5. \A x \in Copies' : Sound(x, changes')
  BY <1>3, <1>4, SoundOn DEF SheetsInv
<1>6. ASSUME NEW x \in Copies
      PROVE  Agree(e, x) /\ Agree(x, e)
  <2>1. Agree(doc, x) /\ DOMAIN x.nodes \cap Block(doc.clock, c) = {}
    BY <1>2 DEF SheetsInv, Unclaimed
  <2>2. \A k \in DOMAIN e.nodes \cap DOMAIN x.nodes : k \in DOMAIN doc.nodes
    BY <2>1 DEF Succeeds, NewElements
  <2>3. QED
    BY <2>1, <2>2 DEF Agree, Succeeds, Keeps
<1>7. \A x, y \in Copies' : Agree(x, y)
  <2>1. Agree(e, e)
    BY DEF Agree
  <2>2. QED
    BY <1>3, <1>6, <2>1 DEF SheetsInv
<1>8. ASSUME NEW x \in Clients, NEW n \in Nat, n >= replica'[x].clock, NEW y \in Copies'
      PROVE  DOMAIN y.nodes \cap Block(n, x) = {}
  <2>1. n >= replica[x].clock /\ (x = c => n # doc.clock)
    <3>1. CASE x = c
      BY <1>1, <1>2, <1>8, <3>1 DEF Succeeds
    <3>2. CASE x # c
      BY <1>1, <1>8, <3>2
    <3>3. QED
      BY <3>1, <3>2
  <2>2. \A z \in Copies : DOMAIN z.nodes \cap Block(n, x) = {}
    BY <2>1 DEF SheetsInv, Unclaimed
  <2>3. CASE y \in Copies
    BY <2>2, <2>3
  <2>4. CASE y = e
    <3>1. Block(doc.clock, c) \cap Block(n, x) = {}
      BY <1>2, <2>1, BlocksApart
    <3>2. DOMAIN e.nodes \subseteq DOMAIN doc.nodes \cup Block(doc.clock, c)
      BY DEF Succeeds, NewElements
    <3>3. QED
      BY <1>2, <2>2, <2>4, <3>1, <3>2
  <2>5. QED
    BY <1>3, <2>3, <2>4
<1>9. \A x \in Clients : Unclaimed(x)'
  BY <1>8 DEF Unclaimed, Block
<1>10. QED
  BY <1>1, <1>5, <1>7, <1>9 DEF SheetsInv, Sound, Agree, Document, Named, Dated, Spanned

\* An exchange with the server.
LEMMA SyncKeeps ==
    ASSUME SheetsInv, NEW c \in Clients, Sync(c)
    PROVE  SheetsInv'
<1> DEFINE m == Merge(server, replica[c])
<1>1. server' = m /\ replica' = [replica EXCEPT ![c] = m] /\ changes' = changes
  BY DEF Sync
<1>2. /\ server \in Copies /\ replica[c] \in Copies
      /\ \A x \in Clients : replica[x] \in Copies /\ replica[x].clock \in Nat
  BY DEF Copies, SheetsInv, Sound, Document
<1>3. /\ Sound(server, changes) /\ Sound(replica[c], changes) /\ Agree(server, replica[c])
      /\ changes \in Nat
  BY <1>2, LimitIs DEF SheetsInv
<1>4. /\ Sound(m, changes) /\ DOMAIN m.nodes = DOMAIN server.nodes \cup DOMAIN replica[c].nodes
      /\ replica[c].clock <= m.clock /\ m.clock \in Nat
      /\ \A x : Agree(server, x) /\ Agree(replica[c], x) => Agree(m, x)
  <2> DEFINE a == server
             b == replica[c]
  <2>1. Sound(a, changes) /\ Sound(b, changes) /\ Agree(a, b)
    BY <1>3
  <2> HIDE DEF a, b
  <2>2. LET r == Merge(a, b)
        IN  /\ Sound(r, changes) /\ DOMAIN r.nodes = DOMAIN a.nodes \cup DOMAIN b.nodes
            /\ a.clock <= r.clock /\ b.clock <= r.clock /\ r.clock \in Nat
            /\ \A x : Agree(a, x) /\ Agree(b, x) => Agree(r, x)
    BY <1>3, <2>1, MergeSound
  <2>3. QED
    BY <2>2 DEF a, b
<1> HIDE DEF m
<1>5. /\ replica' = [x \in Clients |-> replica'[x]] /\ replica'[c] = m
      /\ \A x \in Clients \ {c} : replica'[x] = replica[x]
  BY <1>1 DEF SheetsInv
<1>6. Copies' \subseteq Copies \cup {m}
  BY <1>1, <1>5 DEF Copies
<1>7. \A x \in Copies' : Sound(x, changes')
  BY <1>1, <1>4, <1>6 DEF SheetsInv
<1>8. \A x, y \in Copies' : Agree(x, y)
  <2>1. Agree(m, m)
    BY DEF Agree
  <2>2. \A x \in Copies : Agree(m, x)
    BY <1>2, <1>4 DEF SheetsInv
  <2>3. \A x \in Copies : Agree(x, m)
    BY <2>2 DEF Agree
  <2>4. QED
    BY <1>6, <2>1, <2>2, <2>3 DEF SheetsInv
<1>9. ASSUME NEW x \in Clients, NEW n \in Nat, n >= replica'[x].clock, NEW y \in Copies'
      PROVE  DOMAIN y.nodes \cap Block(n, x) = {}
  <2>1. n >= replica[x].clock
    <3>1. CASE x = c
      BY <1>2, <1>4, <1>5, <1>9, <3>1
    <3>2. CASE x # c
      BY <1>5, <1>9, <3>2
    <3>3. QED
      BY <3>1, <3>2
  <2>2. \A z \in Copies : DOMAIN z.nodes \cap Block(n, x) = {}
    BY <2>1 DEF SheetsInv, Unclaimed
  <2>3. CASE y \in Copies
    BY <2>2, <2>3
  <2>4. CASE y = m
    BY <1>2, <1>4, <2>2, <2>4
  <2>5. QED
    BY <1>6, <2>3, <2>4
<1>10. \A x \in Clients : Unclaimed(x)'
  BY <1>9 DEF Unclaimed, Block
<1>11. QED
  BY <1>1, <1>5, <1>7, <1>8, <1>10 DEF SheetsInv, Sound, Agree, Document, Named, Dated, Spanned

\* A change of one client, whatever call it is: d is the replica after the call, and e
\* with its clock advanced.
Makes(c, d, e, r) ==
    /\ Follows(replica[c], d, Ticket(replica[c], c), r) /\ CleanAfter(replica[c], d)
    /\ e = Committed(d)
    /\ changes' \in 0 .. MaxChanges /\ changes <= changes'
    /\ changes' * Reach = changes * Reach + r
    /\ replica' = [replica EXCEPT ![c] = e] /\ server' = server

LEMMA ChangeKeeps ==
    ASSUME SheetsInv, NEW c \in Clients, NEW d, NEW e, NEW r \in Nat, Makes(c, d, e, r)
    PROVE  /\ SheetsInv'
           /\ Orphans(e) \subseteq Orphans(replica[c]) /\ Twice(e) \subseteq Twice(replica[c])
           /\ Shown(e) = Shown(d) /\ Rows(e) = Rows(d)
           /\ Document(e, Ceiling(e)) /\ e.threads = d.threads
<1> DEFINE doc == replica[c]
           n == changes'
<1>1. /\ Follows(doc, d, Ticket(doc, c), r) /\ CleanAfter(doc, d) /\ e = Committed(d)
      /\ changes' \in 0 .. MaxChanges /\ changes <= changes'
      /\ replica' = [replica EXCEPT ![c] = e] /\ server' = server
  BY DEF Makes
<1>2. n * Reach = changes * Reach + r
  BY DEF Makes
<1>3. Sound(doc, changes) /\ changes \in Nat /\ n \in 0 .. MaxChanges
  BY <1>1, LimitIs DEF SheetsInv, Copies
<1> HIDE DEF n
<1>4. /\ Document(e, Ceiling(e)) /\ Dated(e) /\ e.clock = doc.clock + 1
      /\ e.nodes = d.nodes /\ e.line = d.line /\ e.cells = d.cells /\ e.threads = d.threads
      /\ Keeps(doc, e) /\ NewElements(doc, e) \subseteq Block(doc.clock, c)
  <2>1. Document(doc, Ceiling(doc)) /\ Dated(doc) /\ Follows(doc, d, Ticket(doc, c), r)
    BY <1>1, <1>3 DEF Sound
  <2> HIDE DEF doc
  <2>2. QED
    BY <1>1, <2>1, Advanced
<1>5. Named(e)
  BY <1>1, <1>3, <1>4 DEF Sound, Follows, Named, Ids
<1>6. Spanned(e, Largest + n * Reach)
  <2>1. Largest \in Nat /\ Reach \in Nat /\ Limit \in Nat /\ Largest + n * Reach <= Limit
    <3>1. MaxRows \in Nat /\ MaxBlock \in Nat /\ Limit \in Nat /\ Largest \in Nat
          /\ Largest + n * (MaxRows + MaxBlock) <= Limit
      BY <1>3, LargestIs, LimitIs
    <3>2. QED
      BY <3>1 DEF Reach
  <2>2. changes * Reach \in Nat
    BY <1>3, <2>1
  <2> DEFINE N == Largest + changes * Reach
  <2>3. N \in Nat /\ N + r = Largest + n * Reach
    BY <1>2, <2>1, <2>2
  <2>4. N + r <= Limit
    BY <2>1, <2>3
  <2>5. Spanned(doc, N)
    BY <1>3 DEF Sound
  <2> HIDE DEF N
  <2>6. Spanned(d, N + r)
    BY <1>1, <2>3, <2>4, <2>5 DEF Follows
  <2>7. QED
    BY <1>4, <2>3, <2>6 DEF Spanned
<1>7. Sound(e, changes')
  BY <1>4, <1>5, <1>6 DEF Sound, n
<1>8. Succeeds(e, doc, c)
  BY <1>4 DEF Succeeds
<1>9. SheetsInv'
  BY <1>1, <1>7, <1>8, ReplicaAdvances
<1>10. Shown(e) = Shown(d) /\ Rows(e) = Rows(d)
  BY <1>4 DEF Shown, Rows, Tombstones
<1>11. Orphans(e) \subseteq Orphans(doc) /\ Twice(e) \subseteq Twice(doc)
  <2>1. Document(doc, Ceiling(doc)) /\ Document(d, Ticket(doc, c) + Width) /\ CleanAfter(doc, d)
    BY <1>1, <1>3 DEF Sound, Follows
  <2> HIDE DEF doc
  <2>2. Orphans(d) \subseteq Orphans(doc) /\ Twice(d) \subseteq Twice(doc)
    BY <2>1, CleanIs
  <2>3. Orphans(e) = Orphans(d) /\ Twice(e) = Twice(d)
    BY <1>4, <1>10 DEF Orphans, Twice
  <2>4. QED
    BY <2>2, <2>3
<1>12. QED
  BY <1>4, <1>9, <1>10, <1>11

-----------------------------------------------------------------------------
(* The sheet before anybody opened it.                                     *)

Blank == [clock |-> 0, nodes |-> <<>>, line |-> <<>>, cells |-> <<>>,
          heights |-> <<>>, threads |-> <<>>]

LEMMA BlankIs ==
    /\ Document(Blank, 0) /\ Blank.clock = 0 /\ DOMAIN Blank.nodes = {}
    /\ Blank.cells = <<>> /\ Blank.heights = <<>> /\ DOMAIN Blank.threads = {}
<1> DEFINE none == <<>>
<1>1. DOMAIN none = {} /\ none = <<>>
  OBVIOUS
<1> HIDE DEF none
<1>2. Numbered(none) /\ OfElements(none, 0) /\ Entries(none)
  BY <1>1 DEF Numbered, OfElements, Entries
<1>3. Lined(none) = none
  <2>1. Lined(none) \in Seq({}) /\ Elements(Lined(none)) = {}
    BY <1>1, <1>2, LinedLists DEF ListsOnce
  <2> DEFINE line == Lined(none)
  <2> HIDE DEF line
  <2>2. line \in Seq({}) => line = <<>>
    OBVIOUS
  <2>3. QED
    BY <1>1, <2>1, <2>2 DEF line
<1>4. /\ Blank = [clock |-> 0, nodes |-> none, line |-> none, cells |-> none,
                  heights |-> none, threads |-> none]
  BY <1>1 DEF Blank
<1>5. /\ Blank.clock = 0 /\ Blank.nodes = none /\ Blank.line = none /\ Blank.cells = none
      /\ Blank.heights = none /\ Blank.threads = none
  BY <1>4
<1>6. Document(Blank, 0)
  BY <1>2, <1>3, <1>4, <1>5 DEF Document
<1>7. QED
  BY <1>1, <1>5, <1>6

LEMMA StoredSound ==
    ASSUME NEW seed \in Seeds
    PROVE  /\ Sound(Stored(seed), 0) /\ Stored(seed).clock = 0
           /\ \A k \in DOMAIN Stored(seed).nodes : k \in Nat /\ k < Width
<1> DEFINE n == Len(seed.cells)
           keys == {i \in 1 .. n : seed.cells[i] # None}
           given == [i \in keys |-> seed.cells[i]]
           sized == [i \in seed.heights |-> Height]
           ids == Fresh(1, n)
           rows == InsertBehind(Blank, 0, 1, ids)
           filled == [rows EXCEPT !.cells = Stamped(<<>>, given, 0)]
           doc == [filled EXCEPT !.heights = Stamped(<<>>, sized, 0)]
<1>1. n \in Nat /\ n <= Largest /\ Largest \in Nat /\ Limit \in Nat /\ Largest <= Limit
      /\ Width = 2 * Limit /\ Width \in Nat
  BY LargestIs, LimitIs
<1>2. DOMAIN seed.cells = 1 .. n
  BY SeedsAssumption
<1>3. /\ ids \in Seq(Nat) /\ Len(ids) = n /\ \A i \in 1 .. n : ids[i] = i
  <2>1. ids = [i \in 1 .. n |-> 1 + i - 1]
    BY DEF Fresh
  <2>2. \A i \in 1 .. n : 1 + i - 1 = i
    OBVIOUS
  <2>3. QED
    BY <1>1, <2>1, <2>2
<1>4. rows.cells = <<>> /\ rows.heights = <<>>
  BY BlankIs DEF InsertBehind
<1> HIDE DEF ids
<1>5. Stored(seed) = doc
  <2>1. rows = InsertBehind(Blank, 0, 1, Fresh(1, n))
    BY DEF ids
  <2>2. Stored(seed) = [rows EXCEPT !.cells = Stamped(rows.cells, given, 0),
                                    !.heights = Stamped(rows.heights, sized, 0)]
    BY <2>1 DEF Stored, Blank, Written, Stamped
  <2> HIDE DEF rows, given, sized
  <2>3. QED
    BY <1>4, <2>2
<1> HIDE DEF n, keys, given, sized
<1>6. /\ Document(rows, n + 1) /\ rows.clock = 0 /\ DOMAIN rows.threads = {}
      /\ DOMAIN rows.nodes = 1 .. n
      /\ \A i \in 1 .. n : rows.nodes[i].id = i
  <2>1. Document(Blank, 1)
    BY BlankIs, DocumentWider
  <2>2. 0 \in Tickets(Blank.nodes)
    BY DEF Tickets
  <2>3. \A i \in 1 .. Len(ids) : ids[i] < n + 1
    BY <1>1, <1>3
  <2>4. Document(rows, n + 1) /\ Adds(Blank, rows, 1, ids)
    BY <1>1, <1>3, <2>1, <2>2, <2>3, Inserted
  <2> HIDE DEF rows
  <2>5. rows.clock = 0 /\ DOMAIN rows.threads = {} /\ DOMAIN rows.nodes = 1 .. n
    BY <1>1, <1>3, <2>4, BlankIs DEF Adds
  <2>6. \A i \in 1 .. n : rows.nodes[1 + i - 1].id = ids[i]
    BY <1>3, <2>4 DEF Adds
  <2>7. QED
    BY <1>1, <1>3, <2>4, <2>5, <2>6
<1> HIDE DEF rows, filled, doc
<1>7. Entries(<<>>) /\ DOMAIN <<>> = {} /\ Held(<<>>) = {}
  BY DEF Entries, Held
<1> DEFINE cells == Stamped(<<>>, given, 0)
           heights == Stamped(<<>>, sized, 0)
<1>8. /\ Entries(cells) /\ DOMAIN cells = keys /\ Held(cells) = keys
      /\ \A i \in keys : cells[i].val = seed.cells[i]
  <2> DEFINE none == <<>>
  <2>1. Entries(none) /\ DOMAIN none = {} /\ Held(none) = {}
    BY <1>7
  <2>2. cells = Stamped(none, given, 0) /\ DOMAIN given = keys
    BY DEF given
  <2> HIDE DEF none, cells, given
  <2>3. /\ Entries(cells) /\ DOMAIN cells = DOMAIN none \cup DOMAIN given
        /\ Held(cells) = Held(none) \cup DOMAIN given
    BY <2>1, <2>2, StampedHolds
  <2>4. \A i \in keys : cells[i].val = given[i]
    BY <2>2 DEF Stamped
  <2>5. QED
    BY <2>1, <2>2, <2>3, <2>4 DEF given
<1>9. Entries(heights)
  <2> DEFINE none == <<>>
  <2>1. Entries(none)
    BY <1>7
  <2> HIDE DEF none
  <2>2. Entries(Stamped(none, sized, 0))
    BY <2>1, StampedHolds
  <2>3. QED
    BY <2>2 DEF none
<1> HIDE DEF cells, heights
<1>10. /\ Document(filled, n + 1) /\ filled.cells = cells /\ filled.clock = rows.clock
       /\ filled.nodes = rows.nodes /\ filled.threads = rows.threads
  <2>1. filled = [rows EXCEPT !.cells = cells]
    BY DEF filled, cells
  <2>2. QED
    BY <1>6, <1>8, <2>1, CellsPut
<1>11. /\ Document(doc, n + 1) /\ SameRows(filled, doc) /\ doc.cells = filled.cells
  <2>1. doc = [filled EXCEPT !.heights = heights]
    BY DEF doc, heights
  <2>2. QED
    BY <1>9, <1>10, <2>1, HeightsPut
<1>12. /\ doc.clock = 0 /\ doc.nodes = rows.nodes /\ DOMAIN doc.threads = {} /\ doc.cells = cells
  BY <1>6, <1>10, <1>11 DEF SameRows
<1>13. /\ Document(doc, Ceiling(doc)) /\ \A k \in DOMAIN doc.nodes : k \in Nat /\ k < Width
  <2> DEFINE C == Cardinality(Clients)
  <2>1. C \in Nat /\ Ceiling(doc) = (C + 1) * Width /\ Ceiling(doc) \in Nat
    <3>1. C \in Nat
      BY ClientsAssumption
    <3>2. Ceiling(doc) = ((0 + 1) * C + 1) * Width
      BY <1>12 DEF Ceiling
    <3>3. QED
      BY <1>1, <3>1, <3>2
  <2> HIDE DEF C
  <2>2. 1 * Width <= (C + 1) * Width
    BY <1>1, <2>1, TimesMonotone
  <2>3. Width <= Ceiling(doc)
    BY <1>1, <2>1, <2>2
  <2>4. CASE n = 0
    <3>1. DOMAIN doc.nodes = {}
      BY <1>6, <1>12, <2>4
    <3>2. QED
      BY <1>11, <2>1, <3>1 DEF Document, OfElements
  <2>5. CASE n # 0
    <3>1. n + 1 <= Width /\ n + 1 <= Ceiling(doc)
      BY <1>1, <2>1, <2>3, <2>5
    <3>2. QED
      BY <1>1, <1>6, <1>11, <1>12, <2>1, <3>1, DocumentWider
  <2>6. QED
    BY <2>4, <2>5
<1>14. Named(doc)
  <2>1. \A i \in keys : i \in DOMAIN doc.nodes /\ doc.nodes[i].id = i
    BY <1>6, <1>12 DEF keys
  <2>2. QED
    BY <1>8, <1>12, <2>1 DEF Named, Ids
<1>15. Dated(doc)
  BY <1>12 DEF Dated
<1>16. Spanned(doc, Largest + 0 * Reach)
  <2>1. Largest + 0 * Reach = Largest
    BY <1>1, LimitIs DEF Reach
  <2>2. ASSUME NEW i \in keys
        PROVE  seed.cells[i] \in Contents(Largest)
    <3>1. i \in DOMAIN seed.cells
      BY <1>2 DEF keys
    <3>2. CASE seed.cells[i] \in References
      <4>1. PICK r \in 0 .. Limit : seed.cells[i] = [f |-> r]
        BY <3>2 DEF References, Reference
      <4>2. seed.cells[i].f <= n
        BY <3>1, <3>2, SeedsAssumption DEF n
      <4>3. r \in 0 .. Largest
        BY <1>1, <4>1, <4>2
      <4>4. QED
        BY <4>1, <4>3 DEF Contents, Reference
    <3>3. CASE seed.cells[i] \notin References
      <4>1. seed.cells[i] \in Seeded
        BY <3>1 DEF Seeded, ToSet
      <4>2. QED
        BY <3>3, <4>1 DEF Contents
    <3>4. QED
      BY <3>2, <3>3
  <2>3. QED
    BY <1>8, <1>12, <2>1, <2>2 DEF Spanned
<1>17. Sound(doc, 0)
  BY <1>13, <1>14, <1>15, <1>16 DEF Sound
<1>18. QED
  BY <1>5, <1>12, <1>13, <1>17

-----------------------------------------------------------------------------
(* What a step does.                                                       *)

\* The step leaves nothing behind in the replica of c, and repeats nothing there.
Cleanly(c) ==
    /\ Orphans(replica'[c]) \subseteq Orphans(replica[c])
    /\ Twice(replica'[c]) \subseteq Twice(replica[c])

LEMMA ReplicaIs ==
    ASSUME SheetsInv, NEW c \in Clients
    PROVE  /\ Document(replica[c], Ceiling(replica[c])) /\ replica[c].clock \in Nat
           /\ \A e : [replica EXCEPT ![c] = e][c] = e
BY DEF SheetsInv, Copies, Sound, Document

LEMMA StartKeeps ==
    ASSUME Init
    PROVE  SheetsInv /\ ComposersInv
<1>1. PICK seed \in Seeds :
        /\ server = Stored(seed)
        /\ replica = [c \in Clients |-> Stored(seed)]
        /\ composer = [c \in Clients |-> None]
        /\ painted = [c \in Clients |-> TRUE]
        /\ changes = 0
  BY DEF Init
<1> DEFINE doc == Stored(seed)
<1>2. /\ Sound(doc, 0) /\ doc.clock = 0
      /\ \A k \in DOMAIN doc.nodes : k \in Nat /\ k < Width
  BY StoredSound
<1> HIDE DEF doc
<1>3. \A x \in Copies : x = doc
  BY <1>1 DEF Copies, doc
<1>4. replica = [c \in Clients |-> replica[c]] /\ changes \in 0 .. MaxChanges
  BY <1>1, LimitIs
<1>5. \A x \in Copies : Sound(x, changes)
  BY <1>1, <1>2, <1>3
<1>6. \A x, y \in Copies : Agree(x, y)
  BY <1>3 DEF Agree
<1>7. ASSUME NEW c \in Clients, NEW n \in Nat
      PROVE  DOMAIN doc.nodes \cap Block(n, c) = {}
  <2> DEFINE C == Cardinality(Clients)
             q == (n + 1) * C + c
  <2>1. C \in Nat /\ c \in 1 .. C /\ Width \in Nat
    BY ClientsAssumption, LimitIs
  <2>2. (n + 1) * C \in Nat
    BY <2>1
  <2>3. q \in Nat /\ 1 <= q
    BY <2>1, <2>2
  <2> HIDE DEF q
  <2>4. 1 * Width <= q * Width /\ q * Width \in Nat
    BY <2>1, <2>3, TimesMonotone
  <2>5. Block(n, c) = q * Width .. q * Width + Width - 1
    BY DEF Block, q
  <2>6. QED
    BY <1>2, <2>1, <2>4, <2>5
<1>8. \A c \in Clients : Unclaimed(c)
  BY <1>3, <1>7 DEF Unclaimed
<1>9. SheetsInv
  BY <1>4, <1>5, <1>6, <1>8 DEF SheetsInv
<1>10. ComposersInv
  BY <1>1 DEF ComposersInv, Pinned
<1>11. QED
  BY <1>9, <1>10

LEMMA ChangeStep ==
    ASSUME SheetsInv, NEW c \in Clients, NEW m \in Calls, Change(c, m)
    PROVE  SheetsInv' /\ Cleanly(c)
<1> DEFINE doc == replica[c]
<1>1. /\ changes < MaxChanges /\ changes' = changes + 1 /\ server' = server
      /\ replica' = [replica EXCEPT ![c] = Apply(doc, c, m)]
  BY DEF Change
<1>2. changes \in Nat /\ MaxChanges \in Nat /\ Reach \in Nat
  BY LimitIs DEF SheetsInv, Reach
<1>3. MaxChanges # 0 /\ changes' \in 0 .. MaxChanges /\ changes <= changes'
      /\ changes' * Reach = changes * Reach + Reach
  BY <1>1, <1>2
<1>4. Document(doc, Ceiling(doc)) /\ replica'[c] = Apply(doc, c, m)
  BY <1>1, ReplicaIs
<1>5. PICK d : /\ Follows(doc, d, Ticket(doc, c), Reach) /\ CleanAfter(doc, d)
               /\ Apply(doc, c, m) = Committed(d)
  <2> HIDE DEF doc
  <2>1. QED
    BY <1>3, <1>4, CallFollows
<1> DEFINE e == Apply(doc, c, m)
<1>6. e = Committed(d)
  BY <1>5
<1>7. replica' = [replica EXCEPT ![c] = e] /\ replica'[c] = e
  BY <1>1, <1>4
<1> HIDE DEF e
<1>8. /\ SheetsInv'
      /\ Orphans(e) \subseteq Orphans(replica[c]) /\ Twice(e) \subseteq Twice(replica[c])
  <2>1. Makes(c, d, e, Reach)
    BY <1>1, <1>3, <1>5, <1>6, <1>7 DEF Makes
  <2>2. QED
    BY <1>2, <2>1, ChangeKeeps
<1>9. QED
  BY <1>7, <1>8 DEF Cleanly

LEMMA OpenStep ==
    ASSUME SheetsInv, NEW c \in Clients, NEW i \in Indices, OpenComposer(c, i)
    PROVE  /\ SheetsInv' /\ Cleanly(c)
           /\ i \in DOMAIN Rows(replica'[c]) /\ Rows(replica'[c])[i] \in Nat
<1> DEFINE doc == replica[c]
           t == Ticket(doc, c)
           d == Grow(doc, t, i)
           e == Committed(d)
<1>1. /\ changes < MaxChanges /\ changes' = changes + 1 /\ server' = server
      /\ replica' = [replica EXCEPT ![c] = IF i <= Len(Rows(doc)) THEN doc ELSE e]
  <2>1. changes < MaxChanges /\ changes' = changes + 1 /\ server' = server
    BY DEF OpenComposer
  <2>2. replica' = [replica EXCEPT ![c] = IF i <= Len(Rows(doc)) THEN doc ELSE e]
    BY Zenon DEF OpenComposer
  <2>3. QED
    BY <2>1, <2>2
<1>2. changes \in Nat /\ MaxChanges \in Nat /\ Reach \in Nat /\ i \in Nat \ {0}
  BY LimitIs DEF SheetsInv, Reach, Indices
<1>3. /\ MaxChanges # 0 /\ changes' \in 0 .. MaxChanges /\ changes <= changes'
      /\ changes' * Reach = changes * Reach + Reach
  <2>1. (changes + 1) * Reach = changes * Reach + Reach
    BY <1>2
  <2>2. MaxChanges # 0 /\ changes + 1 \in 0 .. MaxChanges /\ changes <= changes + 1
    BY <1>1, <1>2
  <2>3. QED
    BY <1>1, <2>1, <2>2
<1>4. Document(doc, Ceiling(doc)) /\ doc.clock \in Nat
  BY ReplicaIs
<1>5. CASE i <= Len(Rows(doc))
  <2>1. replica' = replica
    BY <1>1, <1>5 DEF SheetsInv
  <2>2. \A x \in Copies : Sound(x, changes')
    BY <1>2, <1>3, SoundOn DEF SheetsInv
  <2>3. Copies' = Copies
    BY <1>1, <2>1 DEF Copies
  <2>4. SheetsInv'
    BY <1>3, <2>1, <2>2, <2>3
    DEF SheetsInv, Sound, Agree, Document, Named, Dated, Spanned, Unclaimed, Block
  <2>5. i \in DOMAIN Rows(doc) /\ Rows(doc)[i] \in Nat
    <3> HIDE DEF doc
    <3>1. Rows(doc) \in Seq(Nat)
      BY <1>4, RowsAre
    <3>2. QED
      BY <1>2, <1>5, <3>1
  <2>6. QED
    BY <2>1, <2>4, <2>5 DEF Cleanly
<1>6. CASE ~(i <= Len(Rows(doc)))
  <2>1. Reach <= Limit /\ Limit # 0
    BY <1>2, <1>3, LimitIs DEF Reach, Indices
  <2>2. t \in Nat \ {0} /\ Ceiling(doc) <= t
    BY <1>4, <2>1, TicketIs
  <2>3. Follows(doc, d, t, Reach) /\ CleanAfter(doc, d) /\ Len(Shown(d)) >= i
    <3> HIDE DEF doc, t
    <3>1. QED
      BY <1>4, <2>1, <2>2, GrowFollows
  <2>4. replica' = [replica EXCEPT ![c] = e] /\ replica'[c] = e
    BY <1>1, <1>6, ReplicaIs
  <2>5. e = Committed(d)
    OBVIOUS
  <2> HIDE DEF d, e
  <2>6. /\ SheetsInv'
        /\ Orphans(e) \subseteq Orphans(replica[c]) /\ Twice(e) \subseteq Twice(replica[c])
        /\ Shown(e) = Shown(d) /\ Document(e, Ceiling(e))
    <3>1. Makes(c, d, e, Reach)
      BY <1>1, <1>3, <2>3, <2>4, <2>5 DEF Makes
    <3>2. QED
      BY <1>2, <3>1, ChangeKeeps
  <2>7. Rows(e) \in Seq(Nat) /\ DOMAIN Rows(e) = 1 .. Len(Shown(e)) /\ Len(Shown(e)) \in Nat
    BY <2>6, RowsAre, ShownLists
  <2>8. i \in DOMAIN Rows(e) /\ Rows(e)[i] \in Nat
    BY <1>2, <2>3, <2>6, <2>7
  <2>9. QED
    BY <2>4, <2>6, <2>8 DEF Cleanly
<1>7. QED
  BY <1>5, <1>6

LEMMA SubmitStep ==
    ASSUME SheetsInv, ComposersInv, NEW c \in Clients, SubmitComment(c)
    PROVE  /\ SheetsInv' /\ Cleanly(c)
           /\ \A th \in Held(replica'[c].threads) \ Held(replica[c].threads) :
                 replica'[c].threads[th].val = Rows(replica[c])[composer[c].at]
<1> DEFINE doc == replica[c]
           t == Ticket(doc, c)
           at == composer[c].at
           row == Rows(doc)[at]
           d == AddThread(doc, t, row)
           e == Committed(d)
<1>1. /\ composer[c] # None /\ at <= Len(Rows(doc))
      /\ replica' = [replica EXCEPT ![c] = e] /\ server' = server /\ changes' = changes
  <2>1. /\ composer[c] # None /\ at <= Len(Rows(doc))
        /\ server' = server /\ changes' = changes
    BY DEF SubmitComment
  <2>2. replica' = [replica EXCEPT ![c] = e]
    BY Zenon DEF SubmitComment
  <2>3. QED
    BY <2>1, <2>2
<1>2. replica'[c] = e
  BY <1>1, ReplicaIs
<1>3. Document(doc, Ceiling(doc)) /\ doc.clock \in Nat
  BY ReplicaIs
<1>4. at \in Nat \ {0}
  BY <1>1 DEF ComposersInv
<1>5. changes \in 0 .. MaxChanges /\ changes \in Nat /\ Reach \in Nat
  BY LimitIs DEF SheetsInv, Reach
<1>6. e = Committed(d)
  OBVIOUS
<1> HIDE DEF doc, at, d, e
<1>7. at \in 1 .. Len(Shown(doc)) /\ Shown(doc)[at] \in Live(doc) /\ row \in Ids(doc, Live(doc))
      /\ row < Ceiling(doc) /\ row \in Nat
  <2>1. /\ Rows(doc) \in Seq(Nat) /\ Len(Rows(doc)) = Len(Shown(doc))
        /\ Len(Shown(doc)) \in Nat
    BY <1>3, RowsAre, ShownLists
  <2>2. at \in 1 .. Len(Shown(doc)) /\ row \in Nat
    BY <1>1, <1>4, <2>1
  <2>3. Shown(doc)[at] \in Live(doc) /\ row = doc.nodes[Shown(doc)[at]].id /\ row < Ceiling(doc)
    BY <1>3, <2>2, RowsAre
  <2>4. QED
    BY <2>2, <2>3 DEF Ids
<1> HIDE DEF row
<1>8. t \in Nat \ {0} /\ Ceiling(doc) <= t
  <2>1. t \in Nat /\ Ceiling(doc) \in Nat /\ Ceiling(doc) <= t
    BY <1>3, TicketIs
  <2>2. QED
    BY <1>7, <2>1
<1>9. /\ Follows(doc, d, t, 0) /\ CleanAfter(doc, d)
      /\ \A th \in Held(d.threads) \ Held(doc.threads) : d.threads[th].val = row
  <2> HIDE DEF t
  <2>1. QED
    BY <1>3, <1>7, <1>8, AddThreadFollows DEF d
<1>10. /\ SheetsInv'
       /\ Orphans(e) \subseteq Orphans(doc) /\ Twice(e) \subseteq Twice(doc)
       /\ e.threads = d.threads
  <2>1. changes' * Reach = changes * Reach + 0 /\ changes' \in 0 .. MaxChanges
        /\ changes <= changes'
    BY <1>1, <1>5
  <2>2. Makes(c, d, e, 0)
    BY <1>1, <1>6, <1>9, <2>1 DEF Makes, doc
  <2>3. QED
    BY <2>2, ChangeKeeps DEF doc
<1>11. \A th \in Held(e.threads) \ Held(doc.threads) : e.threads[th].val = row
  BY <1>9, <1>10 DEF Held
<1>12. QED
  BY <1>2, <1>10, <1>11 DEF Cleanly, row, doc, at

LEMMA SheetsSame ==
    ASSUME SheetsInv, replica' = replica, server' = server, changes' = changes
    PROVE  SheetsInv' /\ \A c \in Clients : ~Locally(c)
<1>1. Copies' = Copies
  BY DEF Copies
<1>2. QED
  BY <1>1 DEF SheetsInv, Sound, Agree, Document, Named, Dated, Spanned, Unclaimed, Block, Locally

\* Every step keeps the sheets sound; one that is no merge is clean.
LEMMA SheetsStep ==
    ASSUME SheetsInv, ComposersInv, [Next]_vars
    PROVE  SheetsInv' /\ \A c \in Clients : Locally(c) => Cleanly(c)
<1>1. ASSUME NEW c \in Clients, NEW e, replica' = [replica EXCEPT ![c] = e], Sync(c) \/ Cleanly(c)
      PROVE  \A x \in Clients : Locally(x) => Cleanly(x)
  <2>1. \A x \in Clients \ {c} : replica'[x] = replica[x]
    BY <1>1 DEF SheetsInv
  <2>2. QED
    BY <1>1, <2>1 DEF Locally
<1>2. ASSUME NEW c \in Clients, NEW m \in Calls, Change(c, m)
      PROVE  SheetsInv' /\ \A x \in Clients : Locally(x) => Cleanly(x)
  <2>1. SheetsInv' /\ Cleanly(c)
    BY <1>2, ChangeStep
  <2>2. replica' = [replica EXCEPT ![c] = Apply(replica[c], c, m)]
    BY <1>2 DEF Change
  <2>3. QED
    BY <1>1, <2>1, <2>2
<1>3. ASSUME NEW c \in Clients, Sync(c)
      PROVE  SheetsInv' /\ \A x \in Clients : Locally(x) => Cleanly(x)
  <2>1. SheetsInv'
    BY <1>3, SyncKeeps
  <2>2. replica' = [replica EXCEPT ![c] = Merge(server, replica[c])]
    BY <1>3 DEF Sync
  <2>3. QED
    BY <1>1, <1>3, <2>1, <2>2
<1>4. ASSUME NEW c \in Clients, NEW i \in Indices, OpenComposer(c, i)
      PROVE  SheetsInv' /\ \A x \in Clients : Locally(x) => Cleanly(x)
  <2>1. SheetsInv' /\ Cleanly(c)
    BY <1>4, OpenStep
  <2>2. \E e : replica' = [replica EXCEPT ![c] = e]
    BY <1>4 DEF OpenComposer
  <2>3. QED
    BY <1>1, <2>1, <2>2
<1>5. ASSUME NEW c \in Clients, SubmitComment(c)
      PROVE  SheetsInv' /\ \A x \in Clients : Locally(x) => Cleanly(x)
  <2>1. SheetsInv' /\ Cleanly(c)
    BY <1>5, SubmitStep
  <2>2. \E e : replica' = [replica EXCEPT ![c] = e]
    BY <1>5 DEF SubmitComment
  <2>3. QED
    BY <1>1, <2>1, <2>2
<1>6. ASSUME NEW c \in Clients, Repaint(c) \/ CloseComposer(c)
      PROVE  SheetsInv' /\ \A x \in Clients : Locally(x) => Cleanly(x)
  BY <1>6, SheetsSame DEF Repaint, CloseComposer
<1>7. CASE UNCHANGED vars
  BY <1>7, SheetsSame DEF vars
<1>8. CASE Next
  BY <1>2, <1>3, <1>4, <1>5, <1>6, <1>8 DEF Next
<1>9. QED
  BY <1>7, <1>8

\* Every step keeps the composers where they were opened.
LEMMA ComposersStep ==
    ASSUME SheetsInv, ComposersInv, [Next]_vars
    PROVE  ComposersInv'
<1> DEFINE Composers == {None} \cup [row : Nat, at : Nat \ {0}]
<1>1. /\ composer \in [Clients -> Composers] /\ painted \in [Clients -> BOOLEAN]
      /\ \A c \in Clients : Pinned(c)
      /\ \A c \in Clients : \A e : [replica EXCEPT ![c] = e][c] = e
      /\ \A c \in Clients : \A e :
            \A x \in Clients \ {c} : [replica EXCEPT ![c] = e][x] = replica[x]
  BY DEF ComposersInv, SheetsInv
<1>2. ASSUME NEW c \in Clients, NEW e, replica' = [replica EXCEPT ![c] = e],
             composer' \in [Clients -> Composers], painted' \in [Clients -> BOOLEAN],
             \A x \in Clients \ {c} : composer'[x] = composer[x] /\ painted'[x] = painted[x],
             Pinned(c)'
      PROVE  ComposersInv'
  <2>1. ASSUME NEW x \in Clients, x # c
        PROVE  Pinned(x)'
    <3>1. composer'[x] = composer[x] /\ painted'[x] = painted[x] /\ replica'[x] = replica[x]
      BY <1>1, <1>2, <2>1
    <3>2. Pinned(x)
      BY <1>1
    <3>3. QED
      BY <3>1, <3>2 DEF Pinned
  <2>2. QED
    BY <1>2, <2>1 DEF ComposersInv
<1>3. \A c \in Clients : replica = [replica EXCEPT ![c] = replica[c]]
  BY DEF SheetsInv
<1>4. ASSUME NEW c \in Clients, NEW m \in Calls, Change(c, m)
      PROVE  ComposersInv'
  <2>1. /\ composer[c] = None /\ composer' = composer /\ painted' = painted
        /\ replica' = [replica EXCEPT ![c] = Apply(replica[c], c, m)]
    BY <1>4 DEF Change
  <2>2. Pinned(c)'
    BY <2>1 DEF Pinned
  <2>3. QED
    BY <1>1, <1>2, <2>1, <2>2
<1>5. ASSUME NEW c \in Clients, Sync(c)
      PROVE  ComposersInv'
  <2> DEFINE m == Merge(server, replica[c])
  <2>1. /\ composer' = composer /\ replica' = [replica EXCEPT ![c] = m]
        /\ painted' = [painted EXCEPT ![c] = painted[c] /\ m = replica[c]]
    BY <1>5 DEF Sync
  <2> HIDE DEF m
  <2>2. /\ replica'[c] = m /\ painted' \in [Clients -> BOOLEAN]
        /\ painted'[c] => painted[c] /\ m = replica[c]
        /\ \A x \in Clients \ {c} : painted'[x] = painted[x]
    <3>1. replica'[c] = m
      BY <1>1, <2>1
    <3>2. painted'[c] = (painted[c] /\ m = replica[c])
      BY <1>1, <2>1
    <3>3. painted' \in [Clients -> BOOLEAN]
      BY <1>1, <2>1
    <3>4. \A x \in Clients \ {c} : painted'[x] = painted[x]
      BY <1>1, <2>1
    <3>5. QED
      BY <3>1, <3>2, <3>3, <3>4
  <2>3. Pinned(c)'
    <3>1. Pinned(c)
      BY <1>1
    <3>2. QED
      BY <2>1, <2>2, <3>1 DEF Pinned
  <2>4. QED
    BY <1>1, <1>2, <2>1, <2>2, <2>3
<1>6. ASSUME NEW c \in Clients, NEW i \in Indices, OpenComposer(c, i)
      PROVE  ComposersInv'
  <2> DEFINE row == Rows(replica'[c])[i]
  <2>1. /\ composer' = [composer EXCEPT ![c] = [row |-> row, at |-> i]] /\ painted' = painted
        /\ \E e : replica' = [replica EXCEPT ![c] = e]
    BY <1>6 DEF OpenComposer
  <2>2. i \in DOMAIN Rows(replica'[c]) /\ row \in Nat
    BY <1>6, OpenStep
  <2>3. i \in Nat \ {0}
    BY LimitIs DEF Indices
  <2> DEFINE it == [row |-> row, at |-> i]
  <2>4. it \in Composers /\ it.row = row /\ it.at = i /\ composer' = [composer EXCEPT ![c] = it]
    BY <2>1, <2>2, <2>3
  <2>5. Rows(replica'[c])[i] = row
    OBVIOUS
  <2> HIDE DEF it, row, Composers
  <2>6. /\ composer'[c] = it /\ composer' \in [Clients -> Composers]
        /\ \A x \in Clients \ {c} : composer'[x] = composer[x]
    BY <1>1, <2>4
  <2>7. Pinned(c)'
    BY <2>2, <2>4, <2>5, <2>6 DEF Pinned
  <2>8. QED
    BY <1>1, <1>2, <2>1, <2>6, <2>7
<1>7. ASSUME NEW c \in Clients, Repaint(c)
      PROVE  ComposersInv'
  <2> DEFINE rows == Rows(replica[c])
             it == composer[c]
             at == Place(rows, it.row)
             then == IF it = None \/ it.row \notin ToSet(rows) THEN None ELSE [it EXCEPT !.at = at]
  <2>1. /\ composer' = [composer EXCEPT ![c] = then]
        /\ painted' = [painted EXCEPT ![c] = TRUE] /\ replica' = replica
    BY <1>7 DEF Repaint, Place
  <2>2. rows \in Seq(Nat) /\ Elements(rows) = ToSet(rows)
    BY ReplicaIs, RowsAre DEF Elements, ToSet
  <2>3. it \in Composers
    BY <1>1
  <2> HIDE DEF rows, it
  <2>4. ASSUME then # None
        PROVE  then \in Composers /\ then.at \in DOMAIN rows /\ rows[then.at] = then.row
    <3>1. it \in [row : Nat, at : Nat \ {0}] /\ it.row \in ToSet(rows) /\ then = [it EXCEPT !.at = at]
      BY <2>3, <2>4
    <3>2. at \in DOMAIN rows /\ rows[at] = it.row
      BY <2>2, <3>1, PlaceOf
    <3>3. at \in Nat \ {0}
      BY <2>2, <3>2
    <3> HIDE DEF at
    <3>4. QED
      BY <3>1, <3>2, <3>3
  <2> HIDE DEF then, Composers
  <2>5. then \in Composers
    BY <2>4 DEF Composers
  <2>6. /\ composer'[c] = then /\ composer' \in [Clients -> Composers]
        /\ \A x \in Clients \ {c} : composer'[x] = composer[x] /\ painted'[x] = painted[x]
        /\ painted' \in [Clients -> BOOLEAN]
    BY <1>1, <2>1, <2>5
  <2>7. Pinned(c)'
    BY <2>1, <2>4, <2>6 DEF Pinned, rows
  <2>8. QED
    BY <1>2, <1>3, <2>1, <2>6, <2>7
<1>8. ASSUME NEW c \in Clients, CloseComposer(c) \/ SubmitComment(c)
      PROVE  ComposersInv'
  <2>1. /\ composer' = [composer EXCEPT ![c] = None] /\ painted' = painted
        /\ \E e : replica' = [replica EXCEPT ![c] = e]
    BY <1>3, <1>8 DEF CloseComposer, SubmitComment
  <2>2. /\ composer'[c] = None /\ composer' \in [Clients -> Composers]
        /\ \A x \in Clients \ {c} : composer'[x] = composer[x]
    BY <1>1, <2>1
  <2>3. Pinned(c)'
    BY <2>2 DEF Pinned
  <2>4. QED
    BY <1>1, <1>2, <2>1, <2>2, <2>3
<1>9. CASE UNCHANGED vars
  BY <1>9 DEF vars, ComposersInv, Pinned
<1>10. CASE Next
  BY <1>4, <1>5, <1>6, <1>7, <1>8, <1>10 DEF Next
<1>11. QED
  BY <1>9, <1>10

-----------------------------------------------------------------------------
(* The theorems.                                                           *)

\* In every session every copy of the sheet, the server's and each client's, is a
\* document whose list stands as its elements say, whose formulas name rows within reach
\* of the changes made so far, and whose elements are those of every other copy that has
\* them; nobody holds a ticket that another client may still use.
THEOREM CopiesSound == Spec => [](SheetsInv /\ ComposersInv)
<1>1. Init => SheetsInv /\ ComposersInv
  BY StartKeeps
<1>2. SheetsInv /\ ComposersInv /\ [Next]_vars => (SheetsInv /\ ComposersInv)'
  BY SheetsStep, ComposersStep
<1>3. QED
  BY <1>1, <1>2, PTL DEF Spec

LEMMA SoundTyped ==
    ASSUME SheetsInv, ComposersInv
    PROVE  TypeOK
<1>1. ASSUME NEW c \in Clients
      PROVE  WellFormed(replica[c])
  <2> DEFINE doc == replica[c]
             N == Largest + changes * Reach
  <2>1. Document(doc, Ceiling(doc)) /\ Named(doc) /\ Dated(doc) /\ Spanned(doc, N)
    BY DEF SheetsInv, Copies, Sound
  <2>2. N \in Nat /\ N <= Limit /\ Limit \in Nat
    <3>1. changes \in 0 .. MaxChanges /\ changes \in Nat
      BY LimitIs DEF SheetsInv
    <3>2. MaxRows \in Nat /\ MaxBlock \in Nat /\ Largest \in Nat /\ Limit \in Nat
          /\ Largest + changes * (MaxRows + MaxBlock) <= Limit
          /\ changes * (MaxRows + MaxBlock) \in Nat
      BY <3>1, LargestIs, LimitIs
    <3>3. QED
      BY <3>2 DEF Reach
  <2> HIDE DEF N, doc
  <2>3. Contents(N) \subseteq Contents(Limit)
    BY <2>2, ContentsGrow
  <2>4. Contents(Limit) \subseteq {Value} \cup References \cup Seeded
    BY DEF Contents, References
  <2>5. \A id \in DOMAIN doc.cells :
          doc.cells[id].val \in {Value} \cup References \cup Seeded
    BY <2>1, <2>3, <2>4 DEF Spanned
  <2>6. doc.line = Lined(doc.nodes) /\ Held(doc.cells) \subseteq Ids(doc, DOMAIN doc.nodes)
    BY <2>1 DEF Document, Named
  <2>7. \A t \in DOMAIN doc.threads : t <= (doc.clock + 1) * Width * Cardinality(Clients)
    BY <2>1 DEF Dated
  <2>8. QED
    BY <2>5, <2>6, <2>7 DEF WellFormed, Ids, Seeded, doc
<1>2. composer \in [Clients -> {None} \cup [row : Nat, at : Nat]]
  <2>1. \A c \in Clients : composer[c] \in {None} \cup [row : Nat, at : Nat]
    BY DEF ComposersInv
  <2>2. QED
    BY <2>1 DEF ComposersInv
<1>3. QED
  BY <1>1, <1>2 DEF TypeOK, SheetsInv, ComposersInv

\* Replicas are documents, and the order kept with one is the order its elements
\* say, whatever was merged into it.
THEOREM ReplicasTyped == Spec => []TypeOK
<1>1. SheetsInv /\ ComposersInv => TypeOK
  BY SoundTyped
<1>2. QED
  BY <1>1, CopiesSound, PTL

\* A client on its own orphans no cell and no thread and shows no row twice: both come
\* from merges only, whatever the sheet, the clients and the calls.
THEOREM LocallyClean == Spec => LocalChangesAreClean
<1>1. SheetsInv /\ ComposersInv /\ [Next]_vars
        => [\A c \in Clients : Locally(c) => Orphans(replica'[c]) \subseteq Orphans(replica[c])]_vars
  BY SheetsStep DEF Cleanly
<1>2. SheetsInv /\ ComposersInv /\ [Next]_vars
        => [\A c \in Clients : Locally(c) => Twice(replica'[c]) \subseteq Twice(replica[c])]_vars
  BY SheetsStep DEF Cleanly
<1>3. Spec => OrphansComeFromMerges
  BY <1>1, CopiesSound, PTL DEF Spec, OrphansComeFromMerges
<1>4. Spec => OnlyMergesRepeatRows
  BY <1>2, CopiesSound, PTL DEF Spec, OnlyMergesRepeatRows
<1>5. QED
  BY <1>3, <1>4, PTL DEF LocalChangesAreClean

LEMMA CommentLands ==
    ASSUME SheetsInv, ComposersInv, NEW c \in Clients, painted[c], SubmitComment(c)
    PROVE  \A t \in Held(replica'[c].threads) \ Held(replica[c].threads) :
                replica'[c].threads[t].val = composer[c].row
<1>1. composer[c] # None
  BY DEF SubmitComment
<1>2. Rows(replica[c])[composer[c].at] = composer[c].row
  BY <1>1 DEF ComposersInv, Pinned
<1>3. QED
  BY <1>2, SubmitStep

\* A comment sent from a view that shows the last merge is on the row its composer
\* was opened on.
THEOREM CommentsStay == Spec => CommentsStayOnTheirRow
<1>1. SheetsInv /\ ComposersInv /\ [Next]_vars
        => [\A c \in Commenters :
              painted[c] /\ SubmitComment(c) =>
                \A t \in Held(replica'[c].threads) \ Held(replica[c].threads) :
                    replica'[c].threads[t].val = composer[c].row]_vars
  BY CommentLands, ClientsAssumption
<1>2. QED
  BY <1>1, CopiesSound, PTL DEF Spec, CommentsStayOnTheirRow

-----------------------------------------------------------------------------
(* Sheets that look alike.                                                  *)

\* What the element k of the list has in its cell.
InCell(doc, k) == CellAt(doc, doc.nodes[k].id)
\* The elements j and k, of two replicas, are both shown with the same content, or not.
SameShown(x, j, y, k) ==
    /\ x.nodes[j].live = y.nodes[k].live
    /\ x.nodes[j].live => InCell(x, j) = InCell(y, k)

\* Lists that show the same place by place look the same.
LEMMA ViewsAlike ==
    ASSUME NEW x, NEW b, Document(x, b), NEW y, NEW B, Document(y, B),
           Len(x.line) = Len(y.line),
           \A i \in 1 .. Len(x.line) : SameShown(x, x.line[i], y, y.line[i]),
           Held(x.heights) = Held(y.heights)
    PROVE  View(x) = View(y)
<1> DEFINE one == x.line
           two == y.line
           S == Tombstones(x)
           T == Tombstones(y)
           f == [k \in DOMAIN x.nodes |-> InCell(x, k)]
           g == [k \in DOMAIN y.nodes |-> InCell(y, k)]
<1>1. ListsOnce(one, DOMAIN x.nodes) /\ ListsOnce(two, DOMAIN y.nodes)
  BY LineLists
<1>2. /\ one \in Seq(DOMAIN x.nodes) /\ two \in Seq(DOMAIN y.nodes) /\ Len(one) \in Nat
      /\ \A i \in 1 .. Len(one) : one[i] \in DOMAIN x.nodes /\ two[i] \in DOMAIN y.nodes
  BY <1>1 DEF ListsOnce
<1>3. ASSUME NEW i \in 1 .. Len(one)
      PROVE  /\ (one[i] \in S) = (two[i] \in T)
             /\ one[i] \notin S => f[one[i]] = g[two[i]]
  BY <1>2 DEF SameShown, Tombstones
<1>a. FilteredAlike(one, S, two, T, f, g)
  BY <1>3 DEF FilteredAlike
<1> HIDE DEF one, two, S, T, f, g
<1> DEFINE p == Omitting(one, S)
           q == Omitting(two, T)
<1>4. Len(p) = Len(q) /\ \A k \in 1 .. Len(p) : f[p[k]] = g[q[k]]
  BY <1>2, <1>a, OmittingAlike DEF ShownAlike
<1>5. Shown(x) = p /\ Shown(y) = q
  BY DEF Shown, one, two, S, T
<1> HIDE DEF p, q
<1>6. /\ Len(Rows(x)) = Len(p) /\ Len(Rows(y)) = Len(p) /\ Len(p) \in Nat
      /\ \A k \in 1 .. Len(p) : /\ p[k] \in Live(x) /\ Rows(x)[k] = x.nodes[p[k]].id
                                /\ q[k] \in Live(y) /\ Rows(y)[k] = y.nodes[q[k]].id
  <2>1. /\ Len(Rows(x)) = Len(Shown(x)) /\ Len(Shown(x)) \in Nat
        /\ \A k \in 1 .. Len(Shown(x)) :
              Shown(x)[k] \in Live(x) /\ Rows(x)[k] = x.nodes[Shown(x)[k]].id
    BY RowsAre, ShownLists
  <2>2. /\ Len(Rows(y)) = Len(Shown(y))
        /\ \A k \in 1 .. Len(Shown(y)) :
              Shown(y)[k] \in Live(y) /\ Rows(y)[k] = y.nodes[Shown(y)[k]].id
    BY RowsAre, ShownLists
  <2> QED  BY <1>4, <1>5, <2>1, <2>2
<1>7. \A k \in 1 .. Len(p) : CellAt(x, Rows(x)[k]) = CellAt(y, Rows(y)[k])
  BY <1>4, <1>6 DEF f, g, InCell, Live
<1>8. \A i \in 1 .. Limit : (IF i > Len(Rows(x)) THEN None ELSE CellAt(x, Rows(x)[i])) =
                            (IF i > Len(Rows(y)) THEN None ELSE CellAt(y, Rows(y)[i]))
  <2>1. Limit \in Nat
    BY LimitIs
  <2> QED  BY <1>6, <1>7, <2>1
<1> QED  BY <1>8 DEF View

\* The same list with other elements, bt .. bt + n - 1 in place of at .. at + n - 1.
Twins(one, two, S, at, bt, n) ==
    /\ Len(one) = Len(two)
    /\ \A i \in 1 .. Len(one) : \/ one[i] = two[i] /\ one[i] \in S
                                \/ \E j \in 0 .. n - 1 : one[i] = at + j /\ two[i] = bt + j

LEMMA TwinViews ==
    ASSUME NEW x, NEW b, Document(x, b), NEW y, NEW B, Document(y, B), NEW S,
           NEW at, NEW bt, NEW n, Twins(x.line, y.line, S, at, bt, n),
           \A k \in S : SameShown(x, k, y, k),
           \A j \in 0 .. n - 1 : SameShown(x, at + j, y, bt + j),
           Held(x.heights) = Held(y.heights)
    PROVE  View(x) = View(y)
<1>1. /\ Len(x.line) = Len(y.line)
      /\ \A i \in 1 .. Len(x.line) : SameShown(x, x.line[i], y, y.line[i])
  BY DEF Twins
<1> QED  BY <1>1, ViewsAlike

LEMMA PutTwins ==
    ASSUME NEW o \in Seq(Nat), NEW p \in 1 .. (Len(o) + 1), NEW at \in Nat, NEW bt \in Nat,
           NEW n \in Nat
    PROVE  Twins(PutBefore(o, p, Fresh(at, n)), PutBefore(o, p, Fresh(bt, n)),
                 Elements(o), at, bt, n)
<1> DEFINE F == Fresh(at, n)
           G == Fresh(bt, n)
           one == PutBefore(o, p, F)
           two == PutBefore(o, p, G)
<1>1. /\ F \in Seq(Nat) /\ Len(F) = n /\ \A i \in 1 .. n : F[i] = at + i - 1
      /\ G \in Seq(Nat) /\ Len(G) = n /\ \A i \in 1 .. n : G[i] = bt + i - 1
  BY FreshLists DEF Fresh
<1> HIDE DEF F, G
<1>2. IsPut(one, o, p, F) /\ IsPut(two, o, p, G)
  BY <1>1, PutIs
<1> HIDE DEF one, two
<1>3. Len(one) = Len(o) + n /\ Len(two) = Len(o) + n /\ Len(o) \in Nat /\ DOMAIN o = 1 .. Len(o)
  BY <1>1, <1>2 DEF IsPut
<1>4. ASSUME NEW i \in 1 .. Len(one)
      PROVE  \/ one[i] = two[i] /\ one[i] \in Elements(o)
             \/ \E j \in 0 .. n - 1 : one[i] = at + j /\ two[i] = bt + j
  <2>1. /\ one[i] = IF i < p THEN o[i] ELSE IF i < p + n THEN F[i - p + 1] ELSE o[i - n]
        /\ two[i] = IF i < p THEN o[i] ELSE IF i < p + n THEN G[i - p + 1] ELSE o[i - n]
    BY <1>1, <1>2, <1>3 DEF IsPut
  <2>2. CASE i < p
    <3>1. i \in DOMAIN o
      BY <1>3, <2>2
    <3> QED  BY <2>1, <2>2, <3>1 DEF Elements
  <2>3. CASE i >= p /\ i < p + n
    <3>1. i - p \in 0 .. n - 1 /\ i - p + 1 \in 1 .. n /\ ~(i < p)
      BY <1>3, <2>3
    <3>2. F[i - p + 1] = at + (i - p) /\ G[i - p + 1] = bt + (i - p)
      BY <1>1, <1>3, <3>1
    <3> QED  BY <2>1, <2>3, <3>1, <3>2
  <2>4. CASE i >= p + n
    <3>1. i - n \in DOMAIN o /\ ~(i < p) /\ ~(i < p + n)
      BY <1>3, <2>4
    <3> QED  BY <2>1, <2>4, <3>1 DEF Elements
  <2> QED  BY <1>3, <2>2, <2>3, <2>4
<1> QED  BY <1>3, <1>4 DEF Twins, one, two, F, G

\* Two rows of elements that go in at places of their own may go in in either order.
LEMMA PutTwice ==
    ASSUME NEW o \in Seq(Nat), NEW q \in 1 .. (Len(o) + 1), NEW p \in 1 .. q,
           NEW at \in Nat, NEW bt \in Nat, NEW n \in Nat, NEW other \in Seq(Nat)
    PROVE  Twins(PutBefore(PutBefore(o, p, Fresh(at, n)), q + n, other),
                 PutBefore(PutBefore(o, q, other), p, Fresh(bt, n)),
                 Elements(o) \cup Elements(other), at, bt, n)
<1> DEFINE F == Fresh(at, n)
           G == Fresh(bt, n)
           u == PutBefore(o, p, F)
           v == PutBefore(o, q, other)
           one == PutBefore(u, q + n, other)
           two == PutBefore(v, p, G)
           l == Len(o)
           m == Len(other)
<1>1. /\ F \in Seq(Nat) /\ Len(F) = n /\ \A i \in 1 .. n : F[i] = at + i - 1
      /\ G \in Seq(Nat) /\ Len(G) = n /\ \A i \in 1 .. n : G[i] = bt + i - 1
  BY FreshLists DEF Fresh
<1>2. l \in Nat /\ m \in Nat /\ DOMAIN o = 1 .. l /\ DOMAIN other = 1 .. m /\ p \in 1 .. l + 1
      /\ p \in Nat /\ q \in Nat
  OBVIOUS
<1> HIDE DEF F, G
<1>3. IsPut(u, o, p, F) /\ IsPut(v, o, q, other)
  BY <1>1, <1>2, PutIs
<1> HIDE DEF u, v
<1>4. /\ u \in Seq(Nat) /\ Len(u) = l + n /\ q + n \in 1 .. (Len(u) + 1)
      /\ v \in Seq(Nat) /\ Len(v) = l + m /\ p \in 1 .. (Len(v) + 1)
  BY <1>1, <1>2, <1>3 DEF IsPut
<1>5. IsPut(one, u, q + n, other) /\ IsPut(two, v, p, G)
  BY <1>1, <1>4, PutIs
<1> HIDE DEF one, two
<1>6. Len(one) = l + n + m /\ Len(two) = l + n + m
  BY <1>1, <1>2, <1>4, <1>5 DEF IsPut
<1>7. ASSUME NEW i \in 1 .. Len(one)
      PROVE  \/ one[i] = two[i] /\ one[i] \in Elements(o) \cup Elements(other)
             \/ \E j \in 0 .. n - 1 : one[i] = at + j /\ two[i] = bt + j
  <2>1. /\ one[i] = IF i < q + n THEN u[i]
                    ELSE IF i < q + n + m THEN other[i - (q + n) + 1] ELSE u[i - m]
        /\ two[i] = IF i < p THEN v[i] ELSE IF i < p + n THEN G[i - p + 1] ELSE v[i - n]
    BY <1>1, <1>2, <1>5, <1>6 DEF IsPut
  <2>2. \A k \in 1 .. l + n :
           u[k] = IF k < p THEN o[k] ELSE IF k < p + n THEN F[k - p + 1] ELSE o[k - n]
    BY <1>1, <1>3, <1>4 DEF IsPut
  <2>3. \A k \in 1 .. l + m :
           v[k] = IF k < q THEN o[k] ELSE IF k < q + m THEN other[k - q + 1] ELSE o[k - m]
    BY <1>2, <1>3, <1>4 DEF IsPut
  <2>4. CASE i < p
    <3>1. i \in 1 .. l /\ i < q + n /\ i < q
      BY <1>2, <1>6, <2>4
    <3>a. i \in 1 .. l + n /\ i \in 1 .. l + m /\ i \in DOMAIN o
      BY <1>2, <3>1
    <3>2. one[i] = o[i] /\ two[i] = o[i]
      BY <2>1, <2>2, <2>3, <2>4, <3>1, <3>a
    <3> QED  BY <3>a, <3>2 DEF Elements
  <2>5. CASE i >= p /\ i < p + n
    <3>1. i - p \in 0 .. n - 1 /\ i - p + 1 \in 1 .. n /\ i \in 1 .. l + n /\ i < q + n /\ ~(i < p)
      BY <1>2, <2>5
    <3>2. F[i - p + 1] = at + (i - p) /\ G[i - p + 1] = bt + (i - p)
      BY <1>1, <1>2, <3>1
    <3>3. one[i] = F[i - p + 1] /\ two[i] = G[i - p + 1]
      BY <2>1, <2>2, <2>5, <3>1
    <3> QED  BY <3>1, <3>2, <3>3
  <2>6. CASE i >= p + n /\ i < q + n
    <3>1. /\ i - n \in DOMAIN o /\ i - n \in 1 .. l + m /\ i \in 1 .. l + n /\ i - n < q
          /\ ~(i < p) /\ ~(i < p + n)
      BY <1>2, <2>6
    <3>2. one[i] = o[i - n] /\ two[i] = o[i - n]
      BY <2>1, <2>2, <2>3, <2>6, <3>1
    <3> QED  BY <3>1, <3>2 DEF Elements
  <2>7. CASE i >= q + n /\ i < q + n + m
    <3>1. /\ i - (q + n) + 1 \in DOMAIN other /\ i - n \in 1 .. l + m /\ ~(i < q + n)
          /\ ~(i - n < q) /\ i - n < q + m /\ i - n - q + 1 = i - (q + n) + 1
          /\ ~(i < p) /\ ~(i < p + n)
      BY <1>2, <1>6, <2>7
    <3>2. one[i] = other[i - (q + n) + 1] /\ two[i] = other[i - n - q + 1]
      BY <2>1, <2>3, <2>7, <3>1
    <3> QED  BY <3>1, <3>2 DEF Elements
  <2>8. CASE i >= q + n + m
    <3>1. /\ i - m \in 1 .. l + n /\ i - n \in 1 .. l + m /\ i - m - n \in DOMAIN o
          /\ ~(i < q + n) /\ ~(i < q + n + m) /\ ~(i < p) /\ ~(i < p + n)
          /\ ~(i - m < p) /\ ~(i - m < p + n) /\ ~(i - n < q) /\ ~(i - n < q + m)
          /\ i - n - m = i - m - n
      BY <1>2, <1>6, <2>8
    <3>2. one[i] = u[i - m] /\ two[i] = v[i - n]
      BY <2>1, <3>1
    <3>3. u[i - m] = o[i - m - n] /\ v[i - n] = o[i - n - m]
      BY <2>2, <2>3, <3>1
    <3> QED  BY <3>1, <3>2, <3>3 DEF Elements
  <2> QED  BY <1>2, <1>6, <2>4, <2>5, <2>6, <2>7, <2>8
<1> QED  BY <1>6, <1>7 DEF Twins, one, two, u, v, F, G

-----------------------------------------------------------------------------
(* When what cells and heights hold was written.                            *)

\* The entries of record are those of old, dead or alive, and ones written with the ticket t.
Dates(old, record, t) ==
    \A k \in DOMAIN record : record[k].at = t \/ (k \in DOMAIN old /\ record[k].at = old[k].at)
WrittenBy(doc, d, t) == Dates(doc.cells, d.cells, t) /\ Dates(doc.heights, d.heights, t)

LEMMA DatesSame ==
    ASSUME NEW old, NEW t
    PROVE  Dates(old, old, t)
BY DEF Dates

LEMMA DatesOn ==
    ASSUME NEW f, NEW g, NEW h, NEW t, Dates(f, g, t), Dates(g, h, t)
    PROVE  Dates(f, h, t)
<1>1. ASSUME NEW k \in DOMAIN h
      PROVE  h[k].at = t \/ (k \in DOMAIN f /\ h[k].at = f[k].at)
  <2>1. h[k].at = t \/ (k \in DOMAIN g /\ h[k].at = g[k].at)
    BY DEF Dates
  <2>2. k \in DOMAIN g => g[k].at = t \/ (k \in DOMAIN f /\ g[k].at = f[k].at)
    BY DEF Dates
  <2> QED  BY <2>1, <2>2
<1> QED  BY <1>1 DEF Dates

LEMMA StampedDates ==
    ASSUME NEW old, NEW f, NEW t
    PROVE  Dates(old, Stamped(old, f, t), t)
<1> DEFINE r == Stamped(old, f, t)
<1>1. ASSUME NEW k \in DOMAIN r
      PROVE  r[k].at = t \/ (k \in DOMAIN old /\ r[k].at = old[k].at)
  <2>1. CASE k \in DOMAIN f
    <3>1. r[k] = [at |-> t, val |-> f[k], live |-> TRUE]
      <4>1. k \in DOMAIN old \cup DOMAIN f
        BY <2>1
      <4> QED  BY <2>1, <4>1 DEF Stamped
    <3> QED  BY <3>1
  <2>2. CASE k \notin DOMAIN f
    BY <2>2 DEF Stamped
  <2> QED  BY <2>1, <2>2
<1> QED  BY <1>1 DEF Dates

LEMMA ErasedDates ==
    ASSUME NEW old, Entries(old), NEW keys, NEW t
    PROVE  Dates(old, Erased(old, keys), t)
<1> DEFINE r == Erased(old, keys)
<1>1. DOMAIN r = DOMAIN old
  BY DEF Erased
<1>2. ASSUME NEW k \in DOMAIN old  PROVE r[k].at = old[k].at
  <2>1. old[k] = [at |-> old[k].at, val |-> old[k].val, live |-> old[k].live]
    BY DEF Entries, Entry
  <2>2. r[k] = IF k \in keys THEN [old[k] EXCEPT !.live = FALSE] ELSE old[k]
    BY DEF Erased
  <2>3. [old[k] EXCEPT !.live = FALSE].at = old[k].at
    BY <2>1
  <2> QED  BY <2>2, <2>3
<1> HIDE DEF r
<1> QED  BY <1>1, <1>2 DEF Dates, r

\* A record with the fields of a replica, whatever is in them.
Shaped(doc) ==
    doc = [clock |-> doc.clock, nodes |-> doc.nodes, line |-> doc.line,
           cells |-> doc.cells, heights |-> doc.heights, threads |-> doc.threads]

\* InsertBehind leaves the records alone, and the elements that are there.
LEMMA InsertKeepsRecords ==
    ASSUME NEW doc, Shaped(doc), NEW after, NEW at, NEW ids
    PROVE  LET d == InsertBehind(doc, after, at, ids)
               new == at .. at + Len(ids) - 1
           IN  /\ Shaped(d) /\ d.clock = doc.clock
               /\ d.line = PutBefore(doc.line, Place(doc.line, after) + 1, Fresh(at, Len(ids)))
               /\ DOMAIN d.nodes = DOMAIN doc.nodes \cup new
               /\ \A k \in DOMAIN doc.nodes : d.nodes[k] = doc.nodes[k]
               /\ \A k \in new \ DOMAIN doc.nodes :
                     d.nodes[k] = [id |-> ids[k - at + 1], at |-> k, live |-> TRUE,
                                   after |-> IF k = at THEN after ELSE k - 1]
               /\ d.cells = doc.cells /\ d.heights = doc.heights /\ d.threads = doc.threads
<1> DEFINE d == InsertBehind(doc, after, at, ids)
           new == at .. at + Len(ids) - 1
           D == DOMAIN doc.nodes
           made(k) == [id |-> ids[k - at + 1], at |-> k, live |-> TRUE,
                       after |-> IF k = at THEN after ELSE k - 1]
           line == PutBefore(doc.line, Place(doc.line, after) + 1, Fresh(at, Len(ids)))
           nodes == [k \in D \cup new |-> IF k \in D THEN doc.nodes[k] ELSE made(k)]
<1>1. d = [doc EXCEPT !.line = line, !.nodes = nodes]
  BY DEF InsertBehind
<1>2. DOMAIN nodes = D \cup new
  OBVIOUS
<1>3. \A k \in D : nodes[k] = doc.nodes[k]
  OBVIOUS
<1>4. \A k \in new \ D : nodes[k] = made(k)
  OBVIOUS
<1> HIDE DEF d, line, nodes, made, new, D
<1>5. d = [clock |-> doc.clock, nodes |-> nodes, line |-> line, cells |-> doc.cells,
           heights |-> doc.heights, threads |-> doc.threads]
  BY <1>1 DEF Shaped
<1>6. /\ d.clock = doc.clock /\ d.nodes = nodes /\ d.line = line /\ d.cells = doc.cells
      /\ d.heights = doc.heights /\ d.threads = doc.threads
  BY <1>5
<1>7. Shaped(d)
  BY <1>5, <1>6 DEF Shaped
<1> QED  BY <1>2, <1>3, <1>4, <1>6, <1>7 DEF d, line, made, new, D

\* What a structural edit makes of cells and heights, once the list is as it leaves it.
LEMMA ShiftRecords ==
    ASSUME NEW doc, Shaped(doc), NEW t, NEW i, NEW count
    PROVE  LET d == ShiftedSheet(doc, t, i, count)
           IN  /\ Shaped(d) /\ d.clock = doc.clock /\ d.nodes = doc.nodes /\ d.line = doc.line
               /\ d.threads = doc.threads
               /\ d.cells = Stamped(doc.cells, ShiftedFormulas(doc, i, count), t)
               /\ \E new : /\ d.heights = Stamped(Erased(doc.heights, Held(doc.heights)), new, t)
                           /\ DOMAIN new = ShiftIndexSet(Held(doc.heights), i, count)
<1> DEFINE Rename(k) == ShiftIndex(k, i, count)
           f == ShiftedFormulas(doc, i, count)
           e == RewriteFormulas(doc, t, Rename)
           d == ReplaceHeights(e, t, Rename)
           old == [k \in Held(e.heights) |-> e.heights[k].val]
           new == Rekey(old, Rename)
<1>1. DOMAIN new = {Rename(k) : k \in {k \in DOMAIN old : Rename(k) # Gone}}
  BY DEF Rekey
<1>2. DOMAIN new = ShiftIndexSet(Held(e.heights), i, count)
  BY <1>1 DEF ShiftIndexSet
<1>3. e = [doc EXCEPT !.cells = Stamped(@, f, t)]
  BY DEF RewriteFormulas, Written, Stamped, ShiftedFormulas
<1>4. d = [e EXCEPT !.heights = Stamped(Erased(@, DOMAIN old), new, t)]
  BY DEF ReplaceHeights, Written, Stamped
<1>5. ShiftedSheet(doc, t, i, count) = d /\ DOMAIN old = Held(e.heights)
  BY DEF ShiftedSheet
<1> HIDE DEF f, e, d, old, new
<1>6. /\ Shaped(e) /\ e.clock = doc.clock /\ e.nodes = doc.nodes /\ e.line = doc.line
      /\ e.threads = doc.threads /\ e.heights = doc.heights /\ e.cells = Stamped(doc.cells, f, t)
  BY <1>3 DEF Shaped
<1>7. /\ Shaped(d) /\ d.clock = e.clock /\ d.nodes = e.nodes /\ d.line = e.line
      /\ d.threads = e.threads /\ d.cells = e.cells
      /\ d.heights = Stamped(Erased(e.heights, DOMAIN old), new, t)
  BY <1>4, <1>6 DEF Shaped
<1> QED  BY <1>2, <1>5, <1>6, <1>7 DEF f

LEMMA MoveRecords ==
    ASSUME NEW doc, Shaped(doc), NEW t, NEW src, NEW n, NEW dst
    PROVE  LET d == MovedSheet(doc, t, src, n, dst)
           IN  /\ Shaped(d) /\ d.cells = Stamped(doc.cells, MovedFormulas(doc, src, n, dst), t)
               /\ \E new : d.heights = Stamped(Erased(doc.heights, Held(doc.heights)), new, t)
<1> DEFINE Rename(k) == RemapIndex(k, src, n, dst)
           f == MovedFormulas(doc, src, n, dst)
           e == RewriteFormulas(doc, t, Rename)
           d == ReplaceHeights(e, t, Rename)
           old == [k \in Held(e.heights) |-> e.heights[k].val]
           new == Rekey(old, Rename)
<1>3. e = [doc EXCEPT !.cells = Stamped(@, f, t)]
  BY DEF RewriteFormulas, Written, Stamped, MovedFormulas
<1>4. d = [e EXCEPT !.heights = Stamped(Erased(@, DOMAIN old), new, t)]
  BY DEF ReplaceHeights, Written, Stamped
<1>5. MovedSheet(doc, t, src, n, dst) = d /\ DOMAIN old = Held(e.heights)
  BY DEF MovedSheet
<1> HIDE DEF f, e, d, old, new
<1>6. Shaped(e) /\ e.heights = doc.heights /\ e.cells = Stamped(doc.cells, f, t)
  BY <1>3 DEF Shaped
<1>7. /\ Shaped(d) /\ d.cells = e.cells
      /\ d.heights = Stamped(Erased(e.heights, DOMAIN old), new, t)
  BY <1>4, <1>6 DEF Shaped
<1> QED  BY <1>5, <1>6, <1>7 DEF f

\* A record with entries of its own erased and others stamped.
LEMMA RewritesDate ==
    ASSUME NEW old, Entries(old), NEW keys, NEW f, NEW t
    PROVE  Dates(old, Stamped(Erased(old, keys), f, t), t)
<1> DEFINE erased == Erased(old, keys)
           r == Stamped(erased, f, t)
<1>1. Dates(old, erased, t)
  BY ErasedDates
<1> HIDE DEF erased
<1>2. Dates(erased, r, t)
  BY StampedDates
<1> HIDE DEF r
<1>3. Dates(old, r, t)
  BY <1>1, <1>2, DatesOn
<1> QED  BY <1>3 DEF r, erased

LEMMA GrowKeepsRecords ==
    ASSUME NEW doc, Shaped(doc), NEW at, NEW len
    PROVE  LET g == Grow(doc, at, len)
           IN  /\ Shaped(g) /\ g.clock = doc.clock
               /\ g.cells = doc.cells /\ g.heights = doc.heights /\ g.threads = doc.threads
<1> DEFINE missing == MaxOf(0, len - Len(Shown(doc)))
           after == IF doc.line = <<>> THEN 0 ELSE Last(doc.line)
           ids == Fresh(at, missing)
<1>1. Grow(doc, at, len) = InsertBehind(doc, after, at, ids)
  BY DEF Grow
<1> HIDE DEF missing, after, ids
<1> QED  BY <1>1, InsertKeepsRecords

\* What the calls make of a replica.
LEMMA InsertRecords ==
    ASSUME NEW doc, Shaped(doc), NEW t, NEW i, NEW n
    PROVE  LET d == InsertRows(doc, t, i, n)
               g == Grow(doc, t, i - 1)
               w == InsertBehind(g, ElementBefore(g, i), t + Limit, Fresh(t + Limit, n))
           IN  /\ Shaped(d) /\ d.clock = doc.clock /\ d.nodes = w.nodes /\ d.line = w.line
               /\ w.cells = doc.cells
               /\ d.cells = Stamped(doc.cells, ShiftedFormulas(w, i, n), t)
               /\ \E new : /\ d.heights = Stamped(Erased(doc.heights, Held(doc.heights)), new, t)
                           /\ DOMAIN new = ShiftIndexSet(Held(doc.heights), i, n)
<1> DEFINE d == InsertRows(doc, t, i, n)
           g == Grow(doc, t, i - 1)
           after == ElementBefore(g, i)
           at == t + Limit
           ids == Fresh(at, n)
           w == InsertBehind(g, after, at, ids)
<1>1. d = ShiftedSheet(w, t, i, n)
  BY DEF InsertRows, ShiftedSheet
<1>2. /\ Shaped(g) /\ g.clock = doc.clock
      /\ g.cells = doc.cells /\ g.heights = doc.heights
  BY GrowKeepsRecords
<1> HIDE DEF d, g, after, ids, at
<1>3. Shaped(w) /\ w.clock = doc.clock /\ w.cells = doc.cells /\ w.heights = doc.heights
  BY <1>2, InsertKeepsRecords
<1> HIDE DEF w
<1>4. /\ Shaped(d) /\ d.clock = w.clock /\ d.nodes = w.nodes /\ d.line = w.line
      /\ d.cells = Stamped(w.cells, ShiftedFormulas(w, i, n), t)
      /\ \E new : /\ d.heights = Stamped(Erased(w.heights, Held(w.heights)), new, t)
                  /\ DOMAIN new = ShiftIndexSet(Held(w.heights), i, n)
  BY <1>1, <1>3, ShiftRecords
<1>5. /\ Shaped(d) /\ d.clock = doc.clock /\ d.nodes = w.nodes /\ d.line = w.line
      /\ w.cells = doc.cells
      /\ d.cells = Stamped(doc.cells, ShiftedFormulas(w, i, n), t)
      /\ \E new : /\ d.heights = Stamped(Erased(doc.heights, Held(doc.heights)), new, t)
                  /\ DOMAIN new = ShiftIndexSet(Held(doc.heights), i, n)
  BY <1>3, <1>4
<1> QED  BY <1>5 DEF d, w, ids, at, after, g

\* The elements that leave the list, and their ids.
LastCut(doc, i, n) == MinOf(i + n - 1, Len(Shown(doc)))
TakenOut(doc, i, n) == {Shown(doc)[j] : j \in i .. LastCut(doc, i, n)}
Removed(doc, i, n) == ToSet(SubSeq(Rows(doc), i, MinOf(i + n - 1, Len(Rows(doc)))))
\* doc without them and their cells: what DeleteRows rewrites the formulas of.
Shortened(doc, i, n) ==
    [doc EXCEPT !.nodes = Erased(doc.nodes, TakenOut(doc, i, n)),
                !.cells = Erased(doc.cells, Removed(doc, i, n))]

LEMMA ShortenedIs ==
    ASSUME NEW doc, Shaped(doc), NEW i, NEW n
    PROVE  LET d == Shortened(doc, i, n)
           IN  /\ Shaped(d) /\ d.clock = doc.clock /\ d.line = doc.line
               /\ d.nodes = Erased(doc.nodes, TakenOut(doc, i, n))
               /\ d.cells = Erased(doc.cells, Removed(doc, i, n))
               /\ d.heights = doc.heights /\ d.threads = doc.threads
<1> DEFINE d == Shortened(doc, i, n)
           nodes == Erased(doc.nodes, TakenOut(doc, i, n))
           cells == Erased(doc.cells, Removed(doc, i, n))
<1>1. d = [doc EXCEPT !.nodes = nodes, !.cells = cells]
  BY DEF Shortened
<1> HIDE DEF d, nodes, cells
<1>2. d = [clock |-> doc.clock, nodes |-> nodes, line |-> doc.line, cells |-> cells,
           heights |-> doc.heights, threads |-> doc.threads]
  BY <1>1 DEF Shaped
<1>3. /\ d.clock = doc.clock /\ d.nodes = nodes /\ d.line = doc.line /\ d.cells = cells
      /\ d.heights = doc.heights /\ d.threads = doc.threads
  BY <1>2
<1>4. Shaped(d)
  BY <1>2, <1>3 DEF Shaped
<1> QED  BY <1>3, <1>4 DEF d, nodes, cells

LEMMA DeleteRecords ==
    ASSUME NEW doc, Shaped(doc), NEW t, NEW i, NEW n
    PROVE  LET d == DeleteRows(doc, t, i, n)
               cut == Shortened(doc, i, n)
           IN  /\ Shaped(d) /\ d.clock = doc.clock /\ d.nodes = cut.nodes /\ d.line = doc.line
               /\ d.cells = Stamped(cut.cells, ShiftedFormulas(cut, i, -n), t)
               /\ \E new : /\ d.heights = Stamped(Erased(doc.heights, Held(doc.heights)), new, t)
                           /\ DOMAIN new = ShiftIndexSet(Held(doc.heights), i, -n)
<1> DEFINE d == DeleteRows(doc, t, i, n)
           cut == Shortened(doc, i, n)
           short == Cut(doc, i, n)
           nodes == Erased(doc.nodes, TakenOut(doc, i, n))
           removed == Removed(doc, i, n)
           again == [short EXCEPT !.cells = Erased(@, removed)]
           count == -n
           shifted == ShiftedSheet(again, t, i, count)
           orphans == {th \in Held(shifted.threads) : shifted.threads[th].val \in removed}
           threads == Erased(shifted.threads, orphans)
<1>1. /\ Shaped(cut) /\ cut.clock = doc.clock /\ cut.line = doc.line /\ cut.nodes = nodes
      /\ cut.cells = Erased(doc.cells, removed)
      /\ cut.heights = doc.heights /\ cut.threads = doc.threads
  BY ShortenedIs
<1>2. short = [doc EXCEPT !.nodes = nodes]
  BY DEF Cut, TakenOut, LastCut
<1>3. d = [shifted EXCEPT !.threads = threads]
  BY DEF DeleteRows, ShiftedSheet, Removed
<1> HIDE DEF d, shifted, short, nodes, cut, removed
<1>4. /\ short = [clock |-> doc.clock, nodes |-> nodes, line |-> doc.line, cells |-> doc.cells,
                  heights |-> doc.heights, threads |-> doc.threads]
  BY <1>2 DEF Shaped
<1>5. again = [clock |-> doc.clock, nodes |-> nodes, line |-> doc.line,
               cells |-> Erased(doc.cells, removed),
               heights |-> doc.heights, threads |-> doc.threads]
  BY <1>4
<1> HIDE DEF again
<1>6. cut = again
  BY <1>1, <1>5 DEF Shaped
<1>7. /\ Shaped(shifted) /\ shifted.clock = cut.clock /\ shifted.nodes = cut.nodes
      /\ shifted.line = cut.line
      /\ shifted.cells = Stamped(cut.cells, ShiftedFormulas(cut, i, count), t)
      /\ \E new : /\ shifted.heights = Stamped(Erased(cut.heights, Held(cut.heights)), new, t)
                  /\ DOMAIN new = ShiftIndexSet(Held(cut.heights), i, count)
  <2>1. shifted = ShiftedSheet(cut, t, i, count)
    BY <1>6 DEF shifted
  <2> HIDE DEF count
  <2> QED  BY <1>1, <2>1, ShiftRecords
<1> HIDE DEF threads
<1>8. d = [clock |-> shifted.clock, nodes |-> shifted.nodes, line |-> shifted.line,
           cells |-> shifted.cells, heights |-> shifted.heights, threads |-> threads]
  BY <1>3, <1>7 DEF Shaped
<1>9. /\ d.clock = shifted.clock /\ d.nodes = shifted.nodes /\ d.line = shifted.line
      /\ d.cells = shifted.cells /\ d.heights = shifted.heights /\ d.threads = threads
  BY <1>8
<1>10. Shaped(d)
  BY <1>8, <1>9 DEF Shaped
<1>11. /\ d.clock = doc.clock /\ d.nodes = cut.nodes /\ d.line = doc.line
       /\ d.cells = Stamped(cut.cells, ShiftedFormulas(cut, i, count), t)
       /\ \E new : /\ d.heights = Stamped(Erased(doc.heights, Held(doc.heights)), new, t)
                   /\ DOMAIN new = ShiftIndexSet(Held(doc.heights), i, count)
  BY <1>1, <1>7, <1>9
<1> QED  BY <1>10, <1>11 DEF d, cut

LEMMA MovedRecords ==
    ASSUME NEW doc, Shaped(doc), NEW t, NEW src, NEW n, NEW dst
    PROVE  LET d == MoveRows(doc, t, src, n, dst)
           IN  /\ Shaped(d) /\ \E f : d.cells = Stamped(doc.cells, f, t)
               /\ \E new : d.heights = Stamped(Erased(doc.heights, Held(doc.heights)), new, t)
<1> DEFINE len == MaxOf(src + n - 1, dst - 1)
           g == Grow(doc, t, len)
           ids == SubSeq(Rows(g), src, src + n - 1)
           taken == {Shown(g)[j] : j \in src .. MinOf(src + n - 1, Len(Shown(g)))}
           nodes == Erased(g.nodes, taken)
           cut == Cut(g, src, n)
           to == IF dst > src THEN dst - n ELSE dst
           after == ElementBefore(cut, to)
           at == t + Limit
           w == InsertBehind(cut, after, at, ids)
           d == MoveRows(doc, t, src, n, dst)
<1>1. d = MovedSheet(w, t, src, n, dst)
  BY DEF MoveRows, MovedSheet
<1>2. cut = [g EXCEPT !.nodes = nodes]
  BY DEF Cut
<1> HIDE DEF len, to
<1>3. Shaped(g) /\ g.cells = doc.cells /\ g.heights = doc.heights
  BY GrowKeepsRecords
<1> HIDE DEF d, cut, nodes, g, ids, after, at
<1>4. cut = [clock |-> g.clock, nodes |-> nodes, line |-> g.line, cells |-> g.cells,
             heights |-> g.heights, threads |-> g.threads]
  BY <1>2, <1>3 DEF Shaped
<1>5. Shaped(cut) /\ cut.cells = doc.cells /\ cut.heights = doc.heights
  BY <1>3, <1>4 DEF Shaped
<1>6. Shaped(w) /\ w.cells = doc.cells /\ w.heights = doc.heights
  BY <1>5, InsertKeepsRecords
<1> HIDE DEF w
<1>7. /\ Shaped(d) /\ d.cells = Stamped(w.cells, MovedFormulas(w, src, n, dst), t)
      /\ \E new : d.heights = Stamped(Erased(w.heights, Held(w.heights)), new, t)
  BY <1>1, <1>6, MoveRecords
<1> QED  BY <1>6, <1>7 DEF d

\* e has the list of doc, element by element.
SameList(doc, e) ==
    /\ e.line = doc.line /\ DOMAIN e.nodes = DOMAIN doc.nodes
    /\ \A k \in DOMAIN doc.nodes : e.nodes[k] = doc.nodes[k]

LEMMA SameListShows ==
    ASSUME NEW doc, NEW b, Document(doc, b), NEW e, SameList(doc, e)
    PROVE  Shown(e) = Shown(doc) /\ Rows(e) = Rows(doc)
<1>1. Tombstones(e) = Tombstones(doc)
  BY DEF SameList, Tombstones
<1>2. Shown(e) = Shown(doc)
  BY <1>1 DEF Shown, SameList
<1>3. \A i \in DOMAIN Shown(doc) : Shown(doc)[i] \in DOMAIN doc.nodes
  <2>1. DOMAIN Shown(doc) = 1 .. Len(Shown(doc))
    BY ShownLists
  <2>2. \A i \in 1 .. Len(Shown(doc)) : Shown(doc)[i] \in Live(doc)
    BY RowsAre
  <2> QED  BY <2>1, <2>2 DEF Live
<1>4. \A i \in DOMAIN Shown(doc) : e.nodes[Shown(doc)[i]].id = doc.nodes[Shown(doc)[i]].id
  BY <1>3 DEF SameList
<1> QED  BY <1>2, <1>4 DEF Rows

\* Nothing is added if the list is long enough.
LEMMA GrowNone ==
    ASSUME NEW doc, NEW b, Document(doc, b), NEW at \in Nat, NEW len \in Int,
           len <= Len(Shown(doc))
    PROVE  LET g == Grow(doc, at, len)
           IN  /\ Shaped(g) /\ SameList(doc, g) /\ g.clock = doc.clock
               /\ g.cells = doc.cells /\ g.heights = doc.heights /\ g.threads = doc.threads
<1> DEFINE after == IF doc.line = <<>> THEN 0 ELSE Last(doc.line)
           ids == Fresh(at, 0)
           w == InsertBehind(doc, after, at, ids)
           p == Place(doc.line, after) + 1
           o == doc.line
           line == PutBefore(o, p, Fresh(at, Len(ids)))
<1>1. Grow(doc, at, len) = w
  <2>1. Len(Shown(doc)) \in Nat
    BY ShownLists
  <2>2. MaxOf(0, len - Len(Shown(doc))) = 0
    BY <2>1 DEF MaxOf
  <2> QED  BY <2>2 DEF Grow
<1>2. ids \in Seq(at .. at + 0 - 1) /\ Len(ids) = 0
  BY FreshLists
<1>3. ListsOnce(o, DOMAIN doc.nodes) /\ DOMAIN doc.nodes \subseteq Nat
  BY LineLists DEF Document, OfElements
<1>4. o \in Seq(Nat) /\ p \in 1 .. (Len(o) + 1)
  <2>1. o \in Seq(DOMAIN doc.nodes) /\ o \in Seq(Nat) /\ Len(o) \in Nat
    BY <1>3, SeqOfMore DEF ListsOnce
  <2> HIDE DEF o, after
  <2>2. Place(o, after) \in 0 .. Len(o)
    BY <2>1, PlaceOf
  <2> QED  BY <2>1, <2>2 DEF o
<1>5. /\ Shaped(w) /\ w.clock = doc.clock
      /\ w.line = line
      /\ DOMAIN w.nodes = DOMAIN doc.nodes \cup at .. at + Len(ids) - 1
      /\ \A k \in DOMAIN doc.nodes : w.nodes[k] = doc.nodes[k]
      /\ w.cells = doc.cells /\ w.heights = doc.heights /\ w.threads = doc.threads
  <2>1. Shaped(doc)
    BY DEF Document, Shaped
  <2> HIDE DEF after, ids, w
  <2> QED  BY <2>1, InsertKeepsRecords DEF w
<1>6. line = o
  <2> DEFINE new == Fresh(at, Len(ids))
  <2>1. new \in Seq(Nat) /\ Len(new) = 0
    <3>1. new \in Seq(at .. at + 0 - 1) /\ Len(new) = 0 /\ at .. at + 0 - 1 \subseteq Nat
      BY <1>2, FreshLists
    <3> HIDE DEF new
    <3> QED  BY <3>1, SeqOfMore
  <2> HIDE DEF new, p, o
  <2>2. IsPut(line, o, p, new)
    BY <1>4, <2>1, PutIs DEF new
  <2> HIDE DEF line
  <2>3. /\ line \in Seq(Nat) /\ Len(line) = Len(o) /\ Len(o) \in Nat
        /\ \A i \in 1 .. Len(line) :
              line[i] = IF i < p THEN o[i] ELSE IF i < p + 0 THEN new[i - p + 1] ELSE o[i - 0]
    BY <1>4, <2>1, <2>2 DEF IsPut
  <2>4. \A i \in 1 .. Len(o) : line[i] = o[i]
    BY <1>4, <2>3
  <2> HIDE DEF o
  <2> QED  BY <1>4, <2>3, <2>4, SeqEqual
<1>7. DOMAIN w.nodes = DOMAIN doc.nodes
  <2>1. at .. at + Len(ids) - 1 = {}
    BY <1>2
  <2> QED  BY <1>5, <2>1
<1> HIDE DEF w, line, p, ids, after
<1>8. SameList(doc, w)
  BY <1>5, <1>6, <1>7 DEF SameList
<1> QED  BY <1>1, <1>5, <1>8

\* A value written to, or taken out of, the cell of a row.
TypedCell(f, id, v, t) == IF v THEN Stamped(f, [k \in {id} |-> Value], t) ELSE Erased(f, {id})
Types(doc, e, id, v, t) ==
    SameList(doc, e) /\ e.heights = doc.heights /\ e.cells = TypedCell(doc.cells, id, v, t)
Sizes(doc, e, i, t) ==
    SameList(doc, e) /\ e.cells = doc.cells
        /\ e.heights = Stamped(doc.heights, [k \in {i} |-> Height], t)
\* The heights are written again.
Reheights(doc, e, i, count, t) ==
    \E new : /\ e.heights = Stamped(Erased(doc.heights, Held(doc.heights)), new, t)
             /\ DOMAIN new = ShiftIndexSet(Held(doc.heights), i, count)

LEMMA SetCellTypes ==
    ASSUME NEW doc, NEW b, Document(doc, b), NEW t \in Nat, NEW i \in Nat, i <= Len(Shown(doc))
    PROVE  Types(doc, SetCell(doc, t, i, Value), Rows(doc)[i], TRUE, t)
<1> DEFINE g == Grow(doc, t, i)
           d == SetCell(doc, t, i, Value)
           cells == TypedCell(g.cells, Rows(g)[i], TRUE, t)
<1>1. /\ Shaped(g) /\ SameList(doc, g) /\ g.clock = doc.clock
      /\ g.cells = doc.cells /\ g.heights = doc.heights /\ g.threads = doc.threads
  BY GrowNone
<1>2. d = [g EXCEPT !.cells = cells]
  BY DEF SetCell, Written, TypedCell, Stamped
<1> HIDE DEF g, d, cells
<1>3. Rows(g) = Rows(doc)
  BY <1>1, SameListShows
<1>4. d = [clock |-> g.clock, nodes |-> g.nodes, line |-> g.line, cells |-> cells,
           heights |-> g.heights, threads |-> g.threads]
  BY <1>1, <1>2 DEF Shaped
<1>5. d.nodes = g.nodes /\ d.line = g.line /\ d.cells = cells /\ d.heights = g.heights
  BY <1>4
<1>6. SameList(doc, d)
  BY <1>1, <1>5 DEF SameList
<1>7. cells = TypedCell(doc.cells, Rows(doc)[i], TRUE, t)
  BY <1>1, <1>3 DEF cells
<1> QED  BY <1>1, <1>5, <1>6, <1>7 DEF Types, d

LEMMA ClearCellTypes ==
    ASSUME NEW doc, NEW b, Document(doc, b), NEW i \in Nat, NEW t
    PROVE  /\ i <= Len(Shown(doc)) => Types(doc, ClearCell(doc, i), Rows(doc)[i], FALSE, t)
           /\ i > Len(Shown(doc)) => ClearCell(doc, i) = doc
<1> DEFINE d == ClearCell(doc, i)
           cells == TypedCell(doc.cells, Rows(doc)[i], FALSE, t)
<1>1. Len(Rows(doc)) = Len(Shown(doc)) /\ Len(Shown(doc)) \in Nat
  BY RowsAre, ShownLists
<1>2. i > Len(Shown(doc)) => d = doc
  BY <1>1 DEF ClearCell
<1>3. ASSUME i <= Len(Shown(doc))
      PROVE  Types(doc, d, Rows(doc)[i], FALSE, t)
  <2>1. d = [doc EXCEPT !.cells = cells]
    BY <1>1, <1>3 DEF ClearCell, TypedCell
  <2> HIDE DEF d, cells
  <2>2. d = [clock |-> doc.clock, nodes |-> doc.nodes, line |-> doc.line, cells |-> cells,
             heights |-> doc.heights, threads |-> doc.threads]
    BY <2>1 DEF Document
  <2>3. d.nodes = doc.nodes /\ d.line = doc.line /\ d.cells = cells /\ d.heights = doc.heights
    BY <2>2
  <2>4. SameList(doc, d)
    BY <2>3 DEF SameList
  <2> QED  BY <2>3, <2>4 DEF Types, d, cells
<1> QED  BY <1>2, <1>3

LEMMA SetHeightSizes ==
    ASSUME NEW doc, NEW b, Document(doc, b), NEW i, NEW t
    PROVE  Sizes(doc, SetHeight(doc, t, i), i, t)
<1> DEFINE d == SetHeight(doc, t, i)
           heights == Stamped(doc.heights, [k \in {i} |-> Height], t)
<1>1. d = [doc EXCEPT !.heights = heights]
  BY DEF SetHeight, Written, Stamped
<1> HIDE DEF d, heights
<1>2. d = [clock |-> doc.clock, nodes |-> doc.nodes, line |-> doc.line, cells |-> doc.cells,
           heights |-> heights, threads |-> doc.threads]
  BY <1>1 DEF Document
<1>3. d.nodes = doc.nodes /\ d.line = doc.line /\ d.cells = doc.cells /\ d.heights = heights
  BY <1>2
<1>4. SameList(doc, d)
  BY <1>3 DEF SameList
<1> QED  BY <1>3, <1>4 DEF Sizes, d, heights

\* New rows behind the element after.
Inserts(doc, e, t, i, n, after) ==
    LET at  == t + Limit
        new == at .. at + n - 1
    IN  /\ e.line = PutBefore(doc.line, Place(doc.line, after) + 1, Fresh(at, n))
        /\ DOMAIN e.nodes = DOMAIN doc.nodes \cup new
        /\ \A k \in DOMAIN doc.nodes : e.nodes[k] = doc.nodes[k]
        /\ \A k \in new : e.nodes[k] = [id |-> k, at |-> k, live |-> TRUE,
                                        after |-> IF k = at THEN after ELSE k - 1]
        /\ e.cells = Stamped(doc.cells, ShiftedFormulas(doc, i, n), t)
        /\ Reheights(doc, e, i, n, t)

\* Cells are rewritten alike in sheets that show the same rows of those that hold one.
LEMMA ShiftedAlike ==
    ASSUME NEW doc, NEW w, w.cells = doc.cells,
           Held(doc.cells) \cap ToSet(Rows(w)) = Held(doc.cells) \cap ToSet(Rows(doc)),
           NEW i, NEW n
    PROVE  ShiftedFormulas(w, i, n) = ShiftedFormulas(doc, i, n) /\ Formulas(w) = Formulas(doc)
<1>1. Formulas(w) = Formulas(doc)
  BY DEF Formulas
<1> QED  BY <1>1 DEF ShiftedFormulas

LEMMA InsertRowsInserts ==
    ASSUME NEW doc, NEW b, Document(doc, b), Named(doc), NEW t \in Nat \ {0}, b <= t, Reach <= Limit,
           NEW i \in Indices, NEW n \in 1 .. MaxBlock, i - 1 <= Len(Shown(doc))
    PROVE  Inserts(doc, InsertRows(doc, t, i, n), t, i, n, ElementBefore(doc, i))
<1> DEFINE len == i - 1
           g == Grow(doc, t, len)
           at == t + Limit
           ids == Fresh(at, n)
           after == ElementBefore(g, i)
           w == InsertBehind(g, after, at, ids)
           new == at .. at + n - 1
           d == InsertRows(doc, t, i, n)
           B == t + Width
<1>1. /\ Limit \in Nat /\ Width \in Nat /\ Width = 2 * Limit /\ MaxRows \in Nat /\ MaxBlock \in Nat
      /\ i \in Nat \ {0} /\ len \in 0 .. Limit /\ i \in Int /\ len \in Int
      /\ n \in Nat /\ n <= Limit /\ at \in Nat \ {0} /\ B \in Nat /\ at + n <= B
  <2>1. /\ Limit \in Nat /\ Width \in Nat /\ Width = 2 * Limit /\ MaxRows \in Nat /\ MaxBlock \in Nat
        /\ MaxRows + MaxBlock <= Limit
    BY LimitIs DEF Reach
  <2>2. i \in Nat \ {0} /\ i <= MaxRows /\ n \in Nat /\ n <= MaxBlock
    BY <2>1 DEF Indices
  <2> QED  BY <2>1, <2>2
<1>2. /\ Shaped(g) /\ SameList(doc, g) /\ g.clock = doc.clock
      /\ g.cells = doc.cells /\ g.heights = doc.heights /\ g.threads = doc.threads
  <2> HIDE DEF len
  <2>1. len <= Len(Shown(doc))
    BY DEF len
  <2> QED  BY <1>1, <2>1, GrowNone
<1>3. Document(g, at)
  <2> HIDE DEF len
  <2>1. Widened(doc, g, t)
    BY <1>1, GrowWidens
  <2> QED  BY <2>1 DEF Widened
<1>4. Shown(g) = Shown(doc) /\ Rows(g) = Rows(doc)
  BY <1>2, SameListShows
<1>5. after = ElementBefore(doc, i) /\ after \in Tickets(g.nodes)
  <2>1. after = ElementBefore(doc, i)
    BY <1>4 DEF ElementBefore
  <2>2. after \in Tickets(g.nodes)
    BY <1>1, <1>3, ElementBeforeIs
  <2> QED  BY <2>1, <2>2
<1>6. /\ ids \in Seq(Nat) /\ Len(ids) = n /\ \A j \in 1 .. n : ids[j] = at + j - 1
  <2>1. /\ ids \in Seq(at .. at + n - 1) /\ Len(ids) = n
        /\ \A j \in 1 .. n : ids[j] = at + j - 1
    <3> HIDE DEF at
    <3> QED  BY <1>1, FreshLists
  <2>2. at .. at + n - 1 \subseteq Nat
    BY <1>1
  <2> HIDE DEF ids, at
  <2> QED  BY <2>1, <2>2, SeqOfMore
<1>7. /\ d.nodes = w.nodes /\ d.line = w.line /\ w.cells = doc.cells
      /\ d.cells = Stamped(doc.cells, ShiftedFormulas(w, i, n), t)
      /\ Reheights(doc, d, i, n, t)
  <2>1. Shaped(doc)
    BY DEF Document, Shaped
  <2> QED  BY <2>1, InsertRecords DEF Reheights
<1> HIDE DEF g, ids, after, d, len, B
<1>8. /\ w.line = PutBefore(g.line, Place(g.line, after) + 1, Fresh(at, n))
      /\ DOMAIN w.nodes = DOMAIN g.nodes \cup new
      /\ \A k \in DOMAIN g.nodes : w.nodes[k] = g.nodes[k]
      /\ \A k \in new \ DOMAIN g.nodes :
            w.nodes[k] = [id |-> ids[k - at + 1], at |-> k, live |-> TRUE,
                          after |-> IF k = at THEN after ELSE k - 1]
  BY <1>2, <1>6, InsertKeepsRecords
<1>9. Document(w, B) /\ Adds(g, w, at, ids)
  <2>1. \A j \in 1 .. Len(ids) : ids[j] < B
    BY <1>1, <1>6
  <2>2. at + Len(ids) <= B /\ at <= at
    BY <1>1, <1>6
  <2> HIDE DEF at, w
  <2> QED  BY <1>1, <1>3, <1>5, <1>6, <2>1, <2>2, Inserted DEF w
<1> HIDE DEF w
<1>10. new \cap DOMAIN g.nodes = {} /\ Live(w) = Live(g) \cup new
  BY <1>6, <1>9 DEF Adds
<1>11. ASSUME NEW k \in new
       PROVE  w.nodes[k] = [id |-> k, at |-> k, live |-> TRUE,
                            after |-> IF k = at THEN after ELSE k - 1]
  <2>1. k \in new \ DOMAIN g.nodes
    BY <1>10
  <2>2. k - at + 1 \in 1 .. n /\ at + (k - at + 1) - 1 = k
    BY <1>1
  <2>3. ids[k - at + 1] = k
    BY <1>6, <2>2
  <2> QED  BY <1>8, <2>1, <2>3
<1>12. /\ d.line = PutBefore(doc.line, Place(doc.line, after) + 1, Fresh(at, n))
       /\ DOMAIN d.nodes = DOMAIN doc.nodes \cup new
       /\ \A k \in DOMAIN doc.nodes : d.nodes[k] = doc.nodes[k]
       /\ \A k \in new : d.nodes[k] = [id |-> k, at |-> k, live |-> TRUE,
                                       after |-> IF k = at THEN after ELSE k - 1]
  BY <1>2, <1>7, <1>8, <1>11 DEF SameList
<1>13. ToSet(Rows(w)) = Ids(w, Live(w)) /\ ToSet(Rows(g)) = Ids(g, Live(g))
  BY <1>3, <1>9, RowsAre
<1>14. Held(doc.cells) \cap Ids(w, new) = {}
  <2>1. SUFFICES ASSUME NEW k \in new, w.nodes[k].id \in Held(doc.cells)
                 PROVE  FALSE
    BY DEF Ids
  <2>2. w.nodes[k].id = k /\ k >= t /\ k \in Nat
    <3>1. w.nodes[k].id = k
      <4>1. w.nodes[k] = [id |-> k, at |-> k, live |-> TRUE,
                          after |-> IF k = at THEN after ELSE k - 1]
        BY <1>11
      <4> QED  BY <4>1
    <3> QED  BY <1>1, <3>1
  <2>3. PICK l \in DOMAIN doc.nodes : doc.nodes[l].id = k
    BY <2>1, <2>2 DEF Named, Ids
  <2>4. k < b /\ b \in Nat
    BY <2>3 DEF Document, OfElements, Element
  <2> QED  BY <2>2, <2>4
<1>15. Ids(w, Live(w)) = Ids(g, Live(g)) \cup Ids(w, new)
  <2>1. \A k \in Live(g) : w.nodes[k].id = g.nodes[k].id
    BY <1>8 DEF Live
  <2>2. Ids(w, Live(g)) = Ids(g, Live(g))
    BY <2>1 DEF Ids
  <2> QED  BY <1>10, <2>2 DEF Ids
<1>16. Held(doc.cells) \cap ToSet(Rows(w)) = Held(doc.cells) \cap ToSet(Rows(doc))
  BY <1>4, <1>13, <1>14, <1>15
<1>17. ShiftedFormulas(w, i, n) = ShiftedFormulas(doc, i, n)
  BY <1>7, <1>16, ShiftedAlike
<1>18. d.cells = Stamped(doc.cells, ShiftedFormulas(doc, i, n), t)
  BY <1>7, <1>17
<1>19. Inserts(doc, d, t, i, n, after)
  BY <1>7, <1>12, <1>18 DEF Inserts
<1> QED  BY <1>5, <1>19 DEF d

\* Rows taken out with their cells.
Deletes(doc, e, t, i, n) ==
    LET taken   == TakenOut(doc, i, n)
        removed == Ids(doc, taken)
        f == [id \in Formulas(doc) \ removed |-> ShiftedFormulas(doc, i, -n)[id]]
    IN  /\ e.line = doc.line /\ e.nodes = Erased(doc.nodes, taken)
        /\ e.cells = Stamped(Erased(doc.cells, removed), f, t)
        /\ Reheights(doc, e, i, -n, t)

LEMMA RemovedIs ==
    ASSUME NEW doc, NEW b, Document(doc, b), NEW i \in Nat \ {0}, NEW n \in Nat
    PROVE  /\ Removed(doc, i, n) = Ids(doc, TakenOut(doc, i, n))
           /\ TakenOut(doc, i, n) \subseteq Live(doc)
           /\ i .. LastCut(doc, i, n) \subseteq 1 .. Len(Shown(doc))
           /\ LastCut(doc, i, n) \in Nat
<1> DEFINE rows == Rows(doc)
           m == LastCut(doc, i, n)
           gone == SubSeq(rows, i, m)
<1>1. /\ rows \in Seq(Nat) /\ Len(rows) = Len(Shown(doc)) /\ Len(Shown(doc)) \in Nat
      /\ \A j \in 1 .. Len(Shown(doc)) : Shown(doc)[j] \in Live(doc)
                                         /\ rows[j] = doc.nodes[Shown(doc)[j]].id
  BY RowsAre, ShownLists
<1>2. m \in 0 .. Len(rows) /\ i .. m \subseteq 1 .. Len(Shown(doc)) /\ m \in Nat
  BY <1>1 DEF LastCut, MinOf
<1>3. Removed(doc, i, n) = ToSet(gone)
  BY <1>1 DEF Removed, LastCut
<1> HIDE DEF rows, m
<1>4. /\ Len(gone) = IF i <= m THEN m - i + 1 ELSE 0
      /\ DOMAIN gone = 1 .. Len(gone)
      /\ \A x \in 1 .. Len(gone) : gone[x] = rows[i + x - 1]
  BY <1>1, <1>2, SubSeqAt
<1> HIDE DEF gone
<1>5. ToSet(gone) = {rows[j] : j \in i .. m}
  <2>1. \A j \in i .. m : j - i + 1 \in 1 .. Len(gone) /\ i + (j - i + 1) - 1 = j
    BY <1>2, <1>4
  <2>2. \A x \in 1 .. Len(gone) : i + x - 1 \in i .. m
    BY <1>2, <1>4
  <2>3. \A j \in i .. m : rows[j] = gone[j - i + 1]
    BY <1>4, <2>1
  <2>4. {rows[j] : j \in i .. m} \subseteq ToSet(gone)
    BY <1>4, <2>1, <2>3 DEF ToSet
  <2>5. ToSet(gone) \subseteq {rows[j] : j \in i .. m}
    BY <1>4, <2>2 DEF ToSet
  <2> QED  BY <2>4, <2>5
<1>6. TakenOut(doc, i, n) = {Shown(doc)[j] : j \in i .. m}
  BY DEF TakenOut, m
<1>7. Ids(doc, TakenOut(doc, i, n)) = {rows[j] : j \in i .. m}
  BY <1>1, <1>2, <1>6 DEF Ids
<1> QED  BY <1>1, <1>2, <1>3, <1>5, <1>6, <1>7 DEF m

LEMMA DeleteRowsDeletes ==
    ASSUME NEW doc, NEW b, Document(doc, b), NEW t, NEW i \in Nat \ {0}, NEW n \in Nat
    PROVE  Deletes(doc, DeleteRows(doc, t, i, n), t, i, n)
<1> DEFINE taken == TakenOut(doc, i, n)
           removed == Ids(doc, taken)
           cut == Shortened(doc, i, n)
           short == [doc EXCEPT !.nodes = Erased(@, taken)]
           cells == Erased(doc.cells, removed)
           count == -n
           f == [id \in Formulas(doc) \ removed |-> ShiftedFormulas(doc, i, count)[id]]
           d == DeleteRows(doc, t, i, n)
<1>1. Removed(doc, i, n) = removed /\ taken \subseteq Live(doc)
  BY RemovedIs
<1>2. Shaped(doc)
  BY DEF Document, Shaped
<1>3. /\ d.nodes = cut.nodes /\ d.line = doc.line
      /\ d.cells = Stamped(cut.cells, ShiftedFormulas(cut, i, count), t)
      /\ Reheights(doc, d, i, count, t)
  BY <1>2, DeleteRecords DEF Reheights
<1>4. cut.nodes = Erased(doc.nodes, taken) /\ cut.cells = cells
  BY <1>1, <1>2, ShortenedIs
<1>5. Document(short, b) /\ Buries(doc, short, taken)
  <2> HIDE DEF taken
  <2> QED  BY CutOut
<1>6. /\ Entries(cells) /\ DOMAIN cells = DOMAIN doc.cells
      /\ Held(cells) = Held(doc.cells) \ removed
      /\ \A id \in DOMAIN doc.cells : cells[id].val = doc.cells[id].val
  <2> DEFINE old == doc.cells
  <2>1. Entries(old)
    BY DEF Document
  <2> HIDE DEF old, removed
  <2> QED  BY <2>1, ErasedHolds DEF old
<1>7. Document(cut, b) /\ Live(cut) = Live(doc) \ taken
      /\ \A k \in DOMAIN doc.nodes : cut.nodes[k].id = doc.nodes[k].id
  <2> DEFINE e == [short EXCEPT !.cells = cells]
  <2> HIDE DEF short, cells, taken
  <2>1. /\ Document(e, b) /\ e.cells = cells /\ e.clock = short.clock /\ e.nodes = short.nodes
        /\ e.line = short.line /\ e.heights = short.heights /\ e.threads = short.threads
    BY <1>5, <1>6, CellsPut
  <2>2. short = [clock |-> doc.clock, nodes |-> Erased(doc.nodes, taken), line |-> doc.line,
                 cells |-> doc.cells, heights |-> doc.heights, threads |-> doc.threads]
    BY DEF short, Document
  <2>3. /\ Shaped(cut) /\ cut.clock = doc.clock /\ cut.line = doc.line
        /\ cut.heights = doc.heights /\ cut.threads = doc.threads
    BY <1>2, ShortenedIs
  <2>4. cut = e
    <3> HIDE DEF cut
    <3> QED  BY <1>4, <2>1, <2>2, <2>3 DEF Document, Shaped
  <2>5. cut.nodes = short.nodes
    BY <2>1, <2>4
  <2> QED  BY <1>5, <2>1, <2>4, <2>5 DEF Buries, Live
<1> HIDE DEF cut, cells, taken, removed, d
<1>8. ToSet(Rows(cut)) = Ids(cut, Live(cut)) /\ ToSet(Rows(doc)) = Ids(doc, Live(doc))
  BY <1>7, RowsAre
<1>9. Formulas(cut) = Formulas(doc) \ removed
  <2>1. Ids(cut, Live(cut)) = Ids(doc, Live(doc) \ taken)
    BY <1>7 DEF Ids, Live
  <2>2. Ids(doc, Live(doc)) \ removed \subseteq Ids(cut, Live(cut))
    BY <2>1 DEF Ids, removed
  <2>3. Ids(cut, Live(cut)) \subseteq Ids(doc, Live(doc))
    BY <2>1 DEF Ids
  <2>4. \A id \in Held(doc.cells) : cut.cells[id].val = doc.cells[id].val
    BY <1>4, <1>6 DEF Held
  <2>5. Held(cut.cells) = Held(doc.cells) \ removed
    BY <1>4, <1>6
  <2> QED  BY <1>8, <2>2, <2>3, <2>4, <2>5 DEF Formulas
<1>10. ShiftedFormulas(cut, i, count) = f
  <2>1. \A id \in Formulas(doc) : id \in DOMAIN doc.cells
    BY DEF Formulas, Held
  <2>2. \A id \in Formulas(doc) \ removed : cut.cells[id].val = doc.cells[id].val
    BY <1>4, <1>6, <2>1
  <2> HIDE DEF count
  <2> QED  BY <1>9, <2>2 DEF ShiftedFormulas
<1>11. Deletes(doc, d, t, i, n)
  BY <1>3, <1>4, <1>10 DEF Deletes, taken, removed, cells
<1> QED  BY <1>11 DEF d

\* Heights written again have the ticket of the call, or are gone.
LEMMA HeightsDate ==
    ASSUME NEW doc, Entries(doc.heights), NEW e, NEW t,
           \E new : e.heights = Stamped(Erased(doc.heights, Held(doc.heights)), new, t)
    PROVE  Dates(doc.heights, e.heights, t)
<1> DEFINE old == doc.heights
           keys == Held(old)
<1>1. PICK new : e.heights = Stamped(Erased(old, keys), new, t)
  OBVIOUS
<1>2. Entries(old)
  OBVIOUS
<1> HIDE DEF old, keys
<1>3. Dates(old, Stamped(Erased(old, keys), new, t), t)
  BY <1>2, RewritesDate
<1> QED  BY <1>1, <1>3 DEF old

LEMMA TypedDates ==
    ASSUME NEW f, Entries(f), NEW id, NEW v, NEW t
    PROVE  Dates(f, TypedCell(f, id, v, t), t)
<1> DEFINE g == [k \in {id} |-> Value]
           keys == {id}
<1>1. Dates(f, Stamped(f, g, t), t) /\ Dates(f, Erased(f, keys), t)
  <2> HIDE DEF g, keys
  <2> QED  BY StampedDates, ErasedDates
<1> QED  BY <1>1 DEF TypedCell

LEMMA SetCellWrites ==
    ASSUME NEW doc, NEW b, Document(doc, b), NEW t, NEW i, NEW v
    PROVE  Shaped(SetCell(doc, t, i, v)) /\ WrittenBy(doc, SetCell(doc, t, i, v), t)
<1> DEFINE g == Grow(doc, t, i)
           f == [k \in {Rows(g)[i]} |-> v]
           cells == Stamped(g.cells, f, t)
           d == SetCell(doc, t, i, v)
<1>1. Shaped(g) /\ g.cells = doc.cells /\ g.heights = doc.heights
  <2>1. Shaped(doc)
    BY DEF Document, Shaped
  <2> QED  BY <2>1, GrowKeepsRecords
<1>2. d = [g EXCEPT !.cells = cells]
  BY DEF SetCell, Written, Stamped
<1> HIDE DEF d, g, f
<1>3. cells = Stamped(doc.cells, f, t)
  BY <1>1
<1> HIDE DEF cells
<1>4. Shaped(d) /\ d.cells = cells /\ d.heights = g.heights
  BY <1>1, <1>2 DEF Shaped
<1>5. Dates(doc.cells, cells, t)
  BY <1>3, StampedDates
<1> QED  BY <1>1, <1>4, <1>5, DatesSame DEF WrittenBy, d

LEMMA ClearCellWrites ==
    ASSUME NEW doc, NEW b, Document(doc, b), NEW t, NEW i
    PROVE  Shaped(ClearCell(doc, i)) /\ WrittenBy(doc, ClearCell(doc, i), t)
<1> DEFINE keys == {Rows(doc)[i]}
           cells == Erased(doc.cells, keys)
           d == ClearCell(doc, i)
<1>1. d = doc \/ d = [doc EXCEPT !.cells = cells]
  BY DEF ClearCell
<1> HIDE DEF d, cells, keys
<1>2. Shaped(d) /\ d.heights = doc.heights /\ d.cells \in {doc.cells, cells}
  BY <1>1 DEF Document, Shaped
<1>3. Dates(doc.cells, cells, t)
  <2>1. Entries(doc.cells)
    BY DEF Document
  <2> QED  BY <2>1, ErasedDates DEF cells
<1> QED  BY <1>2, <1>3, DatesSame DEF WrittenBy, d

LEMMA SetHeightWrites ==
    ASSUME NEW doc, NEW b, Document(doc, b), NEW t, NEW i
    PROVE  Shaped(SetHeight(doc, t, i)) /\ WrittenBy(doc, SetHeight(doc, t, i), t)
<1> DEFINE f == [k \in {i} |-> Height]
           d == SetHeight(doc, t, i)
<1>1. d.cells = doc.cells /\ d.heights = Stamped(doc.heights, f, t)
  BY SetHeightSizes DEF Sizes
<1>3. Shaped(d)
  <2> DEFINE heights == Stamped(doc.heights, f, t)
  <2>1. d = [doc EXCEPT !.heights = heights]
    BY DEF SetHeight, Written, Stamped
  <2> HIDE DEF d, heights
  <2> QED  BY <2>1 DEF Document, Shaped
<1> HIDE DEF d, f
<1>2. Dates(doc.heights, d.heights, t)
  BY <1>1, StampedDates
<1> QED  BY <1>1, <1>2, <1>3, DatesSame DEF WrittenBy, d

LEMMA EditsWrite ==
    ASSUME NEW doc, NEW b, Document(doc, b), NEW t, NEW i, NEW n, NEW dst
    PROVE  /\ Shaped(InsertRows(doc, t, i, n)) /\ WrittenBy(doc, InsertRows(doc, t, i, n), t)
           /\ Shaped(DeleteRows(doc, t, i, n)) /\ WrittenBy(doc, DeleteRows(doc, t, i, n), t)
           /\ Shaped(MoveRows(doc, t, i, n, dst)) /\ WrittenBy(doc, MoveRows(doc, t, i, n, dst), t)
<1>1. Shaped(doc) /\ Entries(doc.cells) /\ Entries(doc.heights)
  BY DEF Document, Shaped
<1>2. Shaped(InsertRows(doc, t, i, n)) /\ WrittenBy(doc, InsertRows(doc, t, i, n), t)
  <2> DEFINE d == InsertRows(doc, t, i, n)
             g == Grow(doc, t, i - 1)
             w == InsertBehind(g, ElementBefore(g, i), t + Limit, Fresh(t + Limit, n))
             f == ShiftedFormulas(w, i, n)
  <2>1. /\ Shaped(d) /\ d.cells = Stamped(doc.cells, f, t)
        /\ \E new : d.heights = Stamped(Erased(doc.heights, Held(doc.heights)), new, t)
    BY <1>1, InsertRecords
  <2> HIDE DEF d, f
  <2>2. Dates(doc.cells, d.cells, t) /\ Dates(doc.heights, d.heights, t)
    BY <1>1, <2>1, StampedDates, HeightsDate
  <2> QED  BY <2>1, <2>2 DEF WrittenBy, d
<1>3. Shaped(DeleteRows(doc, t, i, n)) /\ WrittenBy(doc, DeleteRows(doc, t, i, n), t)
  <2> DEFINE d == DeleteRows(doc, t, i, n)
             cut == Shortened(doc, i, n)
             f == ShiftedFormulas(cut, i, -n)
             keys == Removed(doc, i, n)
  <2>1. /\ Shaped(d) /\ d.cells = Stamped(cut.cells, f, t)
        /\ \E new : d.heights = Stamped(Erased(doc.heights, Held(doc.heights)), new, t)
    BY <1>1, DeleteRecords
  <2>2. cut.cells = Erased(doc.cells, keys)
    BY <1>1, ShortenedIs
  <2> HIDE DEF d, f, cut, keys
  <2>3. Dates(doc.heights, d.heights, t)
    BY <1>1, <2>1, HeightsDate
  <2>4. Dates(doc.cells, d.cells, t)
    <3> DEFINE old == doc.cells
    <3>1. Entries(old) /\ d.cells = Stamped(Erased(old, keys), f, t)
      BY <1>1, <2>1, <2>2
    <3> HIDE DEF old
    <3> QED  BY <3>1, RewritesDate DEF old
  <2> QED  BY <2>1, <2>3, <2>4 DEF WrittenBy, d
<1>4. Shaped(MoveRows(doc, t, i, n, dst)) /\ WrittenBy(doc, MoveRows(doc, t, i, n, dst), t)
  <2> DEFINE d == MoveRows(doc, t, i, n, dst)
  <2>1. /\ Shaped(d) /\ \E f : d.cells = Stamped(doc.cells, f, t)
        /\ \E new : d.heights = Stamped(Erased(doc.heights, Held(doc.heights)), new, t)
    BY <1>1, MovedRecords
  <2> HIDE DEF d
  <2>2. PICK f : d.cells = Stamped(doc.cells, f, t)
    BY <2>1
  <2>3. Dates(doc.cells, d.cells, t) /\ Dates(doc.heights, d.heights, t)
    BY <1>1, <2>1, <2>2, StampedDates, HeightsDate
  <2> QED  BY <2>1, <2>3 DEF WrittenBy, d
<1> QED  BY <1>2, <1>3, <1>4

\* What any call writes has its ticket.
LEMMA CallWrites ==
    ASSUME NEW doc, Document(doc, Ceiling(doc)), NEW c \in Clients, NEW m \in Calls
    PROVE  WrittenBy(doc, Apply(doc, c, m), Ticket(doc, c))
<1> DEFINE t == Ticket(doc, c)
           b == Ceiling(doc)
           e == Apply(doc, c, m)
           i == m.at
           n == m.n
           dst == m.to
<1>1. \A d : Shaped(d) => Committed(d).cells = d.cells /\ Committed(d).heights = d.heights
  BY DEF Committed, Shaped
<1> DEFINE Ok(d) == Shaped(d) /\ WrittenBy(doc, d, t)
<1>2. /\ Ok(SetCell(doc, t, i, Value)) /\ Ok(ClearCell(doc, i)) /\ Ok(SetHeight(doc, t, i))
      /\ Ok(InsertRows(doc, t, i, n)) /\ Ok(DeleteRows(doc, t, i, n))
      /\ Ok(MoveRows(doc, t, i, n, dst))
  <2> HIDE DEF t, b, i, n, dst
  <2>1. Document(doc, b)
    BY DEF b
  <2> QED  BY <2>1, SetCellWrites, ClearCellWrites, SetHeightWrites, EditsWrite
<1>3. m.call \in {"set", "clear", "height", "insert", "delete", "move"}
  BY DEF Calls
<1>4. \E d : d \in {SetCell(doc, t, i, Value), ClearCell(doc, i), SetHeight(doc, t, i),
                    InsertRows(doc, t, i, n), DeleteRows(doc, t, i, n),
                    MoveRows(doc, t, i, n, dst)}
             /\ e = Committed(d)
  <2> HIDE DEF b
  <2>1. m.call = "set" => e = Committed(SetCell(doc, t, i, Value))
    BY DEF Apply
  <2>2. m.call = "clear" => e = Committed(ClearCell(doc, i))
    BY DEF Apply
  <2>3. m.call = "height" => e = Committed(SetHeight(doc, t, i))
    BY DEF Apply
  <2>4. m.call = "insert" => e = Committed(InsertRows(doc, t, i, n))
    BY DEF Apply
  <2>5. m.call = "delete" => e = Committed(DeleteRows(doc, t, i, n))
    BY DEF Apply
  <2>6. m.call = "move" => e = Committed(MoveRows(doc, t, i, n, dst))
    BY DEF Apply
  <2> HIDE DEF e, t, i, n, dst
  <2> QED  BY <1>3, <2>1, <2>2, <2>3, <2>4, <2>5, <2>6
<1> HIDE DEF e, t, b, i, n, dst
<1>5. PICK d : Ok(d) /\ e = Committed(d)
  <2> HIDE DEF Ok
  <2> QED  BY <1>2, <1>4
<1>6. WrittenBy(doc, e, t)
  BY <1>1, <1>5 DEF WrittenBy
<1> QED  BY <1>6 DEF e, t

-----------------------------------------------------------------------------
(* What is remembered of the last calls.                                    *)

\* Nothing in the record was written at b or later.
Before(record, b) == \A k \in DOMAIN record : record[k].at \in Nat /\ record[k].at < b
Stamps(doc) == Before(doc.cells, Ceiling(doc)) /\ Before(doc.heights, Ceiling(doc))

\* A replica before a change.
Base(doc) == MaxChanges # 0 /\ Sound(doc, MaxChanges - 1) /\ Stamps(doc)
Remembered(c) == last[c] = None \/ (last[c].call \in Calls /\ Base(last[c].before))
HistoryInv ==
    /\ last = [c \in Clients |-> last[c]]
    /\ MaxChanges # 0 => \A doc \in Copies : Stamps(doc)
    /\ \A c \in Clients : Remembered(c)

LEMMA CeilingGrows ==
    ASSUME NEW doc, NEW e, doc.clock \in Nat, e.clock \in Nat, doc.clock <= e.clock
    PROVE  Ceiling(doc) \in Nat /\ Ceiling(e) \in Nat /\ Ceiling(doc) <= Ceiling(e)
<1> DEFINE C == Cardinality(Clients)
           x == doc.clock + 1
           y == e.clock + 1
<1>1. C \in Nat /\ Width \in Nat /\ x \in Nat /\ y \in Nat /\ x <= y
  <2>1. C \in Nat /\ Width \in Nat
    BY ClientsAssumption, LimitIs
  <2>2. x \in Nat /\ y \in Nat /\ x <= y
    OBVIOUS
  <2> QED  BY <2>1, <2>2
<1>2. Ceiling(doc) = (x * C + 1) * Width /\ Ceiling(e) = (y * C + 1) * Width
  BY DEF Ceiling
<1> HIDE DEF C, x, y
<1>3. x * C \in Nat /\ y * C \in Nat /\ x * C <= y * C
  BY <1>1, TimesMonotone
<1> DEFINE p == x * C
           q == y * C
<1> HIDE DEF p, q
<1>4. p + 1 \in Nat /\ q + 1 \in Nat /\ p + 1 <= q + 1
  BY <1>3 DEF p, q
<1>5. (p + 1) * Width \in Nat /\ (q + 1) * Width \in Nat /\ (p + 1) * Width <= (q + 1) * Width
  BY <1>1, <1>4, TimesMonotone
<1> QED  BY <1>2, <1>5 DEF p, q

LEMMA BeforeOn ==
    ASSUME NEW f, NEW b \in Nat, NEW B \in Nat, b <= B, Before(f, b)
    PROVE  Before(f, B)
BY DEF Before

\* A change with a ticket of its own.
LEMMA StampsOn ==
    ASSUME NEW doc, doc.clock \in Nat, Stamps(doc), NEW c \in Clients, MaxChanges # 0,
           NEW e, WrittenBy(doc, e, Ticket(doc, c)), e.clock = doc.clock + 1
    PROVE  Stamps(e)
<1> DEFINE t == Ticket(doc, c)
           B == Ceiling(e)
<1>1. t \in Nat /\ B \in Nat /\ t < B /\ Ceiling(doc) \in Nat /\ Ceiling(doc) <= B
  <2>1. /\ t \in Nat
        /\ t + Width <= ((doc.clock + 1 + 1) * Cardinality(Clients) + 1) * Width
    BY TicketIs
  <2>2. Ceiling(e) = ((doc.clock + 1 + 1) * Cardinality(Clients) + 1) * Width
    BY DEF Ceiling
  <2>3. Width \in Nat /\ Width # 0
    <3>1. /\ Limit \in Nat /\ Width = 2 * Limit /\ MaxRows \in Nat \ {0} /\ MaxBlock \in Nat \ {0}
          /\ MaxRows + MaxBlock <= Limit
      BY LimitIs
    <3> QED  BY <3>1
  <2>4. Ceiling(doc) \in Nat /\ B \in Nat /\ Ceiling(doc) <= B
    BY CeilingGrows
  <2> HIDE DEF t
  <2>5. t + Width <= B
    BY <2>1, <2>2
  <2> QED  BY <2>1, <2>3, <2>4, <2>5
<1>2. ASSUME NEW f, NEW g, Before(f, Ceiling(doc)), Dates(f, g, t)
      PROVE  Before(g, B)
  <2> HIDE DEF t, B
  <2>1. SUFFICES ASSUME NEW k \in DOMAIN g  PROVE g[k].at \in Nat /\ g[k].at < B
    BY DEF Before
  <2>2. g[k].at = t \/ (k \in DOMAIN f /\ g[k].at = f[k].at)
    BY <1>2 DEF Dates
  <2>3. k \in DOMAIN f => f[k].at \in Nat /\ f[k].at < Ceiling(doc)
    BY <1>2 DEF Before
  <2> QED  BY <1>1, <2>2, <2>3
<1> QED  BY <1>2 DEF Stamps, WrittenBy

LEMMA MergedBefore ==
    ASSUME NEW f, NEW g, Entries(f), Entries(g), NEW b, Before(f, b), Before(g, b)
    PROVE  Before(MergeRecords(f, g), b)
<1> DEFINE r == MergeRecords(f, g)
<1>1. SUFFICES ASSUME NEW k \in DOMAIN r  PROVE r[k].at \in Nat /\ r[k].at < b
  BY DEF Before
<1>2. /\ k \in DOMAIN f \cup DOMAIN g
      /\ r[k] = IF k \notin DOMAIN f THEN g[k] ELSE IF k \notin DOMAIN g THEN f[k]
                ELSE Latest(f[k], g[k])
  BY DEF MergeRecords
<1> HIDE DEF r
<1>3. CASE k \in DOMAIN f /\ k \in DOMAIN g
  <2> DEFINE x == f[k]
             y == g[k]
  <2>1. x = [at |-> x.at, val |-> x.val, live |-> x.live]
    BY <1>3 DEF Entries, Entry
  <2>2. x.at \in Nat /\ x.at < b /\ y.at \in Nat /\ y.at < b
    BY <1>3 DEF Before
  <2> HIDE DEF x, y
  <2>3. [x EXCEPT !.live = x.live /\ y.live].at = x.at
    BY <2>1
  <2>4. Latest(x, y).at \in {x.at, y.at}
    BY <2>3 DEF Latest
  <2>5. r[k] = Latest(x, y)
    BY <1>2, <1>3 DEF x, y
  <2> QED  BY <2>2, <2>4, <2>5
<1>4. CASE ~(k \in DOMAIN f /\ k \in DOMAIN g)
  BY <1>2, <1>4 DEF Before
<1> QED  BY <1>3, <1>4

LEMMA MergeStamps ==
    ASSUME NEW a, NEW b, Document(a, Ceiling(a)), Document(b, Ceiling(b)), Stamps(a), Stamps(b)
    PROVE  Stamps(Merge(a, b))
<1> DEFINE m == Merge(a, b)
           B == Ceiling(m)
<1>1. /\ m.clock = MaxOf(a.clock, b.clock)
      /\ m.cells = MergeRecords(a.cells, b.cells)
      /\ m.heights = MergeRecords(a.heights, b.heights)
  BY DEF Merge
<1> HIDE DEF m
<1>2. /\ a.clock \in Nat /\ b.clock \in Nat /\ m.clock \in Nat
      /\ a.clock <= m.clock /\ b.clock <= m.clock
  BY <1>1 DEF Document, MaxOf
<1>3. /\ Ceiling(a) \in Nat /\ Ceiling(b) \in Nat /\ B \in Nat
      /\ Ceiling(a) <= B /\ Ceiling(b) <= B
  BY <1>2, CeilingGrows
<1> HIDE DEF B
<1>4. ASSUME NEW f, NEW g, Entries(f), Entries(g), Before(f, Ceiling(a)), Before(g, Ceiling(b))
      PROVE  Before(MergeRecords(f, g), B)
  <2>1. Before(f, B) /\ Before(g, B)
    BY <1>3, <1>4, BeforeOn
  <2> QED  BY <1>4, <2>1, MergedBefore
<1>5. Entries(a.cells) /\ Entries(b.cells) /\ Entries(a.heights) /\ Entries(b.heights)
  BY DEF Document
<1>6. Before(m.cells, B) /\ Before(m.heights, B)
  BY <1>1, <1>4, <1>5 DEF Stamps
<1> QED  BY <1>6 DEF Stamps, B, m

LEMMA StartRemembers ==
    ASSUME Init
    PROVE  HistoryInv
<1>1. PICK seed \in Seeds : /\ server = Stored(seed)
                            /\ replica = [c \in Clients |-> Stored(seed)]
                            /\ last = [c \in Clients |-> None]
  BY DEF Init
<1> DEFINE s == Stored(seed)
           n == Len(seed.cells)
           blank == InsertBehind(Blank, 0, 1, Fresh(1, n))
           f == [i \in {i \in 1 .. n : seed.cells[i] # None} |-> seed.cells[i]]
           g == [i \in seed.heights |-> Height]
<1>2. s.clock = 0 /\ Document(s, Ceiling(s))
  BY StoredSound DEF Sound
<1>3. MaxChanges # 0 => Ceiling(s) \in Nat /\ 0 < Ceiling(s)
  <2>1. CASE MaxChanges = 0
    BY <2>1
  <2>2. CASE MaxChanges # 0
    <3>1. Ceiling(s) = (1 * Cardinality(Clients) + 1) * Width
      BY <1>2 DEF Ceiling
    <3>2. Cardinality(Clients) \in Nat
      BY ClientsAssumption
    <3>3. Width \in Nat /\ Width # 0
      <4>1. /\ Limit \in Nat /\ Width = 2 * Limit
            /\ MaxRows \in Nat \ {0} /\ MaxBlock \in Nat \ {0} /\ MaxRows + MaxBlock <= Limit
        BY <2>2, LimitIs
      <4> QED  BY <4>1
    <3> DEFINE C == Cardinality(Clients)
    <3> HIDE DEF C
    <3>4. C \in Nat /\ Ceiling(s) = (C + 1) * Width
      BY <3>1, <3>2 DEF C
    <3>5. 1 * Width <= (C + 1) * Width /\ (C + 1) * Width \in Nat
      BY <3>3, <3>4, TimesMonotone
    <3> QED  BY <3>3, <3>4, <3>5
  <2> QED  BY <2>1, <2>2
<1>4. s = [blank EXCEPT !.cells = Stamped(@, f, 0), !.heights = Stamped(@, g, 0)]
  BY DEF Stored, Written, Stamped, Blank
<1>5. Shaped(blank) /\ blank.cells = <<>> /\ blank.heights = <<>>
  <2>1. Shaped(Blank) /\ Blank.cells = <<>> /\ Blank.heights = <<>>
    BY DEF Blank, Shaped
  <2> DEFINE ids == Fresh(1, n)
  <2> HIDE DEF ids
  <2> QED  BY <2>1, InsertKeepsRecords
<1> HIDE DEF s, blank, f, g
<1>6. s.cells = Stamped(<<>>, f, 0) /\ s.heights = Stamped(<<>>, g, 0)
  <2> DEFINE cells == Stamped(blank.cells, f, 0)
             heights == Stamped(blank.heights, g, 0)
  <2>1. s = [blank EXCEPT !.cells = cells, !.heights = heights]
    BY <1>4
  <2> HIDE DEF cells, heights
  <2>2. s = [clock |-> blank.clock, nodes |-> blank.nodes, line |-> blank.line,
             cells |-> cells, heights |-> heights, threads |-> blank.threads]
    BY <1>5, <2>1 DEF Shaped
  <2>3. s.cells = cells /\ s.heights = heights
    BY <2>2
  <2> QED  BY <1>5, <2>3 DEF cells, heights
<1>7. ASSUME NEW h, MaxChanges # 0  PROVE Before(Stamped(<<>>, h, 0), Ceiling(s))
  <2> DEFINE r == Stamped(<<>>, h, 0)
  <2>1. Dates(<<>>, r, 0)
    BY StampedDates
  <2> HIDE DEF r
  <2>2. \A k \in DOMAIN r : r[k].at = 0
    BY <2>1 DEF Dates
  <2>3. \A k \in DOMAIN r : r[k].at \in Nat /\ r[k].at < Ceiling(s)
    BY <1>3, <1>7, <2>2
  <2> QED  BY <2>3 DEF Before, r
<1>8. MaxChanges # 0 => Stamps(s)
  BY <1>6, <1>7 DEF Stamps
<1>9. \A doc \in Copies : doc = s
  BY <1>1 DEF Copies, s
<1>10. \A c \in Clients : last[c] = None
  BY <1>1
<1> QED  BY <1>1, <1>8, <1>9, <1>10 DEF HistoryInv, Remembered

\* A step of c that changes its replica to e.
LEMMA HistoryOn ==
    ASSUME SheetsInv, HistoryInv, NEW c \in Clients, NEW e, replica' = [replica EXCEPT ![c] = e],
           MaxChanges # 0 => Stamps(e), MaxChanges # 0 => Stamps(server'),
           last' = last \/ (\E entry : /\ last' = [last EXCEPT ![c] = entry]
                                       /\ entry = None
                                          \/ (entry.call \in Calls /\ Base(entry.before)))
    PROVE  HistoryInv'
<1>1. \A x \in Clients : replica'[x] = IF x = c THEN e ELSE replica[x]
  BY DEF SheetsInv
<1>2. Copies' \subseteq {server', e} \cup Copies
  BY <1>1 DEF Copies
<1>3. MaxChanges # 0 => \A doc \in Copies' : Stamps(doc)
  BY <1>2 DEF HistoryInv
<1>4. last = [x \in Clients |-> last[x]] /\ \A x \in Clients : Remembered(x)
  BY DEF HistoryInv
<1>5. /\ last' = [x \in Clients |-> last'[x]]
      /\ \A x \in Clients : \/ last'[x] = last[x]
                            \/ last'[x] = None
                            \/ last'[x].call \in Calls /\ Base(last'[x].before)
  <2>1. CASE last' = last
    BY <1>4, <2>1
  <2>2. ASSUME NEW entry, last' = [last EXCEPT ![c] = entry],
               entry = None \/ (entry.call \in Calls /\ Base(entry.before))
        PROVE  <1>5!1 /\ <1>5!2
    BY <1>4, <2>2
  <2> QED  BY <2>1, <2>2
<1>6. \A x \in Clients : Remembered(x)'
  BY <1>4, <1>5 DEF Remembered
<1> QED  BY <1>3, <1>5, <1>6 DEF HistoryInv

LEMMA ReplicaStamps ==
    ASSUME SheetsInv, HistoryInv, NEW c \in Clients
    PROVE  /\ Document(replica[c], Ceiling(replica[c])) /\ replica[c].clock \in Nat
           /\ Shaped(replica[c]) /\ Sound(replica[c], changes)
           /\ MaxChanges # 0 => Stamps(replica[c]) /\ Stamps(server)
<1>1. replica[c] \in Copies /\ server \in Copies
  BY DEF Copies
<1>2. Sound(replica[c], changes)
  BY <1>1 DEF SheetsInv
<1>3. Document(replica[c], Ceiling(replica[c]))
  BY <1>2 DEF Sound
<1> QED  BY <1>1, <1>2, <1>3 DEF HistoryInv, Document, Shaped

\* A change that leaves cells and heights alone.
LEMMA StampsSame ==
    ASSUME NEW doc, doc.clock \in Nat, Stamps(doc), MaxChanges # 0, NEW c \in Clients,
           NEW d, Shaped(d), d.clock = doc.clock, d.cells = doc.cells, d.heights = doc.heights
    PROVE  Stamps(Committed(d))
<1> DEFINE e == Committed(d)
<1>1. e.clock = doc.clock + 1 /\ e.cells = doc.cells /\ e.heights = doc.heights
  BY DEF Committed, Shaped
<1> HIDE DEF e
<1>2. WrittenBy(doc, e, Ticket(doc, c))
  BY <1>1, DatesSame DEF WrittenBy
<1>3. Stamps(e)
  BY <1>1, <1>2, StampsOn
<1> QED  BY <1>3 DEF e

LEMMA HistorySame ==
    ASSUME HistoryInv, replica' = replica, server' = server, last' = last
    PROVE  HistoryInv'
<1>1. Copies' = Copies
  BY DEF Copies
<1>2. \A c \in Clients : Remembered(c)'
  BY DEF HistoryInv, Remembered
<1> QED  BY <1>1, <1>2 DEF HistoryInv

\* Every step keeps what is remembered.
LEMMA HistoryStep ==
    ASSUME SheetsInv, HistoryInv, [Next]_vars
    PROVE  HistoryInv'
<1>1. ASSUME NEW c \in Clients, NEW m \in Calls, Change(c, m)
      PROVE  HistoryInv'
  <2> DEFINE doc == replica[c]
             e == Apply(doc, c, m)
             entry == [call |-> m, before |-> doc]
  <2>1. /\ changes < MaxChanges /\ server' = server
        /\ replica' = [replica EXCEPT ![c] = e] /\ last' = [last EXCEPT ![c] = entry]
    BY <1>1 DEF Change
  <2>2. /\ Document(doc, Ceiling(doc)) /\ doc.clock \in Nat /\ Sound(doc, changes)
        /\ MaxChanges # 0 => Stamps(doc) /\ Stamps(server)
    BY ReplicaStamps
  <2>3. changes \in Nat /\ MaxChanges \in Nat /\ MaxChanges # 0 /\ MaxChanges - 1 \in Nat
        /\ changes <= MaxChanges - 1 /\ Reach <= Limit
    BY <2>1, LimitIs DEF SheetsInv, Reach
  <2> HIDE DEF doc
  <2>4. Base(doc)
    <3> DEFINE n == MaxChanges - 1
    <3> HIDE DEF n
    <3>1. Sound(doc, n)
      BY <2>2, <2>3, SoundOn DEF n
    <3> QED  BY <2>2, <2>3, <3>1 DEF Base, n
  <2>5. Stamps(e)
    <3>1. PICK d : /\ Follows(doc, d, Ticket(doc, c), Reach) /\ e = Committed(d)
      BY <2>2, <2>3, CallFollows
    <3>2. e.clock = doc.clock + 1
      BY <3>1 DEF Follows, Document, Committed
    <3>3. WrittenBy(doc, e, Ticket(doc, c))
      BY <2>2, CallWrites
    <3> HIDE DEF e
    <3> QED  BY <2>2, <2>3, <3>2, <3>3, StampsOn
  <2>6. entry.call \in Calls /\ Base(entry.before)
    BY <2>4
  <2> HIDE DEF e, entry
  <2> QED  BY <2>1, <2>2, <2>3, <2>5, <2>6, HistoryOn
<1>2. ASSUME NEW c \in Clients, Sync(c)
      PROVE  HistoryInv'
  <2> DEFINE e == Merge(server, replica[c])
  <2>1. server' = e /\ replica' = [replica EXCEPT ![c] = e] /\ last' = [last EXCEPT ![c] = None]
    BY <1>2 DEF Sync
  <2>2. MaxChanges # 0 => Stamps(e)
    <3>1. Document(server, Ceiling(server))
      BY DEF SheetsInv, Copies, Sound
    <3> QED  BY <3>1, ReplicaStamps, MergeStamps
  <2> HIDE DEF e
  <2> QED  BY <2>1, <2>2, HistoryOn
<1>3. ASSUME NEW c \in Clients, NEW i \in Indices, OpenComposer(c, i)
      PROVE  HistoryInv'
  <2> DEFINE doc == replica[c]
             g == Grow(doc, Ticket(doc, c), i)
             e == IF i <= Len(Rows(doc)) THEN doc ELSE Committed(g)
  <2>1. replica' = [replica EXCEPT ![c] = e] /\ server' = server /\ last' = last
    BY <1>3 DEF OpenComposer
  <2>2. MaxChanges # 0 => Stamps(e) /\ Stamps(server)
    <3>1. /\ doc.clock \in Nat /\ Shaped(doc)
          /\ MaxChanges # 0 => Stamps(doc) /\ Stamps(server)
      BY ReplicaStamps
    <3> HIDE DEF doc
    <3>2. Shaped(g) /\ g.clock = doc.clock /\ g.cells = doc.cells /\ g.heights = doc.heights
      BY <3>1, GrowKeepsRecords
    <3> HIDE DEF g
    <3>3. MaxChanges # 0 => Stamps(Committed(g))
      BY <3>1, <3>2, StampsSame
    <3> QED  BY <3>1, <3>3
  <2> HIDE DEF e
  <2> QED  BY <2>1, <2>2, HistoryOn
<1>4. ASSUME NEW c \in Clients, SubmitComment(c)
      PROVE  HistoryInv'
  <2> DEFINE doc == replica[c]
             d == AddThread(doc, Ticket(doc, c), Rows(doc)[composer[c].at])
             e == Committed(d)
  <2>1. replica' = [replica EXCEPT ![c] = e] /\ server' = server /\ last' = [last EXCEPT ![c] = None]
    BY <1>4 DEF SubmitComment
  <2>2. MaxChanges # 0 => Stamps(e) /\ Stamps(server)
    <3>1. /\ doc.clock \in Nat /\ Shaped(doc)
          /\ MaxChanges # 0 => Stamps(doc) /\ Stamps(server)
      BY ReplicaStamps
    <3> HIDE DEF doc
    <3>2. Shaped(d) /\ d.clock = doc.clock /\ d.cells = doc.cells /\ d.heights = doc.heights
      <4> DEFINE row == Rows(doc)[composer[c].at]
                 t == Ticket(doc, c)
                 threads == Stamped(doc.threads, [k \in {t} |-> row], t)
      <4>1. d = [doc EXCEPT !.threads = threads]
        BY DEF AddThread, Written, Stamped
      <4> HIDE DEF d, threads
      <4> QED  BY <3>1, <4>1 DEF Shaped
    <3> HIDE DEF d
    <3> QED  BY <3>1, <3>2, StampsSame
  <2> HIDE DEF e
  <2> QED  BY <2>1, <2>2, HistoryOn
<1>5. ASSUME NEW c \in Clients, Repaint(c) \/ CloseComposer(c)
      PROVE  HistoryInv'
  BY <1>5, HistorySame DEF Repaint, CloseComposer
<1>6. CASE UNCHANGED vars
  BY <1>6, HistorySame DEF vars
<1>7. CASE Next
  BY <1>1, <1>2, <1>3, <1>4, <1>5, <1>7 DEF Next
<1> QED  BY <1>6, <1>7

-----------------------------------------------------------------------------
(* Two replicas that were changed apart, and their merge.                   *)

\* The record f after the keys E are erased and the values S written at t.
Rewritten(old, f, E, S, t) ==
    /\ DOMAIN f = DOMAIN old \cup DOMAIN S
    /\ \A k \in DOMAIN S : f[k] = [at |-> t, val |-> S[k], live |-> TRUE]
    /\ \A k \in DOMAIN old \ DOMAIN S :
          /\ Entry(f[k]) /\ f[k].at = old[k].at /\ f[k].val = old[k].val
          /\ f[k].live = (old[k].live /\ k \notin E)
Content(record, k) == IF k \in Held(record) THEN record[k].val ELSE None
\* What is left of the content v of k.
Left(E, S, k, v) == IF k \in DOMAIN S THEN S[k] ELSE IF k \in E THEN None ELSE v
Nothing == [k \in {} |-> Value]

LEMMA RewrittenHolds ==
    ASSUME NEW old, NEW f, NEW E, NEW S, NEW t, Rewritten(old, f, E, S, t)
    PROVE  /\ Held(f) = (Held(old) \ E) \cup DOMAIN S
           /\ \A k : Content(f, k) = Left(E, S, k, Content(old, k))
<1>1. \A k \in DOMAIN f : k \in DOMAIN S => f[k].live = TRUE /\ f[k].val = S[k]
  BY DEF Rewritten
<1>2. \A k \in DOMAIN old \ DOMAIN S : /\ k \in DOMAIN f /\ f[k].live = (old[k].live /\ k \notin E)
                                       /\ f[k].val = old[k].val
  BY DEF Rewritten
<1>3. DOMAIN f = DOMAIN old \cup DOMAIN S
  BY DEF Rewritten
<1>4. Held(f) = (Held(old) \ E) \cup DOMAIN S
  BY <1>1, <1>2, <1>3 DEF Held
<1>5. ASSUME NEW k PROVE Content(f, k) = Left(E, S, k, Content(old, k))
  <2>1. k \in DOMAIN S => Content(f, k) = S[k]
    BY <1>1, <1>3, <1>4 DEF Content
  <2>2. k \notin DOMAIN S => (k \in Held(f)) = (k \in Held(old) /\ k \notin E)
    BY <1>4
  <2>3. k \notin DOMAIN S /\ k \in Held(old) => f[k].val = old[k].val
    BY <1>2 DEF Held
  <2>4. QED
    BY <2>1, <2>2, <2>3 DEF Content, Left
<1>6. QED
  BY <1>4, <1>5

LEMMA Killed ==
    ASSUME NEW e, e = [at |-> e.at, val |-> e.val, live |-> e.live], NEW l
    PROVE  [e EXCEPT !.live = l] = [at |-> e.at, val |-> e.val, live |-> l]
  OBVIOUS

LEMMA StampedRewrites ==
    ASSUME NEW old, Entries(old), NEW E, NEW S, NEW t
    PROVE  /\ Rewritten(old, Stamped(Erased(old, E), S, t), E, S, t)
           /\ Rewritten(old, Stamped(old, S, t), {}, S, t)
           /\ Rewritten(old, Erased(old, E), E, Nothing, t)
           /\ Rewritten(old, old, {}, Nothing, t)
<1> DEFINE e == Erased(old, E)
<1>1. \A k \in DOMAIN old : /\ old[k] = [at |-> old[k].at, val |-> old[k].val, live |-> old[k].live]
                            /\ old[k].live \in BOOLEAN
  BY DEF Entries, Entry
<1>2. DOMAIN e = DOMAIN old
  BY DEF Erased
<1>3. ASSUME NEW k \in DOMAIN old
      PROVE  /\ Entry(e[k]) /\ e[k].at = old[k].at /\ e[k].val = old[k].val
             /\ e[k].live = (old[k].live /\ k \notin E)
  <2>1. e[k] = IF k \in E THEN [old[k] EXCEPT !.live = FALSE] ELSE old[k]
    BY DEF Erased
  <2>2. [old[k] EXCEPT !.live = FALSE] = [at |-> old[k].at, val |-> old[k].val, live |-> FALSE]
    BY Killed, <1>1
  <2>3. QED
    BY <1>1, <2>1, <2>2 DEF Entry
<1>4. DOMAIN Nothing = {}
  BY DEF Nothing
<1>5. \A k \in DOMAIN old : Entry(old[k]) /\ old[k].live = (old[k].live /\ k \notin {})
  BY DEF Entries, Entry
<1> HIDE DEF e, Nothing
<1>6. Rewritten(old, Stamped(e, S, t), E, S, t)
  BY <1>2, <1>3 DEF Rewritten, Stamped
<1>7. Rewritten(old, Stamped(old, S, t), {}, S, t)
  BY <1>5 DEF Rewritten, Stamped
<1>8. Rewritten(old, e, E, Nothing, t)
  BY <1>2, <1>3, <1>4 DEF Rewritten
<1>9. Rewritten(old, old, {}, Nothing, t)
  BY <1>4, <1>5 DEF Rewritten
<1>10. QED
  BY <1>6, <1>7, <1>8, <1>9 DEF e

\* Two records that old was rewritten to, apart, and what becomes of them in r.
Parted(old, f, E, S, g, F, T) ==
    /\ Entries(old)
    /\ \E b, t, u \in Nat : /\ Before(old, b) /\ b <= t /\ b <= u
                           /\ Rewritten(old, f, E, S, t) /\ Rewritten(old, g, F, T, u)
Joined(r, old, E, S, F, T) ==
    /\ Held(r) = (Held(old) \ (E \cup F)) \cup DOMAIN S \cup DOMAIN T
    /\ (\A k \in DOMAIN S \cap DOMAIN T : S[k] = T[k]) =>
           \A k : Content(r, k) = IF k \in DOMAIN S THEN S[k]
                                  ELSE Left(E \cup F, T, k, Content(old, k))

\* Merging them erases what either erased, unless it was written.
LEMMA RewrittenApart ==
    ASSUME NEW old, NEW f, NEW E, NEW S, NEW g, NEW F, NEW T, Parted(old, f, E, S, g, F, T)
    PROVE  Joined(MergeRecords(f, g), old, E, S, F, T)
<1> PICK b \in Nat, t \in Nat, u \in Nat :
        /\ Before(old, b) /\ b <= t /\ b <= u
        /\ Rewritten(old, f, E, S, t) /\ Rewritten(old, g, F, T, u)
  BY DEF Parted
<1>0. Entries(old)
  BY DEF Parted
<1> DEFINE r == MergeRecords(f, g)
<1>1. DOMAIN r = DOMAIN f \cup DOMAIN g
  BY DEF MergeRecords
<1>2. \A k \in DOMAIN r : r[k] = IF k \notin DOMAIN f THEN g[k] ELSE IF k \notin DOMAIN g THEN f[k]
                                 ELSE Latest(f[k], g[k])
  BY DEF MergeRecords
<1> HIDE DEF r
<1>3. DOMAIN f = DOMAIN old \cup DOMAIN S /\ DOMAIN g = DOMAIN old \cup DOMAIN T
  BY DEF Rewritten
<1>4. \A k \in DOMAIN S : f[k] = [at |-> t, val |-> S[k], live |-> TRUE]
  BY DEF Rewritten
<1>5. \A k \in DOMAIN T : g[k] = [at |-> u, val |-> T[k], live |-> TRUE]
  BY DEF Rewritten
<1>6. \A k \in DOMAIN old \ DOMAIN S :
          /\ Entry(f[k]) /\ f[k].at = old[k].at /\ f[k].val = old[k].val
          /\ f[k].live = (old[k].live /\ k \notin E)
  BY DEF Rewritten
<1>7. \A k \in DOMAIN old \ DOMAIN T :
          /\ Entry(g[k]) /\ g[k].at = old[k].at /\ g[k].val = old[k].val
          /\ g[k].live = (old[k].live /\ k \notin F)
  BY DEF Rewritten
<1>8. \A k \in DOMAIN old : old[k].at \in Nat /\ old[k].at < t /\ old[k].at < u /\ old[k].live \in BOOLEAN
  BY <1>0 DEF Before, Entries, Entry
<1>9. ASSUME NEW k \in DOMAIN S, k \in DOMAIN T
      PROVE  k \in DOMAIN r /\ r[k].live = TRUE /\ (S[k] = T[k] => r[k].val = S[k])
  <2>1. k \in DOMAIN r /\ r[k] = Latest(f[k], g[k])
    BY <1>1, <1>2, <1>3, <1>9
  <2>2. f[k] = [at |-> t, val |-> S[k], live |-> TRUE] /\ g[k] = [at |-> u, val |-> T[k], live |-> TRUE]
    BY <1>4, <1>5, <1>9
  <2> DEFINE l == f[k].live /\ g[k].live
             e == f[k]
  <2>6. l = TRUE /\ e = [at |-> e.at, val |-> e.val, live |-> e.live] /\ e.at = t /\ e.val = S[k]
    BY <2>2
  <2> HIDE DEF l, e
  <2>7. [e EXCEPT !.live = l] = [at |-> t, val |-> S[k], live |-> TRUE]
    BY <2>6, Killed
  <2>3. [f[k] EXCEPT !.live = f[k].live /\ g[k].live] = [at |-> t, val |-> S[k], live |-> TRUE]
    BY <2>7 DEF l, e
  <2>4. r[k] = f[k] \/ r[k] = g[k] \/ r[k] = [at |-> t, val |-> S[k], live |-> TRUE]
    BY <2>1, <2>3 DEF Latest
  <2>5. QED
    BY <2>1, <2>2, <2>4
<1>10. ASSUME NEW k \in DOMAIN S, k \notin DOMAIN T
       PROVE  k \in DOMAIN r /\ r[k].live = TRUE /\ r[k].val = S[k]
  <2>1. f[k] = [at |-> t, val |-> S[k], live |-> TRUE] /\ k \in DOMAIN f /\ k \in DOMAIN r
    BY <1>1, <1>3, <1>4
  <2>2. k \in DOMAIN old => g[k].at = old[k].at
    BY <1>7, <1>10
  <2>3. k \in DOMAIN old => Latest(f[k], g[k]) = f[k]
    BY <1>8, <2>1, <2>2 DEF Latest
  <2>4. k \notin DOMAIN old => k \notin DOMAIN g
    BY <1>3, <1>10
  <2>5. r[k] = f[k]
    BY <1>2, <2>1, <2>3, <2>4
  <2>6. QED
    BY <2>1, <2>5
<1>11. ASSUME NEW k \in DOMAIN T, k \notin DOMAIN S
       PROVE  k \in DOMAIN r /\ r[k].live = TRUE /\ r[k].val = T[k]
  <2>1. g[k] = [at |-> u, val |-> T[k], live |-> TRUE] /\ k \in DOMAIN g /\ k \in DOMAIN r
    BY <1>1, <1>3, <1>5
  <2>2. k \in DOMAIN old => f[k].at = old[k].at
    BY <1>6, <1>11
  <2>3. k \in DOMAIN old => Latest(f[k], g[k]) = g[k]
    BY <1>8, <2>1, <2>2 DEF Latest
  <2>4. k \notin DOMAIN old => k \notin DOMAIN f
    BY <1>3, <1>11
  <2>5. r[k] = g[k]
    BY <1>2, <2>1, <2>3, <2>4
  <2>6. QED
    BY <2>1, <2>5
<1>12. ASSUME NEW k \in DOMAIN old, k \notin DOMAIN S, k \notin DOMAIN T
       PROVE  /\ k \in DOMAIN r /\ r[k].live = (old[k].live /\ k \notin E \cup F)
              /\ r[k].val = old[k].val
  <2>1. k \in DOMAIN r /\ r[k] = Latest(f[k], g[k])
    BY <1>1, <1>2, <1>3
  <2> DEFINE l == f[k].live /\ g[k].live
             e == f[k]
  <2>2. /\ Entry(e) /\ e.at = old[k].at /\ e.val = old[k].val
        /\ e.live = (old[k].live /\ k \notin E)
    BY <1>6, <1>12
  <2>3. g[k].at = old[k].at /\ g[k].live = (old[k].live /\ k \notin F)
    BY <1>7, <1>12
  <2>4. e.at = g[k].at /\ e.at \in Nat
    BY <1>8, <2>2, <2>3
  <2>5. r[k] = [e EXCEPT !.live = l]
    BY <2>1, <2>4 DEF Latest
  <2>6. l = (old[k].live /\ k \notin E \cup F)
    BY <2>2, <2>3
  <2> HIDE DEF l, e
  <2>7. r[k] = [at |-> e.at, val |-> e.val, live |-> l]
    BY <2>2, <2>5, Killed DEF Entry
  <2>8. r[k].live = l /\ r[k].val = e.val
    BY <2>7
  <2>9. QED
    BY <2>1, <2>2, <2>6, <2>8
<1>13. DOMAIN r = DOMAIN old \cup DOMAIN S \cup DOMAIN T
  BY <1>1, <1>3
<1>14. Held(r) = (Held(old) \ (E \cup F)) \cup DOMAIN S \cup DOMAIN T
  <2>1. ASSUME NEW k PROVE (k \in Held(r)) = (k \in (Held(old) \ (E \cup F)) \cup DOMAIN S \cup DOMAIN T)
    BY <1>9, <1>10, <1>11, <1>12, <1>13 DEF Held
  <2>2. QED
    BY <2>1
<1>15. ASSUME \A k \in DOMAIN S \cap DOMAIN T : S[k] = T[k], NEW k
       PROVE  Content(r, k) = IF k \in DOMAIN S THEN S[k] ELSE Left(E \cup F, T, k, Content(old, k))
  <2>1. k \in DOMAIN S => k \in Held(r) /\ r[k].val = S[k]
    BY <1>9, <1>10, <1>14, <1>15
  <2>2. k \notin DOMAIN S /\ k \in DOMAIN T => k \in Held(r) /\ r[k].val = T[k]
    BY <1>11, <1>14
  <2>3. k \notin DOMAIN S /\ k \notin DOMAIN T /\ k \in Held(r) =>
            k \in Held(old) /\ k \notin E \cup F /\ r[k].val = old[k].val
    BY <1>12, <1>14 DEF Held
  <2>4. k \notin DOMAIN S /\ k \notin DOMAIN T /\ k \notin Held(r) => k \notin Held(old) \/ k \in E \cup F
    BY <1>14
  <2>5. QED
    BY <2>1, <2>2, <2>3, <2>4 DEF Content, Left
<1>16. QED
  BY <1>14, <1>15 DEF r, Joined

\* A replica a call can be made on.
Ready(doc) == Document(doc, Ceiling(doc)) /\ Named(doc) /\ Dated(doc) /\ MaxChanges # 0

LEMMA ReadyIs ==
    ASSUME NEW doc, Ready(doc), NEW c \in Clients
    PROVE  /\ Document(doc, Ceiling(doc)) /\ Named(doc) /\ Shaped(doc) /\ doc.clock \in Nat
           /\ Entries(doc.cells) /\ Entries(doc.heights)
           /\ Reach <= Limit /\ Limit \in Nat \ {0} /\ Width = 2 * Limit /\ MaxBlock <= Limit
           /\ Ticket(doc, c) \in Nat \ {0} /\ Ceiling(doc) \in Nat /\ Ceiling(doc) <= Ticket(doc, c)
<1>1. Document(doc, Ceiling(doc)) /\ Named(doc) /\ MaxChanges # 0
  BY DEF Ready
<1>2. /\ Limit \in Nat /\ Width = 2 * Limit /\ MaxRows \in Nat \ {0} /\ MaxBlock \in Nat \ {0}
      /\ MaxRows + MaxBlock <= Limit
  BY <1>1, LimitIs
<1>3. Reach <= Limit /\ Limit # 0 /\ MaxBlock <= Limit
  BY <1>2 DEF Reach
<1>4. Shaped(doc) /\ doc.clock \in Nat /\ Entries(doc.cells) /\ Entries(doc.heights)
  BY <1>1 DEF Document, Shaped
<1>5. Ticket(doc, c) \in Nat /\ Ceiling(doc) \in Nat /\ Ceiling(doc) <= Ticket(doc, c) /\ Ticket(doc, c) # 0
  BY <1>3, <1>4, TicketIs
<1>6. QED
  BY <1>1, <1>2, <1>3, <1>4, <1>5

\* A call leaves a replica that the next can be made on.
LEMMA CallLands ==
    ASSUME NEW doc, Ready(doc), NEW c \in Clients, NEW m \in Calls
    PROVE  LET e == Apply(doc, c, m)
           IN  /\ Ready(e) /\ e.clock = doc.clock + 1
               /\ Keeps(doc, e) /\ NewElements(doc, e) \subseteq Block(doc.clock, c)
<1>1. Document(doc, Ceiling(doc)) /\ Dated(doc) /\ Named(doc) /\ MaxChanges # 0
  BY DEF Ready
<1>2. PICK d : /\ Follows(doc, d, Ticket(doc, c), Reach) /\ CleanAfter(doc, d)
               /\ Apply(doc, c, m) = Committed(d)
  BY <1>1, CallFollows
<1> DEFINE e == Committed(d)
<1>3. /\ Document(e, Ceiling(e)) /\ Dated(e) /\ e.clock = doc.clock + 1
      /\ e.nodes = d.nodes /\ e.cells = d.cells
      /\ Keeps(doc, e) /\ NewElements(doc, e) \subseteq Block(doc.clock, c)
  BY <1>1, <1>2, Advanced
<1>4. Named(d)
  BY <1>1, <1>2 DEF Follows
<1> HIDE DEF e
<1>5. Named(e)
  BY <1>3, <1>4 DEF Named, Ids
<1>6. QED
  BY <1>1, <1>2, <1>3, <1>5 DEF Ready, e

LEMMA ApplySound ==
    ASSUME NEW doc, Base(doc), NEW c \in Clients, NEW m \in Calls
    PROVE  Ready(doc) /\ Sound(Apply(doc, c, m), MaxChanges)
<1> DEFINE e == Apply(doc, c, m)
           n == MaxChanges - 1
<1>1. MaxChanges # 0 /\ Sound(doc, n) /\ Ready(doc)
  BY DEF Base, Sound, Ready
<1>2. MaxChanges \in Nat /\ n \in Nat /\ n + 1 = MaxChanges /\ MaxChanges \in 0 .. MaxChanges
  BY <1>1, LimitIs
<1>3. Ready(e)
  BY <1>1, CallLands
<1>4. Document(doc, Ceiling(doc)) /\ Spanned(doc, Largest + n * Reach) /\ Dated(doc)
  BY <1>1 DEF Sound
<1>5. PICK d : /\ Follows(doc, d, Ticket(doc, c), Reach) /\ CleanAfter(doc, d)
               /\ e = Committed(d)
  BY <1>1, <1>4, CallFollows
<1> HIDE DEF e, n
<1>6. e.cells = d.cells
  BY <1>4, <1>5, Advanced
<1>7. Spanned(e, Largest + MaxChanges * Reach)
  <2>1. Largest \in Nat /\ Reach \in Nat /\ Limit \in Nat /\ Largest + MaxChanges * Reach <= Limit
    <3>1. MaxRows \in Nat /\ MaxBlock \in Nat /\ Limit \in Nat /\ Largest \in Nat
          /\ Largest + MaxChanges * (MaxRows + MaxBlock) <= Limit
      BY <1>2, LargestIs, LimitIs
    <3>2. QED
      BY <3>1 DEF Reach
  <2>2. n * Reach \in Nat /\ MaxChanges * Reach = n * Reach + Reach
    BY <1>2, <2>1
  <2> DEFINE N == Largest + n * Reach
  <2>3. N \in Nat /\ N + Reach = Largest + MaxChanges * Reach
    BY <2>1, <2>2
  <2>4. N + Reach <= Limit
    BY <2>1, <2>3
  <2>5. Spanned(doc, N)
    BY <1>4
  <2> HIDE DEF N
  <2>6. Spanned(d, N + Reach)
    BY <1>5, <2>3, <2>4, <2>5 DEF Follows
  <2>7. QED
    BY <1>6, <2>3, <2>6 DEF Spanned
<1>8. Sound(e, MaxChanges)
  BY <1>3, <1>7 DEF Ready, Sound
<1>9. QED
  BY <1>1, <1>8 DEF e

\* The end of the transaction leaves all of it as it is.
LEMMA CommittedIs ==
    ASSUME NEW d, Shaped(d)
    PROVE  LET e == Committed(d)
           IN  /\ e.nodes = d.nodes /\ e.line = d.line /\ e.cells = d.cells
               /\ e.heights = d.heights
<1>1. Committed(d) = [clock |-> d.clock + 1, nodes |-> d.nodes, line |-> d.line, cells |-> d.cells,
                      heights |-> d.heights, threads |-> d.threads]
  BY DEF Committed, Shaped
<1>2. QED
  BY <1>1

\* The elements of doc without those in dead, and the new ones.
Looks(doc, e, dead, new) ==
    /\ DOMAIN e.nodes = DOMAIN doc.nodes \cup new
    /\ \A k \in DOMAIN doc.nodes : /\ e.nodes[k].id = doc.nodes[k].id
                                   /\ e.nodes[k].live = (doc.nodes[k].live /\ k \notin dead)
    /\ \A k \in new : e.nodes[k].id = k /\ e.nodes[k].live = TRUE

LEMMA SameListLooks ==
    ASSUME NEW doc, NEW b, Document(doc, b), NEW e, SameList(doc, e)
    PROVE  Looks(doc, e, {}, {})
<1>1. \A k \in DOMAIN doc.nodes : doc.nodes[k].live \in BOOLEAN
  BY DEF Document, OfElements, Element
<1>2. QED
  BY <1>1 DEF SameList, Looks

\* What typing does to a replica.
Typing(doc, e, id, v, t) ==
    /\ Looks(doc, e, {}, {}) /\ e.line = doc.line
    /\ Shown(e) = Shown(doc) /\ Rows(e) = Rows(doc)
    /\ Rewritten(doc.cells, e.cells, IF v THEN {} ELSE {id},
                 IF v THEN [k \in {id} |-> Value] ELSE Nothing, t)
    /\ Rewritten(doc.heights, e.heights, {}, Nothing, t)

LEMMA TypedIs ==
    ASSUME NEW doc, Ready(doc), NEW c \in Clients, NEW m \in Calls, m.call \in Typed,
           m.at <= Len(Shown(doc))
    PROVE  Typing(doc, Apply(doc, c, m), Rows(doc)[m.at], m.call = "set", Ticket(doc, c))
<1> DEFINE t == Ticket(doc, c)
           e == Apply(doc, c, m)
           i == m.at
           v == m.call = "set"
           id == Rows(doc)[i]
           b == Ceiling(doc)
<1>1. i \in Indices /\ i \in Nat /\ i <= Len(Shown(doc))
  BY DEF Calls, Indices, Typed
<1>2. Document(doc, b) /\ t \in Nat
  BY ReadyIs
<1>3. e = Committed(IF v THEN SetCell(doc, t, i, Value) ELSE ClearCell(doc, i))
  BY DEF Apply, Typed
<1>4. v \in BOOLEAN
  OBVIOUS
<1> HIDE DEF t, e, i, v, b
<1>5. PICK d : d = (IF v THEN SetCell(doc, t, i, Value) ELSE ClearCell(doc, i))
  OBVIOUS
<1>6. Types(doc, d, id, v, t)
  <2>1. Types(doc, SetCell(doc, t, i, Value), Rows(doc)[i], TRUE, t)
    BY <1>1, <1>2, SetCellTypes
  <2>2. Types(doc, ClearCell(doc, i), Rows(doc)[i], FALSE, t)
    BY <1>1, <1>2, ClearCellTypes
  <2>3. QED
    BY <1>4, <1>5, <2>1, <2>2
<1>7. Shaped(d)
  BY <1>2, <1>4, <1>5, SetCellWrites, ClearCellWrites
<1>8. /\ e.nodes = d.nodes /\ e.line = d.line /\ e.cells = d.cells /\ e.heights = d.heights
  BY <1>3, <1>5, <1>7, CommittedIs
<1> HIDE DEF id
<1>9. SameList(doc, e) /\ e.heights = doc.heights /\ e.cells = TypedCell(doc.cells, id, v, t)
  BY <1>6, <1>8 DEF Types, SameList
<1>10. Looks(doc, e, {}, {}) /\ e.line = doc.line /\ Shown(e) = Shown(doc) /\ Rows(e) = Rows(doc)
  BY <1>2, <1>9, SameListLooks, SameListShows DEF SameList
<1>11. Entries(doc.cells) /\ Entries(doc.heights)
  BY <1>2 DEF Document
<1>12. Rewritten(doc.heights, e.heights, {}, Nothing, t)
  BY <1>9, <1>11, StampedRewrites
<1>13. Rewritten(doc.cells, e.cells, IF v THEN {} ELSE {id}, IF v THEN [k \in {id} |-> Value] ELSE Nothing, t)
  <2> DEFINE S == [k \in {id} |-> Value]
  <2>1. e.cells = IF v THEN Stamped(doc.cells, S, t) ELSE Erased(doc.cells, {id})
    BY <1>9 DEF TypedCell
  <2> HIDE DEF S
  <2>2. Rewritten(doc.cells, e.cells, IF v THEN {} ELSE {id}, IF v THEN S ELSE Nothing, t)
    BY <1>4, <1>11, <2>1, StampedRewrites
  <2>3. QED
    BY <2>2 DEF S
<1>14. QED
  BY <1>10, <1>12, <1>13 DEF Typing, t, e, i, v, id

\* What giving a row a height does.
Sizing(doc, e, i, t) ==
    /\ Looks(doc, e, {}, {}) /\ e.line = doc.line
    /\ Rewritten(doc.cells, e.cells, {}, Nothing, t)
    /\ Rewritten(doc.heights, e.heights, {}, [k \in {i} |-> Height], t)

LEMMA HeightIs ==
    ASSUME NEW doc, Ready(doc), NEW c \in Clients, NEW m, m.call = "height"
    PROVE  Sizing(doc, Apply(doc, c, m), m.at, Ticket(doc, c))
<1> DEFINE t == Ticket(doc, c)
           e == Apply(doc, c, m)
           i == m.at
           d == SetHeight(doc, t, i)
           S == [k \in {i} |-> Height]
<1>1. Document(doc, Ceiling(doc)) /\ t \in Nat /\ Entries(doc.cells) /\ Entries(doc.heights)
  BY ReadyIs
<1>2. e = Committed(d)
  BY DEF Apply
<1> HIDE DEF t, e, i
<1>3. Sizes(doc, d, i, t) /\ Shaped(d)
  BY <1>1, SetHeightSizes, SetHeightWrites
<1> HIDE DEF d
<1>4. e.nodes = d.nodes /\ e.line = d.line /\ e.cells = d.cells /\ e.heights = d.heights
  BY <1>2, <1>3, CommittedIs
<1>5. SameList(doc, e) /\ e.cells = doc.cells /\ e.heights = Stamped(doc.heights, S, t)
  BY <1>3, <1>4 DEF Sizes, SameList
<1> HIDE DEF S
<1>6. Looks(doc, e, {}, {}) /\ e.line = doc.line
  BY <1>1, <1>5, SameListLooks DEF SameList
<1>7. Rewritten(doc.cells, e.cells, {}, Nothing, t) /\ Rewritten(doc.heights, e.heights, {}, S, t)
  BY <1>1, <1>5, StampedRewrites
<1>8. QED
  BY <1>6, <1>7 DEF Sizing, t, e, i, S

Reheighted(doc, e, i, count, t) ==
    \E S : /\ DOMAIN S = ShiftIndexSet(Held(doc.heights), i, count)
           /\ Rewritten(doc.heights, e.heights, Held(doc.heights), S, t)

LEMMA ReheightsIs ==
    ASSUME NEW doc, Entries(doc.heights), NEW e, NEW i, NEW count, NEW t, Reheights(doc, e, i, count, t)
    PROVE  Reheighted(doc, e, i, count, t)
<1>1. PICK S : /\ e.heights = Stamped(Erased(doc.heights, Held(doc.heights)), S, t)
               /\ DOMAIN S = ShiftIndexSet(Held(doc.heights), i, count)
  BY DEF Reheights
<1>2. Rewritten(doc.heights, e.heights, Held(doc.heights), S, t)
  BY <1>1, StampedRewrites
<1>3. QED
  BY <1>1, <1>2 DEF Reheighted

\* What an insert does to a replica.
Inserting(doc, e, i, n, t) ==
    LET at    == t + Limit
        after == ElementBefore(doc, i)
    IN  /\ Looks(doc, e, {}, at .. at + n - 1)
        /\ e.line = PutBefore(doc.line, Place(doc.line, after) + 1, Fresh(at, n))
        /\ \A k \in DOMAIN doc.nodes : e.nodes[k].after = doc.nodes[k].after
        /\ \A k \in at .. at + n - 1 : e.nodes[k].after = IF k = at THEN after ELSE k - 1
        /\ Rewritten(doc.cells, e.cells, {}, ShiftedFormulas(doc, i, n), t)
        /\ Reheighted(doc, e, i, n, t)

LEMMA InsertIs ==
    ASSUME NEW doc, Ready(doc), NEW c \in Clients, NEW m \in Calls, m.call = "insert",
           m.at - 1 <= Len(Shown(doc))
    PROVE  Inserting(doc, Apply(doc, c, m), m.at, m.n, Ticket(doc, c))
<1> DEFINE t == Ticket(doc, c)
           e == Apply(doc, c, m)
           i == m.at
           n == m.n
           d == InsertRows(doc, t, i, n)
           after == ElementBefore(doc, i)
           b == Ceiling(doc)
           at == t + Limit
           new == at .. at + n - 1
<1>1. /\ Document(doc, b) /\ t \in Nat \ {0} /\ b <= t /\ Entries(doc.cells)
      /\ Entries(doc.heights) /\ Named(doc) /\ Reach <= Limit
  BY ReadyIs
<1>2. e = Committed(d)
  BY DEF Apply
<1>3. i \in Indices /\ n \in 1 .. MaxBlock /\ i - 1 <= Len(Shown(doc))
  BY DEF Calls
<1> HIDE DEF t, e, i, n, b
<1>4. Inserts(doc, d, t, i, n, after) /\ Shaped(d)
  BY <1>1, <1>3, InsertRowsInserts, EditsWrite
<1> HIDE DEF d, after
<1>5. e.nodes = d.nodes /\ e.line = d.line /\ e.cells = d.cells /\ e.heights = d.heights
  BY <1>2, <1>4, CommittedIs
<1>6. /\ e.line = PutBefore(doc.line, Place(doc.line, after) + 1, Fresh(at, n))
      /\ DOMAIN e.nodes = DOMAIN doc.nodes \cup new
      /\ \A k \in DOMAIN doc.nodes : e.nodes[k] = doc.nodes[k]
      /\ \A k \in new : e.nodes[k] = [id |-> k, at |-> k, live |-> TRUE,
                                      after |-> IF k = at THEN after ELSE k - 1]
      /\ e.cells = Stamped(doc.cells, ShiftedFormulas(doc, i, n), t)
      /\ Reheights(doc, e, i, n, t)
  BY <1>4, <1>5 DEF Inserts, Reheights
<1> HIDE DEF at, new
<1>7. \A k \in DOMAIN doc.nodes : doc.nodes[k].live \in BOOLEAN
  BY <1>1 DEF Document, OfElements, Element
<1>8. \A k \in new : /\ e.nodes[k].id = k /\ e.nodes[k].live = TRUE
                     /\ e.nodes[k].after = IF k = at THEN after ELSE k - 1
  <2> SUFFICES ASSUME NEW k \in new
               PROVE  /\ e.nodes[k].id = k /\ e.nodes[k].live = TRUE
                      /\ e.nodes[k].after = IF k = at THEN after ELSE k - 1
    OBVIOUS
  <2> DEFINE l == IF k = at THEN after ELSE k - 1
  <2>1. e.nodes[k] = [id |-> k, at |-> k, live |-> TRUE, after |-> l]
    BY <1>6
  <2> HIDE DEF l
  <2>2. e.nodes[k].id = k /\ e.nodes[k].live = TRUE /\ e.nodes[k].after = l
    BY <2>1
  <2>3. QED
    BY <2>2 DEF l
<1>9. Looks(doc, e, {}, new)
  BY <1>6, <1>7, <1>8 DEF Looks
<1>10. Rewritten(doc.cells, e.cells, {}, ShiftedFormulas(doc, i, n), t)
  BY <1>1, <1>6, StampedRewrites
<1>11. Reheighted(doc, e, i, n, t)
  BY <1>1, <1>6, ReheightsIs
<1>12. \A k \in DOMAIN doc.nodes : e.nodes[k].after = doc.nodes[k].after
  BY <1>6
<1>13. QED
  BY <1>6, <1>8, <1>9, <1>10, <1>11, <1>12 DEF Inserting, t, e, i, n, after, at, new

\* What a delete does to a replica.
Rest(doc, i, n) ==
    [id \in Formulas(doc) \ Ids(doc, TakenOut(doc, i, n)) |-> ShiftedFormulas(doc, i, -n)[id]]
Deleting(doc, e, i, n, t) ==
    /\ Looks(doc, e, TakenOut(doc, i, n), {}) /\ e.line = doc.line
    /\ Rewritten(doc.cells, e.cells, Ids(doc, TakenOut(doc, i, n)), Rest(doc, i, n), t)
    /\ Reheighted(doc, e, i, -n, t)

LEMMA ElementKilled ==
    ASSUME NEW e, e = [id |-> e.id, at |-> e.at, live |-> e.live, after |-> e.after], NEW l
    PROVE  [e EXCEPT !.live = l] = [id |-> e.id, at |-> e.at, live |-> l, after |-> e.after]
  OBVIOUS

LEMMA DeleteIs ==
    ASSUME NEW doc, Ready(doc), NEW c \in Clients, NEW m \in Calls, m.call = "delete"
    PROVE  Deleting(doc, Apply(doc, c, m), m.at, m.n, Ticket(doc, c))
<1> DEFINE t == Ticket(doc, c)
           e == Apply(doc, c, m)
           i == m.at
           n == m.n
           d == DeleteRows(doc, t, i, n)
           b == Ceiling(doc)
           taken == TakenOut(doc, i, n)
           f == Rest(doc, i, n)
<1>1. Document(doc, b) /\ Entries(doc.cells) /\ Entries(doc.heights)
  BY ReadyIs
<1>2. e = Committed(d)
  BY DEF Apply
<1>3. i \in Nat \ {0} /\ n \in Nat
  BY LimitIs DEF Calls, Indices
<1> HIDE DEF t, e, i, n, b
<1>4. Deletes(doc, d, t, i, n) /\ Shaped(d)
  BY <1>1, <1>3, DeleteRowsDeletes, EditsWrite
<1> HIDE DEF d
<1>5. e.nodes = d.nodes /\ e.line = d.line /\ e.cells = d.cells /\ e.heights = d.heights
  BY <1>2, <1>4, CommittedIs
<1>6. /\ e.line = doc.line /\ e.nodes = Erased(doc.nodes, taken)
      /\ e.cells = Stamped(Erased(doc.cells, Ids(doc, taken)), f, t)
      /\ Reheights(doc, e, i, -n, t)
  BY <1>4, <1>5 DEF Deletes, Rest, Reheights
<1> HIDE DEF taken, f
<1>7. Looks(doc, e, taken, {})
  <2>1. DOMAIN e.nodes = DOMAIN doc.nodes
    BY <1>6 DEF Erased
  <2>2. ASSUME NEW k \in DOMAIN doc.nodes
        PROVE  /\ e.nodes[k].id = doc.nodes[k].id
               /\ e.nodes[k].live = (doc.nodes[k].live /\ k \notin taken)
    <3> DEFINE x == doc.nodes[k]
    <3>1. x = [id |-> x.id, at |-> x.at, live |-> x.live, after |-> x.after] /\ x.live \in BOOLEAN
      BY <1>1 DEF Document, OfElements, Element
    <3>2. e.nodes[k] = IF k \in taken THEN [x EXCEPT !.live = FALSE] ELSE x
      BY <1>6 DEF Erased
    <3> HIDE DEF x
    <3>3. [x EXCEPT !.live = FALSE] = [id |-> x.id, at |-> x.at, live |-> FALSE, after |-> x.after]
      BY <3>1, ElementKilled
    <3>4. QED
      BY <3>1, <3>2, <3>3 DEF x
  <2>3. QED
    BY <2>1, <2>2 DEF Looks
<1>8. Rewritten(doc.cells, e.cells, Ids(doc, taken), f, t)
  BY <1>1, <1>6, StampedRewrites
<1>9. Reheighted(doc, e, i, -n, t)
  <2> DEFINE count == -n
  <2>1. Reheights(doc, e, i, count, t)
    BY <1>6
  <2> HIDE DEF count
  <2>2. Reheighted(doc, e, i, count, t)
    BY <1>1, <2>1, ReheightsIs
  <2>3. QED
    BY <2>2 DEF count
<1>10. QED
  BY <1>6, <1>7, <1>8, <1>9 DEF Deleting, t, e, i, n, taken, f

LEMMA EitherWay ==
    ASSUME NEW old, NEW f, NEW E, NEW S, NEW g, NEW F, NEW T, Parted(old, f, E, S, g, F, T),
           NEW r, r \in {MergeRecords(f, g), MergeRecords(g, f)}
    PROVE  Joined(r, old, E, S, F, T)
<1>1. CASE r = MergeRecords(f, g)
  BY <1>1, RewrittenApart
<1>2. CASE r = MergeRecords(g, f)
  <2>1. Parted(old, g, F, T, f, E, S)
    BY DEF Parted
  <2>2. Joined(r, old, F, T, E, S)
    BY <1>2, <2>1, RewrittenApart
  <2>3. F \cup E = E \cup F
    OBVIOUS
  <2>4. Held(r) = (Held(old) \ (E \cup F)) \cup DOMAIN S \cup DOMAIN T
    BY <2>2, <2>3 DEF Joined
  <2>5. ASSUME \A k \in DOMAIN S \cap DOMAIN T : S[k] = T[k], NEW k
        PROVE  Content(r, k) = IF k \in DOMAIN S THEN S[k] ELSE Left(E \cup F, T, k, Content(old, k))
    <3>1. \A l \in DOMAIN T \cap DOMAIN S : T[l] = S[l]
      BY <2>5
    <3>2. Content(r, k) = IF k \in DOMAIN T THEN T[k] ELSE Left(E \cup F, S, k, Content(old, k))
      BY <2>2, <2>3, <3>1 DEF Joined
    <3>3. QED
      BY <2>5, <3>2 DEF Left
  <2>6. QED
    BY <2>4, <2>5 DEF Joined
<1>3. QED
  BY <1>1, <1>2

\* r is the merge of x and y, whichever comes first.
Joins(r, x, y) ==
    /\ Document(r, Ceiling(r))
    /\ DOMAIN r.nodes = DOMAIN x.nodes \cup DOMAIN y.nodes
    /\ SameElements(r.nodes, x.nodes) /\ SameElements(r.nodes, y.nodes)
    /\ r.nodes \in {MergeRecords(x.nodes, y.nodes), MergeRecords(y.nodes, x.nodes)}
    /\ r.cells \in {MergeRecords(x.cells, y.cells), MergeRecords(y.cells, x.cells)}
    /\ r.heights \in {MergeRecords(x.heights, y.heights), MergeRecords(y.heights, x.heights)}

LEMMA JoinsTurned ==
    ASSUME NEW r, NEW x, NEW y, Joins(r, x, y)
    PROVE  Joins(r, y, x)
  BY DEF Joins

\* Two clients call the store on copies of the same sheet.
LEMMA PairJoins ==
    ASSUME NEW doc, Base(doc), NEW c \in Clients, NEW d \in Clients, c # d,
           NEW m \in Calls, NEW p \in Calls
    PROVE  LET x == Apply(doc, c, m)
               y == Apply(doc, d, p)
           IN  /\ Joins(Merge(x, y), x, y) /\ Ready(doc) /\ Ready(x) /\ Ready(y)
               /\ NewElements(doc, x) \cap NewElements(doc, y) = {}
               /\ x.clock = doc.clock + 1 /\ y.clock = doc.clock + 1
<1> DEFINE x == Apply(doc, c, m)
           y == Apply(doc, d, p)
           r == Merge(x, y)
<1>1. Ready(doc) /\ Sound(x, MaxChanges) /\ Sound(y, MaxChanges)
  BY ApplySound
<1>2. /\ Ready(x) /\ x.clock = doc.clock + 1
      /\ Keeps(doc, x) /\ NewElements(doc, x) \subseteq Block(doc.clock, c)
  BY <1>1, CallLands
<1>3. /\ Ready(y) /\ y.clock = doc.clock + 1
      /\ Keeps(doc, y) /\ NewElements(doc, y) \subseteq Block(doc.clock, d)
  BY <1>1, CallLands
<1>4. Block(doc.clock, c) \cap Block(doc.clock, d) = {}
  <2>1. doc.clock \in Nat
    BY <1>1, ReadyIs
  <2>2. QED
    BY <2>1, BlocksApart
<1> HIDE DEF x, y
<1>5. NewElements(doc, x) \cap NewElements(doc, y) = {}
  BY <1>2, <1>3, <1>4
<1>6. Agree(x, y)
  BY <1>2, <1>3, <1>5 DEF Agree, Keeps, NewElements
<1>7. MaxChanges \in Nat
  BY LimitIs
<1>8. Sound(r, MaxChanges) /\ DOMAIN r.nodes = DOMAIN x.nodes \cup DOMAIN y.nodes
  BY <1>1, <1>6, <1>7, MergeSound
<1>9. /\ r.nodes = MergeRecords(x.nodes, y.nodes) /\ r.cells = MergeRecords(x.cells, y.cells)
      /\ r.heights = MergeRecords(x.heights, y.heights)
  BY DEF Merge
<1> HIDE DEF r
<1>10. OfElements(x.nodes, Ceiling(x)) /\ OfElements(y.nodes, Ceiling(x))
  BY <1>2, <1>3 DEF Ready, Document, Ceiling
<1>11. SameElements(x.nodes, y.nodes)
  BY <1>6 DEF Agree, SameElements
<1>12. SameElements(r.nodes, x.nodes) /\ SameElements(r.nodes, y.nodes)
  BY <1>9, <1>10, <1>11, NodesMerged
<1>13. Joins(r, x, y)
  BY <1>8, <1>9, <1>12 DEF Joins, Sound
<1>14. QED
  BY <1>1, <1>2, <1>3, <1>5, <1>13 DEF x, y, r

\* What the merge shows of doc: the elements neither took out, and those either put in.
LEMMA JoinLooks ==
    ASSUME NEW doc, NEW r, NEW x, NEW y, Joins(r, x, y), NEW b, Document(x, b),
           NEW B, Document(y, B),
           NEW D, NEW M, Looks(doc, x, D, M), NEW E, NEW N, Looks(doc, y, E, N),
           M \cap DOMAIN doc.nodes = {}, N \cap DOMAIN doc.nodes = {}, M \cap N = {}
    PROVE  Looks(doc, r, D \cup E, M \cup N)
<1>1. \A k \in DOMAIN x.nodes :
          /\ x.nodes[k] = [id |-> x.nodes[k].id, at |-> x.nodes[k].at, live |-> x.nodes[k].live,
                           after |-> x.nodes[k].after]
          /\ x.nodes[k].at = k /\ k \in Nat /\ x.nodes[k].live \in BOOLEAN
  BY DEF Document, OfElements, Element
<1>2. \A k \in DOMAIN y.nodes :
          /\ y.nodes[k] = [id |-> y.nodes[k].id, at |-> y.nodes[k].at, live |-> y.nodes[k].live,
                           after |-> y.nodes[k].after]
          /\ y.nodes[k].at = k /\ k \in Nat /\ y.nodes[k].live \in BOOLEAN
  BY DEF Document, OfElements, Element
<1>3. DOMAIN x.nodes = DOMAIN doc.nodes \cup M /\ DOMAIN y.nodes = DOMAIN doc.nodes \cup N
      /\ DOMAIN r.nodes = DOMAIN x.nodes \cup DOMAIN y.nodes
  BY DEF Looks, Joins
<1>4. r.nodes \in {MergeRecords(x.nodes, y.nodes), MergeRecords(y.nodes, x.nodes)}
  BY DEF Joins
<1>5. \A k \in M : r.nodes[k] = x.nodes[k]
  BY <1>3, <1>4 DEF MergeRecords
<1>6. \A k \in N : r.nodes[k] = y.nodes[k]
  BY <1>3, <1>4 DEF MergeRecords
<1>7. ASSUME NEW k \in DOMAIN doc.nodes
      PROVE  /\ r.nodes[k].id = doc.nodes[k].id
             /\ r.nodes[k].live = (doc.nodes[k].live /\ k \notin D \cup E)
  <2> DEFINE f == x.nodes[k]
             g == y.nodes[k]
             l == f.live /\ g.live
             h == g.live /\ f.live
  <2>1. k \in DOMAIN x.nodes /\ k \in DOMAIN y.nodes /\ f.at = k /\ g.at = k /\ k \in Nat
    BY <1>1, <1>2, <1>3
  <2>2. r.nodes[k] \in {Latest(f, g), Latest(g, f)}
    BY <1>3, <1>4, <2>1 DEF MergeRecords
  <2>3. r.nodes[k] \in {[f EXCEPT !.live = l], [g EXCEPT !.live = h]}
    BY <2>1, <2>2 DEF Latest
  <2>4. /\ f.id = doc.nodes[k].id /\ g.id = doc.nodes[k].id
        /\ f.live = (doc.nodes[k].live /\ k \notin D) /\ g.live = (doc.nodes[k].live /\ k \notin E)
    BY DEF Looks
  <2>5. l = (doc.nodes[k].live /\ k \notin D \cup E) /\ h = l
    BY <2>4
  <2>6. /\ f = [id |-> f.id, at |-> f.at, live |-> f.live, after |-> f.after]
        /\ g = [id |-> g.id, at |-> g.at, live |-> g.live, after |-> g.after]
    BY <1>1, <1>2, <2>1
  <2> HIDE DEF l, h, f, g
  <2>7. /\ [f EXCEPT !.live = l] = [id |-> f.id, at |-> f.at, live |-> l, after |-> f.after]
        /\ [g EXCEPT !.live = h] = [id |-> g.id, at |-> g.at, live |-> h, after |-> g.after]
    BY <2>6, ElementKilled
  <2>8. r.nodes[k].id \in {f.id, g.id} /\ r.nodes[k].live \in {l, h}
    BY <2>3, <2>7
  <2>9. QED
    BY <2>4, <2>5, <2>8
<1>8. QED
  BY <1>3, <1>5, <1>6, <1>7 DEF Looks

LEMMA JoinLine ==
    ASSUME NEW r, NEW x, NEW y, Joins(r, x, y), NEW b, Document(y, b),
           DOMAIN x.nodes \subseteq DOMAIN y.nodes
    PROVE  r.line = y.line
<1>1. Numbered(y.nodes) /\ DOMAIN r.nodes = DOMAIN y.nodes /\ SameElements(r.nodes, y.nodes)
  BY DocumentNumbered DEF Joins
<1>2. \A k \in DOMAIN y.nodes : y.nodes[k].after = r.nodes[k].after
  BY <1>1 DEF SameElements
<1>3. Lined(r.nodes) = Lined(y.nodes)
  BY <1>1, <1>2, LinedSame
<1>4. QED
  BY <1>3 DEF Joins, Document

LEMMA LooksOn ==
    ASSUME NEW doc, NEW x, NEW D, NEW M, Looks(doc, x, D, M),
           NEW y, NEW E, NEW N, Looks(x, y, E, N), E \cap M = {}
    PROVE  Looks(doc, y, D \cup E, M \cup N)
<1>1. DOMAIN x.nodes = DOMAIN doc.nodes \cup M /\ DOMAIN y.nodes = DOMAIN x.nodes \cup N
  BY DEF Looks
<1>2. \A k \in M : y.nodes[k].id = k /\ y.nodes[k].live = TRUE
  BY <1>1 DEF Looks
<1>3. \A k \in DOMAIN doc.nodes : /\ y.nodes[k].id = doc.nodes[k].id
                                  /\ y.nodes[k].live = (doc.nodes[k].live /\ k \notin D \cup E)
  BY <1>1 DEF Looks
<1>4. QED
  BY <1>1, <1>2, <1>3 DEF Looks

\* The elements of doc without D, and those of M, have the same contents.
SameContents(doc, r, s, D, M) ==
    /\ \A k \in DOMAIN doc.nodes : doc.nodes[k].live /\ k \notin D =>
           CellAt(r, doc.nodes[k].id) = CellAt(s, doc.nodes[k].id)
    /\ \A k \in M : CellAt(r, k) = CellAt(s, k)
    /\ Held(r.heights) = Held(s.heights)

\* Replicas with lists that are alike but for the elements put in last, and with the same
\* contents, look the same.
Pictured(doc, r, s, D, M, at, bt, n) ==
    /\ at \in Nat /\ bt \in Nat /\ n \in Nat
    /\ Looks(doc, r, D, M \cup (at .. at + n - 1)) /\ Looks(doc, s, D, M \cup (bt .. bt + n - 1))
    /\ Twins(r.line, s.line, DOMAIN doc.nodes \cup M, at, bt, n)
    /\ SameContents(doc, r, s, D, M)
    /\ \A j \in 0 .. n - 1 : CellAt(r, at + j) = None /\ CellAt(s, bt + j) = None

LEMMA SamePicture ==
    ASSUME NEW doc, NEW r, Document(r, Ceiling(r)), NEW s, Document(s, Ceiling(s)),
           NEW D, NEW M, NEW at, NEW bt, NEW n, Pictured(doc, r, s, D, M, at, bt, n)
    PROVE  View(r) = View(s)
<1>0. /\ at \in Nat /\ bt \in Nat /\ n \in Nat
      /\ Looks(doc, r, D, M \cup (at .. at + n - 1)) /\ Looks(doc, s, D, M \cup (bt .. bt + n - 1))
      /\ Twins(r.line, s.line, DOMAIN doc.nodes \cup M, at, bt, n)
      /\ SameContents(doc, r, s, D, M)
      /\ \A j \in 0 .. n - 1 : CellAt(r, at + j) = None /\ CellAt(s, bt + j) = None
  BY DEF Pictured
<1> DEFINE S == DOMAIN doc.nodes \cup M
<1>1. ASSUME NEW k \in DOMAIN doc.nodes PROVE SameShown(r, k, s, k)
  <2> DEFINE id == doc.nodes[k].id
             shown == doc.nodes[k].live /\ k \notin D
  <2>1. /\ r.nodes[k].id = id /\ r.nodes[k].live = shown
        /\ s.nodes[k].id = id /\ s.nodes[k].live = shown
    BY <1>0 DEF Looks
  <2>2. shown => CellAt(r, id) = CellAt(s, id)
    BY <1>0 DEF SameContents
  <2> HIDE DEF id, shown
  <2>3. QED
    BY <2>1, <2>2 DEF SameShown, InCell
<1>2. ASSUME NEW k \in M PROVE SameShown(r, k, s, k)
  <2>1. /\ r.nodes[k].id = k /\ r.nodes[k].live = TRUE
        /\ s.nodes[k].id = k /\ s.nodes[k].live = TRUE
    BY <1>0, <1>2 DEF Looks
  <2>2. QED
    BY <1>0, <1>2, <2>1 DEF SameShown, InCell, SameContents
<1>3. ASSUME NEW j \in 0 .. n - 1 PROVE SameShown(r, at + j, s, bt + j)
  <2>1. at + j \in at .. at + n - 1 /\ bt + j \in bt .. bt + n - 1
    BY <1>0
  <2> DEFINE k == at + j
             l == bt + j
  <2>2. r.nodes[k].id = k /\ r.nodes[k].live = TRUE /\ s.nodes[l].id = l /\ s.nodes[l].live = TRUE
    BY <1>0, <2>1 DEF Looks
  <2>3. CellAt(r, k) = CellAt(s, l)
    BY <1>0
  <2> HIDE DEF k, l
  <2>4. SameShown(r, k, s, l)
    BY <2>2, <2>3 DEF SameShown, InCell
  <2>5. QED
    BY <2>4 DEF k, l
<1>4. \A k \in S : SameShown(r, k, s, k)
  BY <1>1, <1>2
<1> HIDE DEF S
<1>5. Twins(r.line, s.line, S, at, bt, n)
  BY <1>0 DEF S
<1>6. QED
  BY <1>0, <1>3, <1>4, <1>5, TwinViews DEF SameContents

-----------------------------------------------------------------------------
(* Pairs of calls and their orders.                                         *)

\* c makes call m and d makes call p on copies of doc; r is the merge.
Pair(doc, c, m, d, p, r) ==
    /\ Base(doc) /\ c \in Clients /\ d \in Clients /\ c # d /\ m \in Calls /\ p \in Calls
    /\ Joins(r, Apply(doc, c, m), Apply(doc, d, p))

LEMMA PairIs ==
    ASSUME NEW doc, NEW c, NEW m, NEW d, NEW p, NEW r, Pair(doc, c, m, d, p, r)
    PROVE  LET x == Apply(doc, c, m)
               y == Apply(doc, d, p)
               s == Apply(x, d, p)
           IN  /\ Ready(doc) /\ Ready(x) /\ Ready(y) /\ Ready(s)
               /\ Document(r, Ceiling(r)) /\ Joins(r, x, y)
               /\ NewElements(doc, x) \cap NewElements(doc, y) = {}
               /\ Pair(doc, d, p, c, m, r)
<1> DEFINE x == Apply(doc, c, m)
           y == Apply(doc, d, p)
<1>1. /\ Base(doc) /\ c \in Clients /\ d \in Clients /\ c # d /\ m \in Calls /\ p \in Calls
      /\ Joins(r, x, y)
  BY DEF Pair
<1>2. Ready(doc) /\ Ready(x) /\ Ready(y) /\ NewElements(doc, x) \cap NewElements(doc, y) = {}
  BY <1>1, PairJoins
<1>3. Joins(r, y, x)
  BY <1>1, JoinsTurned
<1>4. Pair(doc, d, p, c, m, r)
  BY <1>1, <1>3 DEF Pair
<1> HIDE DEF x, y
<1>5. Ready(Apply(x, d, p))
  BY <1>1, <1>2, CallLands
<1>6. Document(r, Ceiling(r))
  BY <1>1 DEF Joins
<1>7. QED
  BY <1>1, <1>2, <1>4, <1>5, <1>6 DEF x, y

LEMMA PairParted ==
    ASSUME NEW doc, NEW c, NEW m, NEW d, NEW p, NEW r, Pair(doc, c, m, d, p, r),
           NEW E, NEW S, NEW F, NEW T
    PROVE  LET x == Apply(doc, c, m)
               y == Apply(doc, d, p)
               t == Ticket(doc, c)
               u == Ticket(doc, d)
           IN  /\ Rewritten(doc.cells, x.cells, E, S, t) /\ Rewritten(doc.cells, y.cells, F, T, u)
                      => Joined(r.cells, doc.cells, E, S, F, T)
               /\ Rewritten(doc.heights, x.heights, E, S, t)
                  /\ Rewritten(doc.heights, y.heights, F, T, u)
                      => Joined(r.heights, doc.heights, E, S, F, T)
<1> DEFINE x == Apply(doc, c, m)
           y == Apply(doc, d, p)
           t == Ticket(doc, c)
           u == Ticket(doc, d)
           b == Ceiling(doc)
<1>1. Ready(doc) /\ Joins(r, x, y) /\ Stamps(doc) /\ c \in Clients /\ d \in Clients
  BY PairIs DEF Pair, Base
<1>2. /\ Entries(doc.cells) /\ Entries(doc.heights)
      /\ b \in Nat /\ t \in Nat /\ u \in Nat /\ b <= t /\ b <= u
  BY <1>1, ReadyIs
<1>3. Before(doc.cells, b) /\ Before(doc.heights, b)
  BY <1>1 DEF Stamps
<1> HIDE DEF x, y, t, u, b
<1>4. /\ r.cells \in {MergeRecords(x.cells, y.cells), MergeRecords(y.cells, x.cells)}
      /\ r.heights \in {MergeRecords(x.heights, y.heights), MergeRecords(y.heights, x.heights)}
  BY <1>1 DEF Joins
<1>5. ASSUME Rewritten(doc.cells, x.cells, E, S, t), Rewritten(doc.cells, y.cells, F, T, u)
      PROVE  Joined(r.cells, doc.cells, E, S, F, T)
  <2>1. Parted(doc.cells, x.cells, E, S, y.cells, F, T)
    BY <1>2, <1>3, <1>5 DEF Parted
  <2>2. QED
    BY <1>4, <2>1, EitherWay
<1>6. ASSUME Rewritten(doc.heights, x.heights, E, S, t), Rewritten(doc.heights, y.heights, F, T, u)
      PROVE  Joined(r.heights, doc.heights, E, S, F, T)
  <2>1. Parted(doc.heights, x.heights, E, S, y.heights, F, T)
    BY <1>2, <1>3, <1>6 DEF Parted
  <2>2. QED
    BY <1>4, <2>1, EitherWay
<1>7. QED
  BY <1>5, <1>6 DEF x, y, t, u

\* A key keeps its content whether the second call is merged or comes second, unless the
\* second call erases what the first wrote.
LEMMA SerialContent ==
    ASSUME NEW old, NEW f, NEW E, NEW S, NEW t, Rewritten(old, f, E, S, t),
           NEW h, NEW F, NEW T, NEW u, Rewritten(f, h, F, T, u),
           NEW r, Joined(r, old, E, S, F, T), \A k \in DOMAIN S \cap DOMAIN T : S[k] = T[k],
           NEW k, k \in F /\ k \in DOMAIN S => k \in DOMAIN T
    PROVE  Content(r, k) = Content(h, k)
<1>1. Content(r, k) = IF k \in DOMAIN S THEN S[k] ELSE Left(E \cup F, T, k, Content(old, k))
  BY DEF Joined
<1>2. Content(f, k) = Left(E, S, k, Content(old, k))
  BY RewrittenHolds
<1>3. Content(h, k) = Left(F, T, k, Content(f, k))
  BY RewrittenHolds
<1>4. QED
  BY <1>1, <1>2, <1>3 DEF Left

\* A second call that writes all heights again writes them the same.
HeightsJoin(doc, y, u, r) ==
    \A F, T : Rewritten(doc.heights, y.heights, F, T, u) =>
                 Joined(r.heights, doc.heights, {}, Nothing, F, T)
RowsThenHeights(doc, x, y, s, r, i, n) ==
    \E t, u, w : /\ Rewritten(doc.heights, x.heights, {}, Nothing, t)
                 /\ Reheighted(doc, y, i, n, u) /\ Reheighted(x, s, i, n, w)
                 /\ HeightsJoin(doc, y, u, r)
LEMMA SerialHeights ==
    ASSUME NEW doc, NEW x, NEW y, NEW s, NEW r, NEW i, NEW n, RowsThenHeights(doc, x, y, s, r, i, n)
    PROVE  Held(r.heights) = Held(s.heights)
<1>0. PICK t, u, w : /\ Rewritten(doc.heights, x.heights, {}, Nothing, t)
                     /\ Reheighted(doc, y, i, n, u) /\ Reheighted(x, s, i, n, w)
                     /\ HeightsJoin(doc, y, u, r)
  BY DEF RowsThenHeights
<1>1. PICK T : /\ DOMAIN T = ShiftIndexSet(Held(doc.heights), i, n)
               /\ Rewritten(doc.heights, y.heights, Held(doc.heights), T, u)
  BY <1>0 DEF Reheighted
<1>2. PICK V : /\ DOMAIN V = ShiftIndexSet(Held(x.heights), i, n)
               /\ Rewritten(x.heights, s.heights, Held(x.heights), V, w)
  BY <1>0 DEF Reheighted
<1>3. DOMAIN Nothing = {}
  BY DEF Nothing
<1>4. Held(x.heights) = Held(doc.heights)
  <2>1. Held(x.heights) = (Held(doc.heights) \ {}) \cup DOMAIN Nothing
    BY <1>0, RewrittenHolds
  <2>2. QED
    BY <1>3, <2>1
<1>5. Held(r.heights) = DOMAIN T
  <2>1. Joined(r.heights, doc.heights, {}, Nothing, Held(doc.heights), T)
    BY <1>0, <1>1 DEF HeightsJoin
  <2>2. QED
    BY <1>3, <2>1 DEF Joined
<1>6. Held(s.heights) = DOMAIN V
  BY <1>2, RewrittenHolds
<1>7. QED
  BY <1>1, <1>2, <1>4, <1>5, <1>6

\* The same list with the same contents.
LEMMA SameListPicture ==
    ASSUME NEW doc, NEW r, Document(r, Ceiling(r)), NEW s, Document(s, Ceiling(s)), r.line = s.line,
           NEW D, NEW M, Looks(doc, r, D, M), Looks(doc, s, D, M), SameContents(doc, r, s, D, M)
    PROVE  View(r) = View(s)
<1>1. ListsOnce(r.line, DOMAIN doc.nodes \cup M)
  <2>1. ListsOnce(r.line, DOMAIN r.nodes)
    BY LineLists
  <2>2. QED
    BY <2>1 DEF Looks
<1>2. \A i \in 1 .. Len(r.line) : r.line[i] \in DOMAIN doc.nodes \cup M
  BY <1>1 DEF ListsOnce
<1>3. ASSUME NEW k \in DOMAIN doc.nodes PROVE SameShown(r, k, s, k)
  <2> DEFINE id == doc.nodes[k].id
             shown == doc.nodes[k].live /\ k \notin D
  <2>1. /\ r.nodes[k].id = id /\ r.nodes[k].live = shown
        /\ s.nodes[k].id = id /\ s.nodes[k].live = shown
    BY DEF Looks
  <2>2. shown => CellAt(r, id) = CellAt(s, id)
    BY DEF SameContents
  <2> HIDE DEF id, shown
  <2>3. QED
    BY <2>1, <2>2 DEF SameShown, InCell
<1>4. ASSUME NEW k \in M PROVE SameShown(r, k, s, k)
  <2>1. /\ r.nodes[k].id = k /\ r.nodes[k].live = TRUE
        /\ s.nodes[k].id = k /\ s.nodes[k].live = TRUE
    BY <1>4 DEF Looks
  <2>2. QED
    BY <1>4, <2>1 DEF SameShown, InCell, SameContents
<1>5. \A i \in 1 .. Len(r.line) : SameShown(r, r.line[i], s, s.line[i])
  BY <1>2, <1>3, <1>4
<1>6. Len(r.line) = Len(s.line)
  OBVIOUS
<1>7. QED
  BY <1>5, <1>6, ViewsAlike DEF SameContents

\* Typing in two rows, or twice in one: what is taken out is taken out first.
LEMMA TypedTyped ==
    ASSUME NEW doc, NEW c, NEW m, NEW d, NEW p, NEW r, Pair(doc, c, m, d, p, r),
           m.call \in Typed, p.call \in Typed, m.at <= Len(Shown(doc)), p.at <= Len(Shown(doc)),
           m.call = "set" => p.call = "set"
    PROVE  View(r) = View(Apply(Apply(doc, c, m), d, p))
<1> DEFINE x == Apply(doc, c, m)
           y == Apply(doc, d, p)
           s == Apply(x, d, p)
           t == Ticket(doc, c)
           u == Ticket(doc, d)
           w == Ticket(x, d)
           id == Rows(doc)[m.at]
           jd == Rows(doc)[p.at]
           v == m.call = "set"
           q == p.call = "set"
           E == IF v THEN {} ELSE {id}
           S == IF v THEN [k \in {id} |-> Value] ELSE Nothing
           F == IF q THEN {} ELSE {jd}
           T == IF q THEN [k \in {jd} |-> Value] ELSE Nothing
<1>1. /\ Ready(doc) /\ Ready(x) /\ Ready(y) /\ Ready(s)
      /\ Document(r, Ceiling(r)) /\ Joins(r, x, y)
  BY PairIs
<1>2. c \in Clients /\ d \in Clients /\ m \in Calls /\ p \in Calls
  BY DEF Pair
<1>3. Typing(doc, x, id, v, t) /\ Typing(doc, y, jd, q, u)
  BY <1>1, <1>2, TypedIs
<1>4. Typing(x, s, jd, q, w)
  <2>1. Shown(x) = Shown(doc) /\ Rows(x) = Rows(doc)
    BY <1>3 DEF Typing
  <2> HIDE DEF x
  <2>2. Typing(x, s, Rows(x)[p.at], q, w)
    BY <1>1, <1>2, <2>1, TypedIs
  <2>3. QED
    BY <2>1, <2>2
<1>5. Document(x, Ceiling(x)) /\ Document(y, Ceiling(y)) /\ Document(s, Ceiling(s))
  BY <1>1 DEF Ready
<1>6. /\ Rewritten(doc.cells, x.cells, E, S, t) /\ Rewritten(doc.cells, y.cells, F, T, u)
      /\ Rewritten(x.cells, s.cells, F, T, w)
      /\ Rewritten(doc.heights, x.heights, {}, Nothing, t)
      /\ Rewritten(doc.heights, y.heights, {}, Nothing, u)
      /\ Rewritten(x.heights, s.heights, {}, Nothing, w)
  BY <1>3, <1>4 DEF Typing
<1>7. Joined(r.cells, doc.cells, E, S, F, T) /\ Joined(r.heights, doc.heights, {}, Nothing, {}, Nothing)
  BY <1>6, PairParted
<1>8. \A k \in DOMAIN S \cap DOMAIN T : S[k] = T[k]
  BY DEF Nothing
<1>9. \A k : k \in F /\ k \in DOMAIN S => k \in DOMAIN T
  BY DEF Nothing
<1>10. DOMAIN Nothing = {}
  BY DEF Nothing
<1> HIDE DEF t, u, w, id, jd, v, q, E, S, F, T
<1>11. Looks(doc, x, {}, {}) /\ Looks(doc, y, {}, {}) /\ Looks(x, s, {}, {})
       /\ x.line = doc.line /\ y.line = doc.line /\ s.line = x.line
  BY <1>3, <1>4 DEF Typing
<1> HIDE DEF x, y, s
<1>12. Looks(doc, r, {}, {}) /\ Looks(doc, s, {}, {})
  <2>1. Looks(doc, r, {} \cup {}, {} \cup {})
    BY <1>1, <1>5, <1>11, JoinLooks
  <2>2. Looks(doc, s, {} \cup {}, {} \cup {})
    BY <1>11, LooksOn
  <2>3. QED
    BY <2>1, <2>2
<1>13. r.line = s.line
  <2>1. DOMAIN x.nodes \subseteq DOMAIN y.nodes
    BY <1>11 DEF Looks
  <2>2. QED
    BY <1>1, <1>5, <1>11, <2>1, JoinLine
<1>14. \A k : CellAt(r, k) = CellAt(s, k)
  <2>1. \A k : Content(r.cells, k) = Content(s.cells, k)
    BY <1>6, <1>7, <1>8, <1>9, SerialContent
  <2>2. QED
    BY <2>1 DEF CellAt, Content
<1>15. Held(r.heights) = Held(s.heights)
  <2>1. Held(x.heights) = (Held(doc.heights) \ {}) \cup DOMAIN Nothing
    BY <1>6, RewrittenHolds
  <2>2. Held(s.heights) = (Held(x.heights) \ {}) \cup DOMAIN Nothing
    BY <1>6, RewrittenHolds
  <2>3. QED
    BY <1>7, <1>10, <2>1, <2>2 DEF Joined
<1>16. View(r) = View(s)
  <2>1. SameContents(doc, r, s, {}, {})
    BY <1>14, <1>15 DEF SameContents
  <2>2. QED
    BY <1>1, <1>5, <1>12, <1>13, <2>1, SameListPicture
<1>17. QED
  BY <1>16 DEF x, s

\* Rows are added or taken out, and the heights written again.
Restructured(doc, x, i, n, t) ==
    /\ \E E, S : Rewritten(doc.cells, x.cells, E, S, t)
    /\ \E count : Reheighted(doc, x, i, count, t)
    /\ \E D, M : Looks(doc, x, D, M) /\ M \cap DOMAIN doc.nodes = {}

\* Ids made by a call are new.
LEMMA NewAbove ==
    ASSUME NEW doc, Ready(doc), NEW c \in Clients, NEW k \in Nat, k >= Ticket(doc, c)
    PROVE  /\ k \notin DOMAIN doc.nodes /\ k \notin Held(doc.cells) /\ k \notin Formulas(doc)
           /\ \A i \in 1 .. Len(Shown(doc)) : k # Rows(doc)[i]
<1> DEFINE b == Ceiling(doc)
<1>1. Document(doc, b) /\ b <= k /\ b \in Nat /\ Held(doc.cells) \subseteq Ids(doc, DOMAIN doc.nodes)
  <2>1. Ticket(doc, c) \in Nat /\ b \in Nat /\ b <= Ticket(doc, c) /\ Document(doc, b) /\ Named(doc)
    BY ReadyIs
  <2> HIDE DEF b
  <2>2. QED
    BY <2>1 DEF Named
<1> HIDE DEF b
<1>2. \A l \in DOMAIN doc.nodes : l \in Nat /\ l < b /\ doc.nodes[l].id \in Nat /\ doc.nodes[l].id < b
  BY <1>1 DEF Document, OfElements, Element
<1>3. k \notin DOMAIN doc.nodes /\ k \notin Ids(doc, DOMAIN doc.nodes)
  BY <1>1, <1>2 DEF Ids
<1>4. \A i \in 1 .. Len(Shown(doc)) : Rows(doc)[i] \in Nat /\ Rows(doc)[i] < b
  BY <1>1, RowsAre
<1>5. k \notin Held(doc.cells)
  BY <1>1, <1>3
<1>6. QED
  BY <1>1, <1>3, <1>4, <1>5 DEF Formulas

LEMMA EditRestructures ==
    ASSUME NEW doc, Ready(doc), NEW c \in Clients, NEW m \in Calls, m.call \in {"insert", "delete"},
           m.call = "insert" => m.at - 1 <= Len(Shown(doc))
    PROVE  Restructured(doc, Apply(doc, c, m), m.at, m.n, Ticket(doc, c))
<1> DEFINE t == Ticket(doc, c)
           x == Apply(doc, c, m)
           i == m.at
           n == m.n
<1>1. CASE m.call = "insert"
  <2> DEFINE M == t + Limit .. t + Limit + n - 1
  <2>1. Inserting(doc, x, i, n, t)
    BY <1>1, InsertIs
  <2>2. M \cap DOMAIN doc.nodes = {}
    <3>1. t \in Nat /\ Limit \in Nat /\ n \in Nat
      BY <1>1, ReadyIs, LimitIs DEF Calls
    <3>2. \A k \in M : k \in Nat /\ k >= t
      BY <3>1
    <3> HIDE DEF M
    <3>3. QED
      BY <3>2, NewAbove
  <2>3. /\ Looks(doc, x, {}, M) /\ Rewritten(doc.cells, x.cells, {}, ShiftedFormulas(doc, i, n), t)
        /\ Reheighted(doc, x, i, n, t)
    BY <2>1 DEF Inserting
  <2> HIDE DEF M, x, t, i, n
  <2>4. Restructured(doc, x, i, n, t)
    BY <2>2, <2>3 DEF Restructured
  <2>5. QED
    BY <2>4 DEF x, t, i, n
<1>2. CASE m.call = "delete"
  <2>1. Deleting(doc, x, i, n, t)
    BY <1>2, DeleteIs
  <2> HIDE DEF x, t, i, n
  <2>2. Restructured(doc, x, i, n, t)
    BY <2>1 DEF Restructured, Deleting
  <2>3. QED
    BY <2>2 DEF x, t, i, n
<1>3. QED
  BY <1>1, <1>2

\* Giving a row a height after the other inserts or deletes.
LEMMA HeightAfter ==
    ASSUME NEW doc, NEW c, NEW m, NEW d, NEW p, NEW r, Pair(doc, c, m, d, p, r),
           m.call \in {"insert", "delete"}, m.call = "insert" => m.at - 1 <= Len(Shown(doc)),
           p.call = "height"
    PROVE  View(r) = View(Apply(Apply(doc, c, m), d, p))
<1> DEFINE x == Apply(doc, c, m)
           y == Apply(doc, d, p)
           s == Apply(x, d, p)
           t == Ticket(doc, c)
           u == Ticket(doc, d)
           w == Ticket(x, d)
           i == m.at
           T == [k \in {p.at} |-> Height]
<1>1. /\ Ready(doc) /\ Ready(x) /\ Ready(y) /\ Ready(s)
      /\ Document(r, Ceiling(r)) /\ Joins(r, x, y)
  BY PairIs
<1>2. c \in Clients /\ d \in Clients /\ m \in Calls /\ p \in Calls
  BY DEF Pair
<1>3. Restructured(doc, x, i, m.n, t)
  BY <1>1, <1>2, EditRestructures
<1>4. Sizing(doc, y, p.at, u) /\ Sizing(x, s, p.at, w)
  BY <1>1, <1>2, HeightIs
<1>5. Document(x, Ceiling(x)) /\ Document(y, Ceiling(y)) /\ Document(s, Ceiling(s))
  BY <1>1 DEF Ready
<1> HIDE DEF i
<1>6. PICK E, S : Rewritten(doc.cells, x.cells, E, S, t)
  BY <1>3 DEF Restructured
<1>7. PICK D, M : Looks(doc, x, D, M) /\ M \cap DOMAIN doc.nodes = {}
  BY <1>3 DEF Restructured
<1>8. PICK count, V : /\ DOMAIN V = ShiftIndexSet(Held(doc.heights), i, count)
                      /\ Rewritten(doc.heights, x.heights, Held(doc.heights), V, t)
  BY <1>3 DEF Restructured, Reheighted
<1>9. /\ Looks(doc, y, {}, {}) /\ Looks(x, s, {}, {}) /\ y.line = doc.line /\ s.line = x.line
      /\ Rewritten(doc.cells, y.cells, {}, Nothing, u) /\ Rewritten(x.cells, s.cells, {}, Nothing, w)
      /\ Rewritten(doc.heights, y.heights, {}, T, u) /\ Rewritten(x.heights, s.heights, {}, T, w)
  BY <1>4 DEF Sizing
<1>10. /\ Joined(r.cells, doc.cells, E, S, {}, Nothing)
       /\ Joined(r.heights, doc.heights, Held(doc.heights), V, {}, T)
  BY <1>6, <1>8, <1>9, PairParted
<1>11. DOMAIN Nothing = {}
  BY DEF Nothing
<1> HIDE DEF t, u, w, T, x, y, s, Nothing
<1>12. Looks(doc, r, D, M) /\ Looks(doc, s, D, M)
  <2>1. Looks(doc, r, D \cup {}, M \cup {})
    BY <1>1, <1>5, <1>7, <1>9, JoinLooks
  <2>2. Looks(doc, s, D \cup {}, M \cup {})
    BY <1>7, <1>9, LooksOn
  <2>3. D \cup {} = D /\ M \cup {} = M
    OBVIOUS
  <2>4. QED
    BY <2>1, <2>2, <2>3
<1>13. r.line = s.line
  <2>1. DOMAIN y.nodes \subseteq DOMAIN x.nodes
    BY <1>7, <1>9 DEF Looks
  <2>2. Joins(r, y, x)
    BY <1>1, JoinsTurned
  <2>3. QED
    BY <1>5, <1>9, <2>1, <2>2, JoinLine
<1>14. \A k : CellAt(r, k) = CellAt(s, k)
  <2>1. \A k : Content(r.cells, k) = Content(s.cells, k)
    BY <1>6, <1>9, <1>10, <1>11, SerialContent
  <2>2. QED
    BY <2>1 DEF CellAt, Content
<1>15. Held(r.heights) = Held(s.heights)
  <2>1. Held(x.heights) = (Held(doc.heights) \ Held(doc.heights)) \cup DOMAIN V
    BY <1>8, RewrittenHolds
  <2>2. Held(s.heights) = (Held(x.heights) \ {}) \cup DOMAIN T
    BY <1>9, RewrittenHolds
  <2>3. Held(r.heights) = (Held(doc.heights) \ (Held(doc.heights) \cup {})) \cup DOMAIN V \cup DOMAIN T
    BY <1>10 DEF Joined
  <2>4. QED
    BY <2>1, <2>2, <2>3
<1>16. View(r) = View(s)
  <2>1. SameContents(doc, r, s, D, M)
    BY <1>14, <1>15 DEF SameContents
  <2>2. QED
    BY <1>1, <1>5, <1>12, <1>13, <2>1, SameListPicture
<1>17. QED
  BY <1>16 DEF x, s

\* Typing into a row without a formula leaves the formulas as they are.
TypingPlain(doc, x, id, v, t) ==
    v \in BOOLEAN /\ Typing(doc, x, id, v, t) /\ CellAt(doc, id) \notin References
LEMMA TypedFormulas ==
    ASSUME NEW doc, NEW x, NEW id, NEW v, NEW t, TypingPlain(doc, x, id, v, t)
    PROVE  /\ Formulas(x) = Formulas(doc) /\ id \notin Formulas(doc)
           /\ \A i, n : ShiftedFormulas(x, i, n) = ShiftedFormulas(doc, i, n)
<1> DEFINE E == IF v THEN {} ELSE {id}
           S == IF v THEN [k \in {id} |-> Value] ELSE Nothing
<1>1. Rows(x) = Rows(doc) /\ Rewritten(doc.cells, x.cells, E, S, t)
  BY DEF Typing, TypingPlain
<1>0. v \in BOOLEAN /\ CellAt(doc, id) \notin References
  BY DEF TypingPlain
<1>2. /\ E \subseteq {id} /\ DOMAIN S \subseteq {id} /\ (v => S[id] = Value)
      /\ (v => DOMAIN S = {id}) /\ (~v => DOMAIN S = {} /\ E = {id})
  BY <1>0 DEF Nothing
<1> HIDE DEF E, S
<1>3. Held(x.cells) = (Held(doc.cells) \ E) \cup DOMAIN S
  BY <1>1, RewrittenHolds
<1>4. \A k \in Held(doc.cells) : k # id => x.cells[k].val = doc.cells[k].val
  BY <1>1, <1>2 DEF Rewritten, Held
<1>5. id \notin Formulas(doc)
  BY <1>0 DEF Formulas, CellAt
<1>6. id \notin Formulas(x)
  <2>1. ASSUME v PROVE x.cells[id].val = Value
    <3>1. id \in DOMAIN S /\ S[id] = Value
      BY <1>2, <2>1
    <3>2. x.cells[id] = [at |-> t, val |-> S[id], live |-> TRUE]
      BY <1>1, <3>1 DEF Rewritten
    <3>3. QED
      BY <3>1, <3>2
  <2>2. ~v => id \notin Held(x.cells)
    BY <1>2, <1>3
  <2>3. QED
    BY <1>0, <2>1, <2>2, ValueAssumption DEF Formulas
<1>7. \A k : k # id => (k \in Formulas(x)) = (k \in Formulas(doc))
  BY <1>1, <1>2, <1>3, <1>4 DEF Formulas
<1>8. Formulas(x) = Formulas(doc)
  BY <1>5, <1>6, <1>7 DEF Formulas
<1>9. \A k \in Formulas(doc) : x.cells[k].val = doc.cells[k].val
  BY <1>4, <1>5 DEF Formulas
<1>10. ASSUME NEW i, NEW n PROVE ShiftedFormulas(x, i, n) = ShiftedFormulas(doc, i, n)
  BY <1>8, <1>9 DEF ShiftedFormulas
<1>11. QED
  BY <1>5, <1>8, <1>10

\* Typing into a row, and rows inserted after it was typed.
LEMMA TypedInsert ==
    ASSUME NEW doc, NEW c, NEW m, NEW d, NEW p, NEW r, Pair(doc, c, m, d, p, r),
           m.call \in Typed, m.at <= Len(Shown(doc)),
           CellAt(doc, Rows(doc)[m.at]) \notin References,
           p.call = "insert", p.at - 1 <= Len(Shown(doc))
    PROVE  View(r) = View(Apply(Apply(doc, c, m), d, p))
<1> DEFINE x == Apply(doc, c, m)
           y == Apply(doc, d, p)
           s == Apply(x, d, p)
           t == Ticket(doc, c)
           u == Ticket(doc, d)
           w == Ticket(x, d)
           id == Rows(doc)[m.at]
           v == m.call = "set"
           i == p.at
           n == p.n
           at == u + Limit
           bt == w + Limit
           E == IF v THEN {} ELSE {id}
           S == IF v THEN [k \in {id} |-> Value] ELSE Nothing
           T == ShiftedFormulas(doc, i, n)
           after == ElementBefore(doc, i)
           place == Place(doc.line, after) + 1
<1>1. /\ Ready(doc) /\ Ready(x) /\ Ready(y) /\ Ready(s)
      /\ Document(r, Ceiling(r)) /\ Joins(r, x, y)
  BY PairIs
<1>2. c \in Clients /\ d \in Clients /\ m \in Calls /\ p \in Calls
  BY DEF Pair
<1>3. Typing(doc, x, id, v, t)
  BY <1>1, <1>2, TypedIs
<1>4. Shown(x) = Shown(doc) /\ x.line = doc.line /\ Looks(doc, x, {}, {})
      /\ Rewritten(doc.cells, x.cells, E, S, t) /\ Rewritten(doc.heights, x.heights, {}, Nothing, t)
  BY <1>3 DEF Typing
<1>5. Inserting(doc, y, i, n, u)
  BY <1>1, <1>2, InsertIs
<1>6. Inserting(x, s, i, n, w)
  <2> HIDE DEF x
  <2>1. Inserting(x, Apply(x, d, p), p.at, p.n, Ticket(x, d))
    BY <1>1, <1>2, <1>4, InsertIs
  <2>2. QED
    BY <2>1
<1>7. Document(x, Ceiling(x)) /\ Document(y, Ceiling(y)) /\ Document(s, Ceiling(s))
      /\ Document(doc, Ceiling(doc))
  BY <1>1 DEF Ready
<1>8. /\ t \in Nat /\ u \in Nat /\ w \in Nat /\ n \in Nat /\ n # 0 /\ Limit \in Nat
      /\ Ceiling(doc) \in Nat /\ Ceiling(doc) <= u /\ i \in Nat
  <2>1. i \in 1 .. MaxRows /\ n \in 1 .. MaxBlock /\ MaxRows \in Nat /\ MaxBlock \in Nat
    BY <1>2, LimitIs DEF Calls, Indices
  <2> HIDE DEF i, n, x, t, u, w
  <2>2. t \in Nat /\ Limit \in Nat /\ Ceiling(doc) \in Nat
    BY <1>1, <1>2, ReadyIs DEF t
  <2>3. u \in Nat /\ Ceiling(doc) <= u
    BY <1>1, <1>2, ReadyIs DEF u
  <2>4. w \in Nat
    BY <1>1, <1>2, ReadyIs DEF w
  <2>5. QED
    BY <2>1, <2>2, <2>3, <2>4
<1>9. m.at \in 1 .. Len(Shown(doc))
  BY <1>2, <1>7, ShownLists DEF Calls, Indices
<1>10. v \in BOOLEAN /\ CellAt(doc, id) \notin References
  OBVIOUS
<1>11. u <= w
  <2>1. x.clock = doc.clock + 1 /\ doc.clock \in Nat
    BY <1>1, <1>2, CallLands, ReadyIs
  <2>2. u + Width <= ((doc.clock + 1 + 1) * Cardinality(Clients) + 1) * Width
    BY <1>2, <2>1, TicketIs
  <2>3. Ceiling(x) = ((doc.clock + 1 + 1) * Cardinality(Clients) + 1) * Width
    BY <2>1 DEF Ceiling
  <2>4. Ceiling(x) \in Nat /\ Ceiling(x) <= w /\ Width \in Nat
    BY <1>1, <1>2, ReadyIs, LimitIs
  <2>5. QED
    BY <1>8, <2>2, <2>3, <2>4
<1> HIDE DEF t, w, id, v, i, n, E, S, x, y, s
<1>12. /\ id \notin Formulas(doc) /\ ShiftedFormulas(x, i, n) = T
  <2>1. id \notin Formulas(doc) /\ \A j, k : ShiftedFormulas(x, j, k) = ShiftedFormulas(doc, j, k)
    BY <1>3, <1>10, TypedFormulas DEF TypingPlain
  <2>2. QED
    BY <2>1
<1>13. DOMAIN T = Formulas(doc)
  BY DEF ShiftedFormulas
<1>14. ElementBefore(x, i) = after
  BY <1>4 DEF ElementBefore
<1> HIDE DEF T, after
<1>15. /\ Looks(doc, y, {}, at .. at + n - 1) /\ y.line = PutBefore(doc.line, place, Fresh(at, n))
       /\ Rewritten(doc.cells, y.cells, {}, T, u) /\ Reheighted(doc, y, i, n, u)
  BY <1>5 DEF Inserting, T, after
<1>16. /\ Looks(x, s, {}, bt .. bt + n - 1) /\ s.line = PutBefore(doc.line, place, Fresh(bt, n))
       /\ Rewritten(x.cells, s.cells, {}, T, w) /\ Reheighted(x, s, i, n, w)
  BY <1>4, <1>6, <1>12, <1>14 DEF Inserting
<1>17. Joined(r.cells, doc.cells, E, S, {}, T)
  BY <1>4, <1>15, PairParted DEF x, y, t
<1>18. DOMAIN S \subseteq {id} /\ DOMAIN Nothing = {}
  BY DEF S, Nothing
<1>19. \A k : k >= u /\ k \in Nat => /\ k \notin DOMAIN doc.nodes /\ k \notin Held(doc.cells)
                                     /\ k \notin Formulas(doc) /\ k # id
  BY <1>1, <1>2, <1>9, NewAbove DEF id
<1>20. at \in Nat /\ bt \in Nat /\ at >= u /\ bt >= u
  BY <1>8, <1>11
<1> HIDE DEF at, bt, u
<1>21. (at .. at + n - 1) \cap DOMAIN doc.nodes = {}
  <2>1. \A k \in at .. at + n - 1 : k \in Nat /\ k >= u
    BY <1>8, <1>20
  <2>2. QED
    BY <1>19, <2>1
<1>22. Looks(doc, r, {}, {} \cup (at .. at + n - 1)) /\ Looks(doc, s, {}, {} \cup (bt .. bt + n - 1))
  <2> DEFINE N == at .. at + n - 1
             M == bt .. bt + n - 1
  <2>1. Looks(doc, y, {}, N) /\ Looks(x, s, {}, M) /\ N \cap DOMAIN doc.nodes = {}
    BY <1>15, <1>16, <1>21
  <2> HIDE DEF N, M
  <2>2. Looks(doc, r, {} \cup {}, {} \cup N)
    BY <1>1, <1>4, <1>7, <2>1, JoinLooks
  <2>3. Looks(doc, s, {} \cup {}, {} \cup M)
    BY <1>4, <2>1, LooksOn
  <2>4. QED
    BY <2>2, <2>3 DEF N, M
<1>23. r.line = y.line
  <2>1. DOMAIN x.nodes \subseteq DOMAIN y.nodes
    BY <1>4, <1>15 DEF Looks
  <2>2. QED
    BY <1>1, <1>7, <2>1, JoinLine
<1>24. Twins(r.line, s.line, DOMAIN doc.nodes \cup {}, at, bt, n)
  <2>1. ListsOnce(doc.line, DOMAIN doc.nodes)
    BY <1>7, LineLists
  <2>2. DOMAIN doc.nodes \subseteq Nat
    BY <1>7 DEF Document, OfElements
  <2>3. doc.line \in Seq(Nat) /\ Elements(doc.line) = DOMAIN doc.nodes
    BY <2>1, <2>2, SeqOfMore DEF ListsOnce
  <2>4. place \in 1 .. Len(doc.line) + 1
    BY <2>3, PlaceOf
  <2> HIDE DEF place
  <2>5. Twins(PutBefore(doc.line, place, Fresh(at, n)), PutBefore(doc.line, place, Fresh(bt, n)),
              Elements(doc.line), at, bt, n)
    BY <1>8, <1>20, <2>3, <2>4, PutTwins
  <2>6. DOMAIN doc.nodes \cup {} = DOMAIN doc.nodes
    OBVIOUS
  <2>7. QED
    BY <1>15, <1>16, <1>23, <2>3, <2>5, <2>6 DEF place
<1>25. \A k : CellAt(r, k) = CellAt(s, k)
  <2>1. \A k \in DOMAIN S \cap DOMAIN T : S[k] = T[k]
    BY <1>12, <1>13, <1>18
  <2>2. \A k : Content(r.cells, k) = Content(s.cells, k)
    BY <1>4, <1>16, <1>17, <2>1, SerialContent
  <2>3. QED
    BY <2>2 DEF CellAt, Content
<1>26. ASSUME NEW k \in Nat, k >= u PROVE CellAt(r, k) = None
  <2>1. k \notin DOMAIN S /\ k \notin DOMAIN T /\ k \notin Held(doc.cells)
    BY <1>13, <1>18, <1>19, <1>26
  <2>2. k \notin Held(r.cells)
    BY <1>17, <2>1 DEF Joined
  <2>3. QED
    BY <2>2 DEF CellAt
<1>27. Held(r.heights) = Held(s.heights)
  <2>1. HeightsJoin(doc, y, u, r)
    BY <1>4, PairParted DEF x, y, t, u, HeightsJoin
  <2>2. Rewritten(doc.heights, x.heights, {}, Nothing, t)
    BY <1>4
  <2>3. Reheighted(doc, y, i, n, u) /\ Reheighted(x, s, i, n, w)
    BY <1>15, <1>16
  <2>4. RowsThenHeights(doc, x, y, s, r, i, n)
    BY <2>1, <2>2, <2>3 DEF RowsThenHeights
  <2>5. QED
    BY <2>4, SerialHeights
<1>28. SameContents(doc, r, s, {}, {})
  BY <1>25, <1>27 DEF SameContents
<1>29. \A j \in 0 .. n - 1 : CellAt(r, at + j) = None /\ CellAt(s, bt + j) = None
  <2>1. \A j \in 0 .. n - 1 : at + j \in Nat /\ at + j >= u /\ bt + j \in Nat /\ bt + j >= u
    BY <1>8, <1>20 DEF u
  <2>2. QED
    BY <1>25, <1>26, <2>1
<1>30. View(r) = View(s)
  <2>1. Pictured(doc, r, s, {}, {}, at, bt, n)
    BY <1>8, <1>20, <1>22, <1>24, <1>28, <1>29 DEF Pictured
  <2>2. QED
    BY <1>1, <1>7, <2>1, SamePicture
<1>31. QED
  BY <1>30 DEF x, s

\* Rows of a sheet that shows the same are taken out alike.
LEMMA SameTaken ==
    ASSUME NEW doc, Ready(doc), NEW x, Shown(x) = Shown(doc), NEW D, NEW M, Looks(doc, x, D, M),
           NEW i \in Nat \ {0}, NEW n \in Nat
    PROVE  /\ TakenOut(x, i, n) = TakenOut(doc, i, n) /\ TakenOut(doc, i, n) \subseteq Live(doc)
           /\ Ids(x, TakenOut(doc, i, n)) = Ids(doc, TakenOut(doc, i, n))
<1> DEFINE taken == TakenOut(doc, i, n)
<1>1. Document(doc, Ceiling(doc))
  BY DEF Ready
<1>2. taken \subseteq Live(doc)
  BY <1>1, RemovedIs
<1>3. TakenOut(x, i, n) = taken
  BY DEF TakenOut, LastCut
<1> HIDE DEF taken
<1>4. \A k \in taken : x.nodes[k].id = doc.nodes[k].id
  BY <1>2 DEF Looks, Live
<1>5. Ids(x, taken) = Ids(doc, taken)
  BY <1>4 DEF Ids
<1>6. QED
  BY <1>2, <1>3, <1>5 DEF taken

\* Typing into a row, and rows deleted after it was typed.
LEMMA TypedDelete ==
    ASSUME NEW doc, NEW c, NEW m, NEW d, NEW p, NEW r, Pair(doc, c, m, d, p, r),
           m.call \in Typed, m.at <= Len(Shown(doc)),
           CellAt(doc, Rows(doc)[m.at]) \notin References,
           m.call = "set" => Rows(doc)[m.at] \notin Twice(doc),
           p.call = "delete"
    PROVE  View(r) = View(Apply(Apply(doc, c, m), d, p))
<1> DEFINE x == Apply(doc, c, m)
           y == Apply(doc, d, p)
           s == Apply(x, d, p)
           t == Ticket(doc, c)
           u == Ticket(doc, d)
           w == Ticket(x, d)
           id == Rows(doc)[m.at]
           v == m.call = "set"
           i == p.at
           n == p.n
           E == IF v THEN {} ELSE {id}
           S == IF v THEN [k \in {id} |-> Value] ELSE Nothing
           taken == TakenOut(doc, i, n)
           F == Ids(doc, taken)
           T == Rest(doc, i, n)
<1>1. /\ Ready(doc) /\ Ready(x) /\ Ready(y) /\ Ready(s)
      /\ Document(r, Ceiling(r)) /\ Joins(r, x, y)
  BY PairIs
<1>2. c \in Clients /\ d \in Clients /\ m \in Calls /\ p \in Calls
  BY DEF Pair
<1>3. Typing(doc, x, id, v, t)
  BY <1>1, <1>2, TypedIs
<1>4. Shown(x) = Shown(doc) /\ x.line = doc.line /\ Looks(doc, x, {}, {})
      /\ Rewritten(doc.cells, x.cells, E, S, t) /\ Rewritten(doc.heights, x.heights, {}, Nothing, t)
  BY <1>3 DEF Typing
<1>5. Deleting(doc, y, i, n, u)
  BY <1>1, <1>2, DeleteIs
<1>6. Deleting(x, s, i, n, w)
  <2> HIDE DEF x
  <2>1. Deleting(x, Apply(x, d, p), p.at, p.n, Ticket(x, d))
    BY <1>1, <1>2, DeleteIs
  <2>2. QED
    BY <2>1
<1>7. Document(x, Ceiling(x)) /\ Document(y, Ceiling(y)) /\ Document(s, Ceiling(s))
      /\ Document(doc, Ceiling(doc))
  BY <1>1 DEF Ready
<1>8. i \in Nat \ {0} /\ n \in Nat
  <2>1. i \in 1 .. MaxRows /\ n \in 1 .. MaxBlock /\ MaxRows \in Nat /\ MaxBlock \in Nat
    BY <1>2, LimitIs DEF Calls, Indices
  <2> HIDE DEF i, n
  <2>2. QED
    BY <2>1
<1>9. m.at \in 1 .. Len(Shown(doc))
  BY <1>2, <1>7, ShownLists DEF Calls, Indices
<1>10. /\ v \in BOOLEAN /\ CellAt(doc, id) \notin References /\ (v => id \notin Twice(doc))
  OBVIOUS
<1>11. /\ (\E l \in Live(doc) : doc.nodes[l].id = id) /\ id \in Nat
       /\ Twice(doc) = Repeated(doc, Live(doc))
  <2> DEFINE j == m.at
  <2>1. j \in 1 .. Len(Shown(doc))
    BY <1>9
  <2> HIDE DEF j
  <2>2. /\ Shown(doc)[j] \in Live(doc) /\ Rows(doc)[j] = doc.nodes[Shown(doc)[j]].id
        /\ Twice(doc) = Repeated(doc, Live(doc)) /\ Rows(doc) \in Seq(Nat)
        /\ DOMAIN Rows(doc) = 1 .. Len(Shown(doc))
    BY <1>7, <2>1, RowsAre
  <2>3. Rows(doc)[j] \in Nat
    BY <2>1, <2>2, ElementOfSeq
  <2>4. QED
    BY <2>2, <2>3 DEF j
<1>12. (DOMAIN S \subseteq {id}) /\ (~v => DOMAIN S = {})
  BY DEF Nothing
<1> HIDE DEF t, w, id, v, i, n, E, S, x, y, s, u
<1>13. /\ id \notin Formulas(doc) /\ Formulas(x) = Formulas(doc)
       /\ \A j, k : ShiftedFormulas(x, j, k) = ShiftedFormulas(doc, j, k)
  BY <1>3, <1>10, TypedFormulas DEF TypingPlain
<1>14. TakenOut(x, i, n) = taken /\ taken \subseteq Live(doc) /\ Ids(x, taken) = F
  BY <1>1, <1>4, <1>8, SameTaken
<1>15. Rest(x, i, n) = T
  BY <1>13, <1>14 DEF Rest
<1>16. DOMAIN T \subseteq Formulas(doc)
  BY DEF Rest
<1> HIDE DEF T, taken, F
<1>17. /\ Looks(doc, y, taken, {}) /\ y.line = doc.line
       /\ Rewritten(doc.cells, y.cells, F, T, u) /\ Reheighted(doc, y, i, -n, u)
  BY <1>5 DEF Deleting, T, taken, F
<1>18. /\ Looks(x, s, taken, {}) /\ s.line = doc.line
       /\ Rewritten(x.cells, s.cells, F, T, w) /\ Reheighted(x, s, i, -n, w)
  BY <1>4, <1>6, <1>14, <1>15 DEF Deleting
<1>19. Joined(r.cells, doc.cells, E, S, F, T)
  BY <1>4, <1>17, PairParted DEF x, y, t, u
<1>20. Looks(doc, r, taken, {}) /\ Looks(doc, s, taken, {})
  <2>1. Looks(doc, r, {} \cup taken, {} \cup {})
    BY <1>1, <1>4, <1>7, <1>17, JoinLooks
  <2>2. Looks(doc, s, {} \cup taken, {} \cup {})
    BY <1>4, <1>18, LooksOn
  <2>3. {} \cup taken = taken /\ {} \cup {} = {}
    OBVIOUS
  <2>4. QED
    BY <2>1, <2>2, <2>3
<1>21. r.line = s.line
  <2>1. DOMAIN x.nodes \subseteq DOMAIN y.nodes
    BY <1>4, <1>17 DEF Looks
  <2>2. QED
    BY <1>1, <1>7, <1>17, <1>18, <2>1, JoinLine
<1>22. ASSUME NEW l \in DOMAIN doc.nodes, doc.nodes[l].live, l \notin taken
       PROVE  CellAt(r, doc.nodes[l].id) = CellAt(s, doc.nodes[l].id)
  <2> DEFINE k == doc.nodes[l].id
  <2>1. ~(k \in F /\ k \in DOMAIN S)
    <3> SUFFICES ASSUME k \in F, k \in DOMAIN S PROVE FALSE
      OBVIOUS
    <3>1. v /\ k = id
      BY <1>10, <1>12
    <3>2. PICK h \in taken : doc.nodes[h].id = id
      BY <3>1 DEF F, Ids
    <3>3. h \in Live(doc) /\ l \in Live(doc) /\ h # l /\ doc.nodes[l].id = id
      BY <1>14, <1>22, <3>1, <3>2 DEF Live
    <3>4. id \in Repeated(doc, Live(doc))
      BY <1>11, <3>2, <3>3 DEF Repeated
    <3>5. QED
      BY <1>10, <1>11, <3>1, <3>4
  <2>2. \A j \in DOMAIN S \cap DOMAIN T : S[j] = T[j]
    BY <1>12, <1>13, <1>16
  <2> HIDE DEF k
  <2>3. Content(r.cells, k) = Content(s.cells, k)
    BY <1>4, <1>18, <1>19, <2>1, <2>2, SerialContent
  <2>4. QED
    BY <2>3 DEF CellAt, Content, k
<1>23. Held(r.heights) = Held(s.heights)
  <2> DEFINE count == -n
  <2>1. HeightsJoin(doc, y, u, r)
    BY <1>4, PairParted DEF x, y, t, u, HeightsJoin
  <2>2. Reheighted(doc, y, i, count, u) /\ Reheighted(x, s, i, count, w)
    BY <1>17, <1>18
  <2> HIDE DEF count
  <2>3. RowsThenHeights(doc, x, y, s, r, i, count)
    BY <1>4, <2>1, <2>2 DEF RowsThenHeights
  <2>4. QED
    BY <2>3, SerialHeights
<1>24. SameContents(doc, r, s, taken, {})
  BY <1>22, <1>23 DEF SameContents
<1>25. View(r) = View(s)
  BY <1>1, <1>7, <1>20, <1>21, <1>24, SameListPicture
<1>26. QED
  BY <1>25 DEF x, s

LEMMA PlaceIs ==
    ASSUME NEW S, NEW line \in Seq(S), NoRepeats(line), NEW j \in DOMAIN line
    PROVE  Place(line, line[j]) = j
<1>1. line[j] \in Elements(line)
  BY DEF Elements
<1>2. Place(line, line[j]) \in DOMAIN line /\ line[Place(line, line[j])] = line[j]
  BY <1>1, PlaceOf
<1>3. QED
  BY <1>2 DEF NoRepeats

LEMMA LineIs ==
    ASSUME NEW doc, NEW b, Document(doc, b)
    PROVE  /\ doc.line \in Seq(Nat) /\ NoRepeats(doc.line) /\ Elements(doc.line) = DOMAIN doc.nodes
           /\ Len(doc.line) \in Nat /\ DOMAIN doc.line = 1 .. Len(doc.line) /\ 0 \notin DOMAIN doc.nodes
<1>1. ListsOnce(doc.line, DOMAIN doc.nodes)
  BY LineLists
<1>2. DOMAIN doc.nodes \subseteq Nat \ {0}
  BY DEF Document, OfElements
<1>3. doc.line \in Seq(Nat)
  BY <1>1, <1>2, SeqOfMore DEF ListsOnce
<1>4. QED
  BY <1>1, <1>2, <1>3, LenProperties DEF ListsOnce

\* A place up to which two lists are the same, and hold the same tombstones.
SameFront(doc, x, q) ==
    /\ q \in Nat /\ q <= Len(doc.line) /\ q <= Len(x.line)
    /\ \A n \in 1 .. q : /\ doc.line[n] = x.line[n]
                         /\ (doc.line[n] \in Live(doc)) <=> (doc.line[n] \in Live(x))
\* The r rows shown from there, the same in both.
Fronts(doc, x, q, r) ==
    /\ r \in Nat /\ r <= Len(Shown(doc)) /\ r <= Len(Shown(x))
    /\ \A k \in 1 .. r : Shown(doc)[k] = Shown(x)[k]
    /\ \A k \in 1 .. Len(Shown(doc)) : (Place(doc.line, Shown(doc)[k]) <= q) <=> (k <= r)
LEMMA FrontShown ==
    ASSUME NEW doc, NEW b, Document(doc, b), NEW x, NEW B, Document(x, B),
           NEW q, SameFront(doc, x, q)
    PROVE  \E r : Fronts(doc, x, q, r)
<1> DEFINE S == Tombstones(doc)
           T == Tombstones(x)
<1>1. /\ doc.line \in Seq(Nat) /\ NoRepeats(doc.line) /\ Elements(doc.line) = DOMAIN doc.nodes
      /\ DOMAIN doc.line = 1 .. Len(doc.line) /\ Len(doc.line) \in Nat
  BY LineIs
<1>2. /\ x.line \in Seq(Nat) /\ Elements(x.line) = DOMAIN x.nodes
      /\ DOMAIN x.line = 1 .. Len(x.line) /\ Len(x.line) \in Nat
  BY LineIs
<1>3. q \in 0 .. Len(doc.line) /\ q <= Len(x.line)
  BY <1>1 DEF SameFront
<1>4. \A n \in 1 .. Len(doc.line) : doc.line[n] \in DOMAIN doc.nodes
  BY <1>1 DEF Elements
<1>5. \A n \in 1 .. Len(x.line) : x.line[n] \in DOMAIN x.nodes
  BY <1>2 DEF Elements
<1>6. /\ \A k \in DOMAIN doc.nodes : (k \in S) <=> k \notin Live(doc)
      /\ \A k \in DOMAIN x.nodes : (k \in T) <=> k \notin Live(x)
  BY DEF Tombstones, Live
<1>7. \A n \in 1 .. q : doc.line[n] = x.line[n] /\ (doc.line[n] \in S) = (x.line[n] \in T)
  <2> TAKE n \in 1 .. q
  <2>1. doc.line[n] = x.line[n] /\ ((doc.line[n] \in Live(doc)) <=> (doc.line[n] \in Live(x)))
    BY DEF SameFront
  <2>2. n \in 1 .. Len(doc.line) /\ n \in 1 .. Len(x.line)
    BY <1>1, <1>2, <1>3
  <2>3. doc.line[n] \in DOMAIN doc.nodes
    BY <1>4, <2>2
  <2>4. doc.line[n] \in DOMAIN x.nodes
    BY <1>5, <2>1, <2>2
  <2>5. (doc.line[n] \in S) <=> (doc.line[n] \notin Live(doc))
    BY <1>6, <2>3
  <2>6. (doc.line[n] \in T) <=> (doc.line[n] \notin Live(x))
    BY <1>6, <2>4
  <2>7. (doc.line[n] \in S) <=> (x.line[n] \in T)
    BY <2>1, <2>5, <2>6
  <2>8. (doc.line[n] \in S) \in BOOLEAN /\ (x.line[n] \in T) \in BOOLEAN
    BY DEF S, T, Tombstones
  <2> HIDE DEF S, T
  <2>9. QED
    BY <2>1, <2>7, <2>8
<1> HIDE DEF S, T
<1>8. PICK r : /\ Begins(doc.line, S, q, Omitting(doc.line, S), r)
               /\ Begins(x.line, T, q, Omitting(x.line, T), r)
               /\ \A k \in 1 .. r : Omitting(doc.line, S)[k] = Omitting(x.line, T)[k]
  <2> DEFINE one == doc.line
             two == x.line
  <2>1. one \in Seq(Nat) /\ two \in Seq(Nat) /\ q \in 0 .. Len(one) /\ q <= Len(two)
    BY <1>1, <1>2, <1>3
  <2>2. \A n \in 1 .. q : one[n] = two[n] /\ (one[n] \in S) = (two[n] \in T)
    BY <1>7
  <2> HIDE DEF one, two
  <2>3. SameBeginning(one, S, two, T, q)
    BY <2>1, <2>2 DEF SameBeginning
  <2>4. \E r : BeginningKept(one, S, two, T, q, r)
    BY <2>1, <2>3, OmittingFront
  <2>5. QED
    BY <2>4 DEF one, two, BeginningKept
<1>9. Shown(doc) = Omitting(doc.line, S) /\ Shown(x) = Omitting(x.line, T)
  BY DEF Shown, S, T
<1>10. /\ r \in Nat /\ r <= Len(Shown(doc)) /\ r <= Len(Shown(x))
       /\ \A k \in 1 .. r : Shown(doc)[k] = Shown(x)[k]
  BY <1>8, <1>9 DEF Begins
<1>11. /\ NoRepeats(Shown(doc)) /\ DOMAIN Shown(doc) = 1 .. Len(Shown(doc)) /\ Len(Shown(doc)) \in Nat
       /\ \A k \in 1 .. Len(Shown(doc)) : Shown(doc)[k] \in Live(doc)
  BY ShownLists, RowsAre DEF ListsOnce
<1>12. ASSUME NEW k \in 1 .. Len(Shown(doc))
       PROVE  (Place(doc.line, Shown(doc)[k]) <= q) <=> (k <= r)
  <2> DEFINE e == Shown(doc)[k]
             n == Place(doc.line, e)
  <2>1. e \in Live(doc) /\ e \in DOMAIN doc.nodes
    BY <1>11 DEF Live
  <2>2. n \in 1 .. Len(doc.line) /\ doc.line[n] = e /\ e \notin S
    <3>1. e \in Elements(doc.line)
      BY <1>1, <2>1
    <3> HIDE DEF e
    <3>2. QED
      BY <1>1, <1>6, <2>1, <3>1, PlaceOf
  <2> HIDE DEF n
  <2>3. ASSUME n <= q PROVE k <= r
    <3>1. n \in 1 .. q
      BY <1>3, <2>2, <2>3
    <3>2. PICK j \in 1 .. r : Shown(doc)[j] = e
      <4>1. \A m \in 1 .. q : doc.line[m] \notin S => \E j \in 1 .. r : Shown(doc)[j] = doc.line[m]
        BY <1>8, <1>9 DEF Begins
      <4>2. QED
        BY <2>2, <3>1, <4>1
    <3>3. j \in DOMAIN Shown(doc) /\ k \in DOMAIN Shown(doc)
      BY <1>10, <1>11
    <3>4. j = k
      BY <1>11, <3>2, <3>3 DEF NoRepeats
    <3>5. QED
      BY <1>10, <3>2, <3>4
  <2>4. ASSUME k <= r PROVE n <= q
    <3>1. k \in 1 .. r
      BY <1>10, <2>4
    <3>2. PICK m \in 1 .. q : e = doc.line[m]
      BY <1>8, <1>9, <3>1 DEF Begins
    <3>3. m \in DOMAIN doc.line
      BY <1>1, <1>3, <3>2
    <3>4. n = m
      BY <1>1, <2>2, <3>2, <3>3 DEF NoRepeats
    <3>5. QED
      BY <1>3, <3>2, <3>4
  <2>5. QED
    BY <2>3, <2>4 DEF n
<1>13. QED
  BY <1>10, <1>12 DEF Fronts

\* What is shown further down stands further back in the list.
LEMMA PlacesGrow ==
    ASSUME NEW doc, NEW b, Document(doc, b), NEW k \in 1 .. Len(Shown(doc)),
           NEW l \in 1 .. Len(Shown(doc)), k < l
    PROVE  Place(doc.line, Shown(doc)[k]) < Place(doc.line, Shown(doc)[l])
<1> DEFINE p == Place(doc.line, Shown(doc)[k])
           q == Place(doc.line, Shown(doc)[l])
<1>1. doc.line \in Seq(Nat) /\ Len(doc.line) \in Nat
  BY LineIs
<1>2. p \in 0 .. Len(doc.line) /\ q \in 0 .. Len(doc.line)
  BY <1>1, PlaceOf
<1>3. Len(Shown(doc)) \in Nat
  BY ShownLists
<1>4. SameFront(doc, doc, p)
  BY <1>1, <1>2 DEF SameFront
<1>5. PICK r : Fronts(doc, doc, p, r)
  BY <1>4, FrontShown
<1>6. r \in Nat
  BY <1>5 DEF Fronts
<1>7. (p <= p) <=> (k <= r)
  BY <1>5 DEF Fronts
<1>8. (q <= p) <=> (l <= r)
  BY <1>5 DEF Fronts
<1>9. CASE l <= r
  \* Then a front that ends before l has k and everything up to it.
  <2>1. q <= p
    BY <1>8, <1>9
  <2>2. SameFront(doc, doc, q)
    BY <1>1, <1>2 DEF SameFront
  <2>3. PICK s : Fronts(doc, doc, q, s)
    BY <2>2, FrontShown
  <2>4. s \in Nat /\ ((q <= q) <=> (l <= s)) /\ ((p <= q) <=> (k <= s))
    BY <2>3 DEF Fronts
  <2>5. k <= s
    BY <1>2, <1>3, <2>4
  <2>6. p <= q
    BY <2>4, <2>5
  <2>7. p = q
    BY <1>2, <2>1, <2>6
  <2>8. Shown(doc)[k] = Shown(doc)[l]
    <3>1. Shown(doc)[k] \in Elements(doc.line) /\ Shown(doc)[l] \in Elements(doc.line)
      <4>1. Shown(doc)[k] \in Live(doc) /\ Shown(doc)[l] \in Live(doc)
        BY RowsAre
      <4>2. QED
        BY <4>1, LineIs DEF Live
    <3>2. doc.line[p] = Shown(doc)[k] /\ doc.line[q] = Shown(doc)[l]
      BY <1>1, <3>1, PlaceOf
    <3>3. QED
      BY <2>7, <3>2
  <2>9. NoRepeats(Shown(doc)) /\ DOMAIN Shown(doc) = 1 .. Len(Shown(doc))
    BY ShownLists DEF ListsOnce
  <2>10. QED
    BY <1>3, <2>8, <2>9 DEF NoRepeats
<1>10. CASE ~(l <= r)
  BY <1>2, <1>8, <1>10
<1>11. QED
  BY <1>9, <1>10

\* The row above a place, and what stands behind it in the list.
LEMMA RowAbove ==
    ASSUME NEW doc, NEW b, Document(doc, b), NEW i \in Nat \ {0}, i - 1 <= Len(Shown(doc))
    PROVE  /\ i = 1 => ElementBefore(doc, i) = 0
           /\ i # 1 => i - 1 \in 1 .. Len(Shown(doc)) /\ ElementBefore(doc, i) = Shown(doc)[i - 1]
<1> DEFINE shown == Shown(doc)
<1>1. Len(shown) \in Nat /\ shown \in Seq(Live(doc))
  BY ShownLists DEF ListsOnce
<1>2. ElementBefore(doc, i) =
        IF i <= 1 \/ shown = <<>> THEN 0 ELSE shown[MinOf(i - 1, Len(shown))]
  BY DEF ElementBefore
<1> HIDE DEF shown
<1>3. ASSUME i # 1
      PROVE  i - 1 \in 1 .. Len(shown) /\ ElementBefore(doc, i) = shown[i - 1]
  <2>1. i - 1 \in 1 .. Len(shown)
    BY <1>1, <1>3 DEF shown
  <2>2. shown # <<>>
    BY <1>1, <2>1
  <2>3. MinOf(i - 1, Len(shown)) = i - 1
    BY <1>1, <2>1 DEF MinOf
  <2>4. ~(i <= 1)
    BY <1>3
  <2>5. QED
    BY <1>2, <2>1, <2>2, <2>3, <2>4
<1>4. i = 1 => ElementBefore(doc, i) = 0
  BY <1>2
<1>5. QED
  BY <1>3, <1>4 DEF shown

LEMMA PlaceAbove ==
    ASSUME NEW doc, NEW b, Document(doc, b), NEW i \in Nat \ {0}, i - 1 <= Len(Shown(doc))
    PROVE  LET q == Place(doc.line, ElementBefore(doc, i))
           IN  /\ q \in 0 .. Len(doc.line)
               /\ \A k \in 1 .. Len(Shown(doc)) : k >= i => q < Place(doc.line, Shown(doc)[k])
<1> DEFINE q == Place(doc.line, ElementBefore(doc, i))
<1>1. /\ doc.line \in Seq(Nat) /\ Len(doc.line) \in Nat /\ Elements(doc.line) = DOMAIN doc.nodes
      /\ DOMAIN doc.line = 1 .. Len(doc.line) /\ 0 \notin DOMAIN doc.nodes
  BY LineIs
<1>2. q \in 0 .. Len(doc.line)
  BY <1>1, PlaceOf
<1>3. ASSUME NEW k \in 1 .. Len(Shown(doc)), k >= i
      PROVE  q < Place(doc.line, Shown(doc)[k])
  <2>1. CASE i = 1
    <3>1. ElementBefore(doc, i) = 0
      BY <2>1, RowAbove
    <3>2. q = 0
      BY <1>1, <3>1, PlaceOf
    <3>3. Shown(doc)[k] \in Elements(doc.line)
      BY <1>1, RowsAre DEF Live
    <3>4. Place(doc.line, Shown(doc)[k]) \in DOMAIN doc.line
      BY <1>1, <3>3, PlaceOf
    <3> HIDE DEF q
    <3>5. QED
      BY <1>1, <3>2, <3>4
  <2>2. CASE i # 1
    <3>1. i - 1 \in 1 .. Len(Shown(doc)) /\ ElementBefore(doc, i) = Shown(doc)[i - 1]
      BY <2>2, RowAbove
    <3> DEFINE j == i - 1
    <3>2. j \in 1 .. Len(Shown(doc)) /\ j < k /\ q = Place(doc.line, Shown(doc)[j])
      BY <1>3, <3>1
    <3> HIDE DEF j, q
    <3>3. QED
      BY <3>2, PlacesGrow
  <2>3. QED
    BY <2>1, <2>2
<1>4. QED
  BY <1>2, <1>3

\* The row above is the same while the list down to it is.
LEMMA FrontBefore ==
    ASSUME NEW doc, NEW b, Document(doc, b), NEW x, NEW B, Document(x, B), NEW i \in Nat \ {0},
           i - 1 <= Len(Shown(doc)), SameFront(doc, x, Place(doc.line, ElementBefore(doc, i)))
    PROVE  /\ i - 1 <= Len(Shown(x)) /\ ElementBefore(x, i) = ElementBefore(doc, i)
           /\ \A k \in 1 .. i - 1 : Shown(x)[k] = Shown(doc)[k]
<1> DEFINE q == Place(doc.line, ElementBefore(doc, i))
<1>1. Len(Shown(x)) \in Nat /\ Len(Shown(doc)) \in Nat
  BY ShownLists
<1>2. q \in Nat
  BY DEF SameFront
<1>3. PICK r : Fronts(doc, x, q, r)
  BY FrontShown
<1>4. /\ r \in Nat /\ r <= Len(Shown(x)) /\ \A k \in 1 .. r : Shown(doc)[k] = Shown(x)[k]
      /\ \A k \in 1 .. Len(Shown(doc)) : (Place(doc.line, Shown(doc)[k]) <= q) <=> (k <= r)
  BY <1>3 DEF Fronts
<1>5. i - 1 <= r
  <2>1. CASE i = 1
    BY <1>4, <2>1
  <2>2. CASE i # 1
    <3>1. i - 1 \in 1 .. Len(Shown(doc)) /\ ElementBefore(doc, i) = Shown(doc)[i - 1]
      BY <2>2, RowAbove
    <3>2. Place(doc.line, Shown(doc)[i - 1]) <= q
      <4>1. q = Place(doc.line, Shown(doc)[i - 1])
        BY <3>1
      <4> HIDE DEF q
      <4>2. QED
        BY <1>2, <4>1
    <3> HIDE DEF q
    <3>3. QED
      BY <1>4, <3>1, <3>2
  <2>3. QED
    BY <2>1, <2>2
<1> HIDE DEF q
<1>6. i - 1 <= Len(Shown(x)) /\ \A k \in 1 .. i - 1 : Shown(x)[k] = Shown(doc)[k]
  BY <1>1, <1>4, <1>5
<1>7. ElementBefore(x, i) = ElementBefore(doc, i)
  <2>1. CASE i = 1
    <3>1. ElementBefore(x, i) = 0 /\ ElementBefore(doc, i) = 0
      BY <1>6, <2>1, RowAbove
    <3>2. QED
      BY <3>1
  <2>2. CASE i # 1
    <3>1. ElementBefore(x, i) = Shown(x)[i - 1] /\ ElementBefore(doc, i) = Shown(doc)[i - 1]
      BY <1>6, <2>2, RowAbove
    <3>2. i - 1 \in 1 .. i - 1
      BY <2>2
    <3>3. QED
      BY <1>6, <3>1, <3>2
  <2>3. QED
    BY <2>1, <2>2
<1>8. QED
  BY <1>6, <1>7

-----------------------------------------------------------------------------
(* Structural edits of a sheet with neither formulas nor heights.           *)

LEMMA EmptyWrites ==
    ASSUME NEW old, NEW f, NEW E, NEW S, NEW t, Rewritten(old, f, E, S, t), DOMAIN S = {}
    PROVE  Rewritten(old, f, E, Nothing, t)
BY DEF Rewritten, Nothing

\* Elements come and go, and cells go; no cell and no height is written.
Edited(doc, x, D, M, E, t) ==
    /\ Looks(doc, x, D, M)
    /\ Rewritten(doc.cells, x.cells, E, Nothing, t)
    /\ Rewritten(doc.heights, x.heights, {}, Nothing, t)

\* M are elements that client c makes.
NewOnes(doc, c, M) == \A k \in M : k \in Nat /\ k >= Ticket(doc, c)

LEMMA NewOnesAre ==
    ASSUME NEW doc, Ready(doc), NEW c \in Clients, NEW M, NewOnes(doc, c, M)
    PROVE  M \cap DOMAIN doc.nodes = {} /\ M \cap Held(doc.cells) = {}
BY NewAbove DEF NewOnes

LEMMA StaysPlain ==
    ASSUME NEW doc, Ready(doc), ~Indexed(doc), NEW c \in Clients, NEW x, Ready(x),
           NEW D, NEW M, NEW E, NEW t, Edited(doc, x, D, M, E, t), NewOnes(doc, c, M)
    PROVE  ~Indexed(x)
<1>1. /\ Held(x.cells) = (Held(doc.cells) \ E) \cup DOMAIN Nothing
      /\ Held(x.heights) = (Held(doc.heights) \ {}) \cup DOMAIN Nothing
  BY RewrittenHolds DEF Edited
<1>2. DOMAIN Nothing = {}
  BY DEF Nothing
<1>3. Formulas(doc) = {} /\ Held(doc.heights) = {}
  BY DEF Indexed
<1>4. Held(x.heights) = {} /\ Held(x.cells) \subseteq Held(doc.cells)
  BY <1>1, <1>2, <1>3
<1>5. ASSUME NEW id \in Formulas(x) PROVE FALSE
  <2>1. id \in Held(doc.cells) /\ x.cells[id].val \in References /\ id \in ToSet(Rows(x))
    BY <1>4, <1>5 DEF Formulas
  <2>2. x.cells[id].val = doc.cells[id].val
    BY <1>2, <2>1 DEF Edited, Rewritten, Held
  <2>3. PICK k \in Live(x) : x.nodes[k].id = id
    BY <2>1, RowsAre DEF Ready, Ids
  <2>4. k \in DOMAIN doc.nodes \/ k \in M
    BY <2>3 DEF Live, Edited, Looks
  <2>5. CASE k \in DOMAIN doc.nodes
    <3>1. k \in Live(doc) /\ doc.nodes[k].id = id
      BY <2>3, <2>5 DEF Live, Edited, Looks
    <3>2. id \in ToSet(Rows(doc))
      BY <3>1, RowsAre DEF Ready, Ids
    <3>3. id \in Formulas(doc)
      BY <2>1, <2>2, <3>2 DEF Formulas
    <3>4. QED
      BY <1>3, <3>3
  <2>6. CASE k \in M
    <3>1. id = k
      BY <2>3, <2>6 DEF Edited, Looks
    <3>2. QED
      BY <2>1, <2>6, <3>1, NewOnesAre
  <2>7. QED
    BY <2>4, <2>5, <2>6
<1>6. QED
  BY <1>4, <1>5 DEF Indexed

\* Nothing is written again where no row has a height.
LEMMA NoHeights ==
    ASSUME NEW doc, NEW x, NEW i, NEW count, NEW t, Reheighted(doc, x, i, count, t),
           Held(doc.heights) = {}
    PROVE  Rewritten(doc.heights, x.heights, {}, Nothing, t)
<1>1. PICK S : /\ DOMAIN S = ShiftIndexSet(Held(doc.heights), i, count)
               /\ Rewritten(doc.heights, x.heights, Held(doc.heights), S, t)
  BY DEF Reheighted
<1>2. DOMAIN S = {}
  BY <1>1 DEF ShiftIndexSet
<1>3. QED
  BY <1>1, <1>2, EmptyWrites

PlainInsert(doc, x, c, i, n) ==
    LET at    == Ticket(doc, c) + Limit
        after == ElementBefore(doc, i)
    IN  /\ Edited(doc, x, {}, at .. at + n - 1, {}, Ticket(doc, c))
        /\ NewOnes(doc, c, at .. at + n - 1)
        /\ x.line = PutBefore(doc.line, Place(doc.line, after) + 1, Fresh(at, n))
        /\ \A k \in DOMAIN doc.nodes : x.nodes[k].after = doc.nodes[k].after
        /\ \A k \in at .. at + n - 1 : x.nodes[k].after = IF k = at THEN after ELSE k - 1
        /\ ~Indexed(x)

LEMMA PlainInsertIs ==
    ASSUME NEW doc, Ready(doc), ~Indexed(doc), NEW c \in Clients, NEW m \in Calls,
           m.call = "insert", m.at - 1 <= Len(Shown(doc))
    PROVE  PlainInsert(doc, Apply(doc, c, m), c, m.at, m.n)
<1> DEFINE x == Apply(doc, c, m)
           i == m.at
           n == m.n
           t == Ticket(doc, c)
           at == t + Limit
           M == at .. at + n - 1
           S == ShiftedFormulas(doc, i, n)
<1>1. Inserting(doc, x, i, n, t)
  BY InsertIs
<1>2. Ready(x)
  BY CallLands
<1>3. Formulas(doc) = {} /\ Held(doc.heights) = {}
  BY DEF Indexed
<1>4. NewOnes(doc, c, M)
  <2>1. t \in Nat /\ Limit \in Nat /\ n \in Nat
    BY ReadyIs, LimitIs DEF Calls
  <2> HIDE DEF n
  <2>2. \A k \in M : k \in Nat /\ k >= t
    BY <2>1
  <2>3. QED
    BY <2>2 DEF NewOnes
<1>5. DOMAIN S = {}
  BY <1>3 DEF ShiftedFormulas
<1> HIDE DEF x, i, n, S
<1>6. /\ Looks(doc, x, {}, M) /\ Rewritten(doc.cells, x.cells, {}, S, t)
      /\ Reheighted(doc, x, i, n, t)
  BY <1>1 DEF Inserting, S
<1> HIDE DEF M, t
<1>7. Edited(doc, x, {}, M, {}, t)
  BY <1>3, <1>5, <1>6, EmptyWrites, NoHeights DEF Edited
<1>8. ~Indexed(x)
  BY <1>2, <1>4, <1>7, StaysPlain
<1>9. PlainInsert(doc, x, c, i, n)
  BY <1>1, <1>4, <1>7, <1>8 DEF PlainInsert, Inserting, M, t
<1>10. QED
  BY <1>9 DEF x, i, n

PlainDelete(doc, x, c, i, n) ==
    LET taken == TakenOut(doc, i, n)
    IN  /\ Edited(doc, x, taken, {}, Ids(doc, taken), Ticket(doc, c))
        /\ x.line = doc.line /\ taken \subseteq Live(doc) /\ ~Indexed(x)

LEMMA PlainDeleteIs ==
    ASSUME NEW doc, Ready(doc), ~Indexed(doc), NEW c \in Clients, NEW m \in Calls, m.call = "delete"
    PROVE  PlainDelete(doc, Apply(doc, c, m), c, m.at, m.n)
<1> DEFINE x == Apply(doc, c, m)
           i == m.at
           n == m.n
           t == Ticket(doc, c)
           taken == TakenOut(doc, i, n)
           E == Ids(doc, taken)
           S == Rest(doc, i, n)
<1>1. Deleting(doc, x, i, n, t)
  BY DeleteIs
<1>2. Ready(x)
  BY CallLands
<1>3. Formulas(doc) = {} /\ Held(doc.heights) = {}
  BY DEF Indexed
<1>4. DOMAIN S = {}
  BY <1>3 DEF Rest
<1>5. taken \subseteq Live(doc)
  <2>1. i \in Nat \ {0} /\ n \in Nat
    BY LimitIs DEF Calls, Indices
  <2> HIDE DEF i, n
  <2>2. QED
    BY <2>1, RemovedIs DEF Ready
<1> DEFINE count == -n
<1>6. /\ Looks(doc, x, taken, {}) /\ Rewritten(doc.cells, x.cells, E, S, t)
      /\ Reheighted(doc, x, i, count, t) /\ x.line = doc.line
  BY <1>1 DEF Deleting
<1>7. NewOnes(doc, c, {})
  BY DEF NewOnes
<1> HIDE DEF x, i, n, t, E, S, count, taken
<1>8. Edited(doc, x, taken, {}, E, t)
  BY <1>3, <1>4, <1>6, EmptyWrites, NoHeights DEF Edited
<1>9. ~Indexed(x)
  BY <1>2, <1>7, <1>8, StaysPlain
<1>10. PlainDelete(doc, x, c, i, n)
  BY <1>5, <1>6, <1>8, <1>9 DEF PlainDelete, E, t, taken
<1>11. QED
  BY <1>10 DEF x, i, n

\* What is left in the cells is the same whether the second call is merged or made second.
PlainPair(doc, c, x, d, y, s, F) ==
    /\ \E D, M, E : Edited(doc, x, D, M, E, Ticket(doc, c))
    /\ \E D, M : Edited(doc, y, D, M, F, Ticket(doc, d))
    /\ \E D, M : Edited(x, s, D, M, F, Ticket(x, d))
LEMMA PlainContents ==
    ASSUME NEW doc, NEW c, NEW m, NEW d, NEW p, NEW r, Pair(doc, c, m, d, p, r), NEW F,
           PlainPair(doc, c, Apply(doc, c, m), d, Apply(doc, d, p), Apply(Apply(doc, c, m), d, p), F)
    PROVE  LET s == Apply(Apply(doc, c, m), d, p)
           IN  /\ \A k : CellAt(r, k) = CellAt(s, k)
               /\ Held(r.heights) = Held(s.heights) /\ Held(r.cells) \subseteq Held(doc.cells)
<1> DEFINE x == Apply(doc, c, m)
           y == Apply(doc, d, p)
           s == Apply(x, d, p)
           t == Ticket(doc, c)
           u == Ticket(doc, d)
           w == Ticket(x, d)
<1>1. PICK E : /\ Rewritten(doc.cells, x.cells, E, Nothing, t)
               /\ Rewritten(doc.heights, x.heights, {}, Nothing, t)
  BY DEF PlainPair, Edited
<1>2. /\ Rewritten(doc.cells, y.cells, F, Nothing, u)
      /\ Rewritten(doc.heights, y.heights, {}, Nothing, u)
      /\ Rewritten(x.cells, s.cells, F, Nothing, w)
      /\ Rewritten(x.heights, s.heights, {}, Nothing, w)
  BY DEF PlainPair, Edited
<1>3. /\ Joined(r.cells, doc.cells, E, Nothing, F, Nothing)
      /\ Joined(r.heights, doc.heights, {}, Nothing, {}, Nothing)
  BY <1>1, <1>2, PairParted
<1>4. DOMAIN Nothing = {}
  BY DEF Nothing
<1> HIDE DEF x, y, s, t, u, w, Nothing
<1>5. \A k : Content(r.cells, k) = Content(s.cells, k)
  BY <1>1, <1>2, <1>3, <1>4, SerialContent
<1>6. Held(r.heights) = Held(doc.heights) /\ Held(r.cells) \subseteq Held(doc.cells)
  BY <1>3, <1>4 DEF Joined
<1>7. Held(x.heights) = (Held(doc.heights) \ {}) \cup DOMAIN Nothing
  BY <1>1, RewrittenHolds
<1>8. Held(s.heights) = (Held(x.heights) \ {}) \cup DOMAIN Nothing
  BY <1>2, RewrittenHolds
<1>9. Held(r.heights) = Held(s.heights)
  BY <1>4, <1>6, <1>7, <1>8
<1>10. QED
  BY <1>5, <1>6, <1>9 DEF CellAt, Content, s, x

\* New elements in the list of a replica.
LEMMA PutFresh ==
    ASSUME NEW doc, NEW b, Document(doc, b), NEW p \in 0 .. Len(doc.line), NEW at \in Nat, NEW n \in Nat
    PROVE  LET line == PutBefore(doc.line, p + 1, Fresh(at, n))
           IN  /\ line \in Seq(Nat) /\ Len(line) = Len(doc.line) + n
               /\ \A k \in 1 .. p : line[k] = doc.line[k]
               /\ \A k \in p + 1 .. Len(doc.line) : line[k + n] = doc.line[k]
<1> DEFINE o == doc.line
           new == Fresh(at, n)
           P == p + 1
           line == PutBefore(o, P, new)
<1>1. o \in Seq(Nat) /\ Len(o) \in Nat
  BY LineIs
<1>2. Len(new) = n /\ new \in Seq(Nat)
  <2>1. new \in Seq(at .. at + n - 1) /\ Len(new) = n
    BY FreshLists
  <2>2. at .. at + n - 1 \subseteq Nat
    OBVIOUS
  <2>3. QED
    BY <2>1, <2>2, SeqOfMore
<1>3. P \in 1 .. Len(o) + 1 /\ p \in Nat /\ p <= Len(o)
  BY <1>1
<1> HIDE DEF new, o
<1>4. IsPut(line, o, P, new)
  <2> HIDE DEF P
  <2>1. QED
    BY <1>1, <1>2, <1>3, PutIs
<1> HIDE DEF line
<1>5. /\ line \in Seq(Nat) /\ Len(line) = Len(o) + n
      /\ \A k \in 1 .. Len(line) : line[k] = IF k < P THEN o[k]
                                             ELSE IF k < P + n THEN new[k - P + 1] ELSE o[k - n]
  BY <1>2, <1>4 DEF IsPut
<1>6. ASSUME NEW k \in 1 .. p PROVE line[k] = o[k]
  <2>1. k \in 1 .. Len(line) /\ k < P
    BY <1>1, <1>3, <1>5
  <2>2. QED
    BY <1>5, <2>1
<1>7. ASSUME NEW k \in p + 1 .. Len(o) PROVE line[k + n] = o[k]
  <2>1. k + n \in 1 .. Len(line) /\ ~(k + n < P) /\ ~(k + n < P + n) /\ k + n - n = k
    BY <1>1, <1>3, <1>5
  <2>2. QED
    BY <1>5, <2>1
<1>8. QED
  BY <1>5, <1>6, <1>7 DEF line, o, new

\* Down to where new elements go in, or an element is taken out, the list is the same.
LEMMA InsertFront ==
    ASSUME NEW doc, NEW b, Document(doc, b), NEW x, NEW p \in 0 .. Len(doc.line),
           NEW at \in Nat, NEW n \in Nat, x.line = PutBefore(doc.line, p + 1, Fresh(at, n)),
           NEW M, Looks(doc, x, {}, M), NEW q \in 0 .. p
    PROVE  SameFront(doc, x, q)
<1>1. /\ Len(doc.line) \in Nat /\ DOMAIN doc.line = 1 .. Len(doc.line)
      /\ Elements(doc.line) = DOMAIN doc.nodes
  BY LineIs
<1>2. Len(x.line) = Len(doc.line) + n /\ \A k \in 1 .. p : x.line[k] = doc.line[k]
  <2> DEFINE line == PutBefore(doc.line, p + 1, Fresh(at, n))
  <2>1. Len(line) = Len(doc.line) + n /\ \A k \in 1 .. p : line[k] = doc.line[k]
    BY PutFresh
  <2>2. QED
    BY <2>1
<1>3. ASSUME NEW k \in 1 .. q
      PROVE  doc.line[k] = x.line[k] /\ ((doc.line[k] \in Live(doc)) <=> (doc.line[k] \in Live(x)))
  <2>1. k \in 1 .. p /\ k \in DOMAIN doc.line
    BY <1>1
  <2>2. doc.line[k] \in DOMAIN doc.nodes
    BY <1>1, <2>1 DEF Elements
  <2>3. QED
    BY <1>2, <2>1, <2>2 DEF Looks, Live
<1>4. q \in Nat /\ q <= Len(doc.line) /\ q <= Len(x.line)
  BY <1>1, <1>2
<1>5. QED
  BY <1>3, <1>4 DEF SameFront

LEMMA DeleteFront ==
    ASSUME NEW doc, NEW b, Document(doc, b), NEW x, x.line = doc.line,
           NEW D, Looks(doc, x, D, {}), NEW q \in 0 .. Len(doc.line),
           \A k \in 1 .. q : doc.line[k] \notin D
    PROVE  SameFront(doc, x, q)
<1>1. /\ Len(doc.line) \in Nat /\ DOMAIN doc.line = 1 .. Len(doc.line)
      /\ Elements(doc.line) = DOMAIN doc.nodes
  BY LineIs
<1>2. ASSUME NEW k \in 1 .. q
      PROVE  (doc.line[k] \in Live(doc)) <=> (doc.line[k] \in Live(x))
  <2>1. k \in DOMAIN doc.line
    BY <1>1
  <2>2. doc.line[k] \in DOMAIN doc.nodes
    BY <1>1, <2>1 DEF Elements
  <2>3. QED
    BY <1>2, <2>2 DEF Looks, Live
<1>3. q \in Nat /\ q <= Len(doc.line)
  BY <1>1
<1>4. QED
  BY <1>2, <1>3 DEF SameFront

\* Rows inserted below those that are deleted then.
LEMMA InsertDelete ==
    ASSUME NEW doc, NEW c, NEW m, NEW d, NEW p, NEW r, Pair(doc, c, m, d, p, r), ~Indexed(doc),
           m.call = "insert", m.at - 1 <= Len(Shown(doc)),
           p.call = "delete", p.at + p.n <= m.at
    PROVE  View(r) = View(Apply(Apply(doc, c, m), d, p))
<1> DEFINE x == Apply(doc, c, m)
           y == Apply(doc, d, p)
           s == Apply(x, d, p)
           i == m.at
           n == m.n
           j == p.at
           l == p.n
           t == Ticket(doc, c)
           at == t + Limit
           M == at .. at + n - 1
           taken == TakenOut(doc, j, l)
           F == Ids(doc, taken)
           q == Place(doc.line, ElementBefore(doc, i))
<1>1. /\ Ready(doc) /\ Ready(x) /\ Ready(y) /\ Ready(s)
      /\ Document(r, Ceiling(r)) /\ Joins(r, x, y)
  BY PairIs
<1>2. c \in Clients /\ d \in Clients /\ m \in Calls /\ p \in Calls
  BY DEF Pair
<1>3. PlainInsert(doc, x, c, i, n)
  BY <1>1, <1>2, PlainInsertIs
<1>4. PlainDelete(doc, y, d, j, l)
  BY <1>1, <1>2, PlainDeleteIs
<1>5. ~Indexed(x)
  BY <1>3 DEF PlainInsert
<1>6. PlainDelete(x, s, d, j, l)
  <2> HIDE DEF x
  <2>1. PlainDelete(x, Apply(x, d, p), d, p.at, p.n)
    BY <1>1, <1>2, <1>5, PlainDeleteIs
  <2>2. QED
    BY <2>1
<1>7. Document(x, Ceiling(x)) /\ Document(y, Ceiling(y)) /\ Document(s, Ceiling(s))
      /\ Document(doc, Ceiling(doc))
  BY <1>1 DEF Ready
<1>8. /\ i \in Nat \ {0} /\ n \in Nat \ {0} /\ j \in Nat \ {0} /\ l \in Nat \ {0}
      /\ i - 1 <= Len(Shown(doc)) /\ j + l <= i
  <2>1. /\ i \in 1 .. MaxRows /\ n \in 1 .. MaxBlock /\ j \in 1 .. MaxRows /\ l \in 1 .. MaxBlock
        /\ MaxRows \in Nat /\ MaxBlock \in Nat
    BY <1>2, LimitIs DEF Calls, Indices
  <2>2. i - 1 <= Len(Shown(doc)) /\ j + l <= i
    OBVIOUS
  <2> HIDE DEF i, n, j, l
  <2>3. QED
    BY <2>1, <2>2
<1>9. at \in Nat
  <2>1. t \in Nat /\ Limit \in Nat
    BY <1>1, <1>2, ReadyIs
  <2>2. QED
    BY <2>1
<1> HIDE DEF x, y, s, i, n, j, l, t, at, M
<1>10. /\ Edited(doc, x, {}, M, {}, t) /\ NewOnes(doc, c, M)
       /\ x.line = PutBefore(doc.line, q + 1, Fresh(at, n))
  BY <1>3 DEF PlainInsert, M, at, t
<1>11. q \in 0 .. Len(doc.line)
  BY <1>7, <1>8, PlaceAbove
<1>12. SameFront(doc, x, q)
  <2>1. q \in 0 .. q
    BY <1>11
  <2> HIDE DEF q
  <2>2. Looks(doc, x, {}, M)
    BY <1>10 DEF Edited
  <2>3. QED
    BY <1>7, <1>8, <1>9, <1>10, <1>11, <2>1, <2>2, InsertFront
<1>13. i - 1 <= Len(Shown(x)) /\ \A k \in 1 .. i - 1 : Shown(x)[k] = Shown(doc)[k]
  BY <1>7, <1>8, <1>12, FrontBefore
<1>14. TakenOut(x, j, l) = taken
  <2>1. Len(Shown(x)) \in Nat /\ Len(Shown(doc)) \in Nat
    BY <1>7, ShownLists
  <2>2. LastCut(x, j, l) = j + l - 1 /\ LastCut(doc, j, l) = j + l - 1
    BY <1>8, <1>13, <2>1 DEF LastCut, MinOf
  <2>3. \A k \in j .. j + l - 1 : k \in 1 .. i - 1
    BY <1>8
  <2>4. \A k \in j .. j + l - 1 : Shown(x)[k] = Shown(doc)[k]
    BY <1>13, <2>3
  <2>5. QED
    BY <2>2, <2>4 DEF TakenOut
<1> HIDE DEF q, taken, F
<1>15. /\ Edited(doc, y, taken, {}, F, Ticket(doc, d)) /\ taken \subseteq Live(doc)
       /\ y.line = doc.line
  BY <1>4 DEF PlainDelete, taken, F
<1>16. Ids(x, taken) = F
  <2>1. \A k \in taken : x.nodes[k].id = doc.nodes[k].id
    BY <1>10, <1>15 DEF Edited, Looks, Live
  <2>2. QED
    BY <2>1 DEF F, Ids
<1>17. Edited(x, s, taken, {}, F, Ticket(x, d)) /\ s.line = x.line
  BY <1>6, <1>14, <1>16 DEF PlainDelete
<1>18. M \cap DOMAIN doc.nodes = {}
  BY <1>1, <1>2, <1>10, NewOnesAre
<1>19. Looks(doc, r, taken, M) /\ Looks(doc, s, taken, M)
  <2>1. Looks(doc, x, {}, M) /\ Looks(doc, y, taken, {}) /\ Looks(x, s, taken, {})
    BY <1>10, <1>15, <1>17 DEF Edited
  <2>2. taken \cap M = {}
    BY <1>15, <1>18 DEF Live
  <2>3. Looks(doc, r, {} \cup taken, M \cup {})
    BY <1>1, <1>7, <1>18, <2>1, JoinLooks
  <2>4. Looks(doc, s, {} \cup taken, M \cup {})
    BY <2>1, <2>2, LooksOn
  <2>5. {} \cup taken = taken /\ M \cup {} = M
    OBVIOUS
  <2>6. QED
    BY <2>3, <2>4, <2>5
<1>20. r.line = s.line
  <2>1. DOMAIN y.nodes \subseteq DOMAIN x.nodes
    BY <1>10, <1>15 DEF Edited, Looks
  <2>2. Joins(r, y, x)
    BY <1>1, JoinsTurned
  <2>3. QED
    BY <1>7, <1>17, <2>1, <2>2, JoinLine
<1>21. (\A k : CellAt(r, k) = CellAt(s, k)) /\ Held(r.heights) = Held(s.heights)
  <2>1. PlainPair(doc, c, x, d, y, s, F)
    BY <1>10, <1>15, <1>17 DEF PlainPair, t
  <2>2. QED
    BY <2>1, PlainContents DEF x, y, s
<1>22. View(r) = View(s)
  <2>1. SameContents(doc, r, s, taken, M)
    BY <1>21 DEF SameContents
  <2>2. QED
    BY <1>1, <1>7, <1>19, <1>20, <2>1, SameListPicture
<1>23. QED
  BY <1>22 DEF x, s

\* The new elements are the last ones made, whether merged or put in second.
LEMMA NewLook ==
    ASSUME NEW doc, NEW r, Document(r, Ceiling(r)), NEW s, Document(s, Ceiling(s)),
           NEW D, NEW M, NEW at \in Nat, NEW bt \in Nat, NEW n \in Nat,
           Looks(doc, r, D, M \cup (at .. at + n - 1)), Looks(doc, s, D, M \cup (bt .. bt + n - 1)),
           Twins(r.line, s.line, DOMAIN doc.nodes \cup M, at, bt, n),
           \A k : CellAt(r, k) = CellAt(s, k), Held(r.heights) = Held(s.heights),
           \A k \in at .. at + n - 1 : k \notin Held(r.cells),
           \A k \in bt .. bt + n - 1 : k \notin Held(s.cells)
    PROVE  View(r) = View(s)
<1>1. SameContents(doc, r, s, D, M)
  BY DEF SameContents
<1>2. ASSUME NEW j \in 0 .. n - 1 PROVE CellAt(r, at + j) = None /\ CellAt(s, bt + j) = None
  <2>1. at + j \in at .. at + n - 1 /\ bt + j \in bt .. bt + n - 1
    OBVIOUS
  <2>2. at + j \notin Held(r.cells) /\ bt + j \notin Held(s.cells)
    BY <2>1
  <2>3. QED
    BY <2>2 DEF CellAt
<1>3. Pictured(doc, r, s, D, M, at, bt, n)
  BY <1>1, <1>2 DEF Pictured
<1>4. QED
  BY <1>3, SamePicture

\* Rows deleted below those that are inserted then, or at the same place.
LEMMA DeleteInsert ==
    ASSUME NEW doc, NEW c, NEW m, NEW d, NEW p, NEW r, Pair(doc, c, m, d, p, r), ~Indexed(doc),
           m.call = "delete", p.call = "insert", p.at - 1 <= Len(Shown(doc)), p.at <= m.at
    PROVE  View(r) = View(Apply(Apply(doc, c, m), d, p))
<1> DEFINE x == Apply(doc, c, m)
           y == Apply(doc, d, p)
           s == Apply(x, d, p)
           i == p.at
           n == p.n
           j == m.at
           l == m.n
           at == Ticket(doc, d) + Limit
           bt == Ticket(x, d) + Limit
           M == at .. at + n - 1
           N == bt .. bt + n - 1
           taken == TakenOut(doc, j, l)
           after == ElementBefore(doc, i)
           q == Place(doc.line, after)
<1>1. /\ Ready(doc) /\ Ready(x) /\ Ready(y) /\ Ready(s)
      /\ Document(r, Ceiling(r)) /\ Joins(r, x, y)
  BY PairIs
<1>2. c \in Clients /\ d \in Clients /\ m \in Calls /\ p \in Calls
  BY DEF Pair
<1>3. PlainDelete(doc, x, c, j, l)
  BY <1>1, <1>2, PlainDeleteIs
<1>4. PlainInsert(doc, y, d, i, n)
  BY <1>1, <1>2, PlainInsertIs
<1>5. ~Indexed(x)
  BY <1>3 DEF PlainDelete
<1>6. Document(x, Ceiling(x)) /\ Document(y, Ceiling(y)) /\ Document(s, Ceiling(s))
      /\ Document(doc, Ceiling(doc))
  BY <1>1 DEF Ready
<1>7. /\ i \in Nat \ {0} /\ n \in Nat \ {0} /\ j \in Nat \ {0} /\ l \in Nat \ {0}
      /\ i - 1 <= Len(Shown(doc)) /\ i <= j
  <2>1. /\ i \in 1 .. MaxRows /\ n \in 1 .. MaxBlock /\ j \in 1 .. MaxRows /\ l \in 1 .. MaxBlock
        /\ MaxRows \in Nat /\ MaxBlock \in Nat
    BY <1>2, LimitIs DEF Calls, Indices
  <2>2. i - 1 <= Len(Shown(doc)) /\ i <= j
    OBVIOUS
  <2> HIDE DEF i, n, j, l
  <2>3. QED
    BY <2>1, <2>2
<1>8. at \in Nat /\ bt \in Nat
  <2> HIDE DEF x
  <2>1. Ticket(doc, d) \in Nat /\ Ticket(x, d) \in Nat /\ Limit \in Nat
    BY <1>1, <1>2, ReadyIs
  <2>2. QED
    BY <2>1
<1> HIDE DEF i, n, j, l
<1>9. q \in 0 .. Len(doc.line)
      /\ \A k \in 1 .. Len(Shown(doc)) : k >= i => q < Place(doc.line, Shown(doc)[k])
  BY <1>6, <1>7, PlaceAbove
<1>10. Edited(doc, x, taken, {}, Ids(doc, taken), Ticket(doc, c)) /\ x.line = doc.line
  BY <1>3 DEF PlainDelete
<1>11. SameFront(doc, x, q)
  <2>1. /\ doc.line \in Seq(Nat) /\ NoRepeats(doc.line) /\ DOMAIN doc.line = 1 .. Len(doc.line)
        /\ Len(doc.line) \in Nat /\ Len(Shown(doc)) \in Nat
    BY <1>6, LineIs, ShownLists
  <2>2. \A k \in j .. LastCut(doc, j, l) : k \in 1 .. Len(Shown(doc)) /\ k >= i
    <3>1. j .. LastCut(doc, j, l) \subseteq 1 .. Len(Shown(doc)) /\ LastCut(doc, j, l) \in Nat
      BY <1>6, <1>7, RemovedIs
    <3>2. QED
      BY <1>7, <3>1
  <2>3. \A e \in taken : q < Place(doc.line, e)
    BY <1>9, <2>2 DEF TakenOut
  <2>4. ASSUME NEW k \in 1 .. q PROVE doc.line[k] \notin taken
    <3>1. k \in DOMAIN doc.line /\ k <= q /\ k \in Nat /\ q \in Nat
      BY <1>9, <2>1
    <3>2. Place(doc.line, doc.line[k]) = k
      BY <2>1, <3>1, PlaceIs
    <3> HIDE DEF q, taken
    <3>3. ~(q < k)
      BY <3>1
    <3>4. QED
      BY <2>3, <3>2, <3>3
  <2> HIDE DEF q, taken, x
  <2>5. Looks(doc, x, taken, {})
    BY <1>10 DEF Edited
  <2>6. QED
    BY <1>6, <1>9, <1>10, <2>4, <2>5, DeleteFront
<1>12. i - 1 <= Len(Shown(x)) /\ ElementBefore(x, i) = after
  <2> HIDE DEF x
  <2>1. QED
    BY <1>6, <1>7, <1>11, FrontBefore
<1>13. PlainInsert(x, s, d, i, n)
  <2> HIDE DEF x
  <2>1. PlainInsert(x, Apply(x, d, p), d, p.at, p.n)
    BY <1>1, <1>2, <1>5, <1>12, PlainInsertIs DEF i
  <2>2. QED
    BY <2>1 DEF i, n
<1> HIDE DEF x, y, s, at, bt, M, N, after
<1>14. /\ Edited(doc, y, {}, M, {}, Ticket(doc, d)) /\ NewOnes(doc, d, M)
       /\ y.line = PutBefore(doc.line, q + 1, Fresh(at, n))
  BY <1>4 DEF PlainInsert, M, at, after
<1>15. /\ Edited(x, s, {}, N, {}, Ticket(x, d)) /\ NewOnes(x, d, N)
       /\ s.line = PutBefore(doc.line, q + 1, Fresh(bt, n))
  BY <1>10, <1>12, <1>13 DEF PlainInsert, N, bt
<1> HIDE DEF q, taken
<1>16. M \cap DOMAIN doc.nodes = {} /\ M \cap Held(doc.cells) = {} /\ N \cap Held(x.cells) = {}
  BY <1>1, <1>2, <1>14, <1>15, NewOnesAre
<1>17. Looks(doc, r, taken, {} \cup M) /\ Looks(doc, s, taken, {} \cup N)
  <2>1. Looks(doc, x, taken, {}) /\ Looks(doc, y, {}, M) /\ Looks(x, s, {}, N)
    BY <1>10, <1>14, <1>15 DEF Edited
  <2>2. Looks(doc, r, taken \cup {}, {} \cup M)
    BY <1>1, <1>6, <1>16, <2>1, JoinLooks
  <2>3. Looks(doc, s, taken \cup {}, {} \cup N)
    BY <2>1, LooksOn
  <2>4. taken \cup {} = taken
    OBVIOUS
  <2>5. QED
    BY <2>2, <2>3, <2>4
<1>18. r.line = y.line
  <2>1. DOMAIN x.nodes \subseteq DOMAIN y.nodes
    BY <1>10, <1>14 DEF Edited, Looks
  <2>2. QED
    BY <1>1, <1>6, <2>1, JoinLine
<1>19. Twins(r.line, s.line, DOMAIN doc.nodes \cup {}, at, bt, n)
  <2> DEFINE P == q + 1
             o == doc.line
  <2>1. P \in 1 .. Len(o) + 1 /\ o \in Seq(Nat) /\ Elements(o) = DOMAIN doc.nodes \cup {}
    BY <1>6, <1>9, LineIs
  <2>2. r.line = PutBefore(o, P, Fresh(at, n)) /\ s.line = PutBefore(o, P, Fresh(bt, n))
    BY <1>14, <1>15, <1>18
  <2> HIDE DEF P, o
  <2>3. Twins(PutBefore(o, P, Fresh(at, n)), PutBefore(o, P, Fresh(bt, n)), Elements(o), at, bt, n)
    BY <1>7, <1>8, <2>1, PutTwins
  <2>4. QED
    BY <2>1, <2>2, <2>3
<1>20. /\ \A k : CellAt(r, k) = CellAt(s, k)
       /\ Held(r.heights) = Held(s.heights) /\ Held(r.cells) \subseteq Held(doc.cells)
  <2>1. PlainPair(doc, c, x, d, y, s, {})
    BY <1>10, <1>14, <1>15 DEF PlainPair
  <2>2. QED
    BY <2>1, PlainContents DEF x, y, s
<1>21. /\ \A k \in at .. at + n - 1 : k \notin Held(r.cells)
       /\ \A k \in bt .. bt + n - 1 : k \notin Held(s.cells)
  <2>1. Held(s.cells) = (Held(x.cells) \ {}) \cup DOMAIN Nothing /\ DOMAIN Nothing = {}
    <3>1. Rewritten(x.cells, s.cells, {}, Nothing, Ticket(x, d))
      BY <1>15 DEF Edited
    <3>2. Held(s.cells) = (Held(x.cells) \ {}) \cup DOMAIN Nothing
      BY <3>1, RewrittenHolds
    <3>3. QED
      BY <3>2 DEF Nothing
  <2>2. QED
    BY <1>16, <1>20, <2>1 DEF M, N
<1>22. View(r) = View(s)
  <2>1. /\ Looks(doc, r, taken, {} \cup (at .. at + n - 1))
        /\ Looks(doc, s, taken, {} \cup (bt .. bt + n - 1))
    BY <1>17 DEF M, N
  <2>2. n \in Nat
    BY <1>7
  <2>3. QED
    BY <1>1, <1>6, <1>8, <1>19, <1>20, <1>21, <2>1, <2>2, NewLook
<1>23. QED
  BY <1>22 DEF x, s

\* Of two clients at the same sheet, the larger one uses the later tickets.
LEMMA TicketsApart ==
    ASSUME NEW doc, Ready(doc), NEW c \in Clients, NEW d \in Clients, c < d
    PROVE  Ticket(doc, c) + Width <= Ticket(doc, d)
<1> DEFINE C == Cardinality(Clients)
           p == (doc.clock + 1) * C
<1>1. C \in Nat /\ c \in Nat /\ d \in Nat /\ doc.clock \in Nat /\ Width \in Nat
  <2>1. C \in Nat /\ c \in 1 .. C /\ d \in 1 .. C
    BY ClientsAssumption
  <2>2. doc.clock \in Nat
    BY ReadyIs
  <2>3. Width \in Nat
    BY LimitIs
  <2> HIDE DEF C
  <2>4. QED
    BY <2>1, <2>2, <2>3
<1>2. p \in Nat
  BY <1>1
<1>3. Ticket(doc, c) = (p + c) * Width /\ Ticket(doc, d) = (p + d) * Width
  BY DEF Ticket
<1> HIDE DEF p, C
<1>4. (p + c + 1) * Width <= (p + d) * Width
  BY <1>1, <1>2, TimesMonotone
<1>5. (p + c + 1) * Width = (p + c) * Width + Width
  BY <1>1, <1>2
<1>6. QED
  BY <1>3, <1>4, <1>5

\* The place of the row above in the list: where new rows go in.
PlaceOver(doc, i) == Place(doc.line, ElementBefore(doc, i))

\* The rows of the client with the later tickets go in last.
LEMMA MergedInserts ==
    ASSUME NEW doc, NEW c, NEW m, NEW d, NEW p, NEW r, Pair(doc, c, m, d, p, r), ~Indexed(doc),
           c < d, m.call = "insert", m.at - 1 <= Len(Shown(doc)),
           p.call = "insert", p.at - 1 <= Len(Shown(doc))
    PROVE  LET x == Apply(doc, c, m)
           IN  r.line = PutBefore(x.line, Place(x.line, ElementBefore(doc, p.at)) + 1,
                                  Fresh(Ticket(doc, d) + Limit, p.n))
<1> DEFINE x == Apply(doc, c, m)
           y == Apply(doc, d, p)
           t == Ticket(doc, c)
           u == Ticket(doc, d)
           n == p.n
           at == u + Limit
           new == at .. at + n - 1
           after == ElementBefore(doc, p.at)
           mine == t + Limit .. t + Limit + m.n - 1
<1>1. Ready(doc) /\ Ready(x) /\ Document(r, Ceiling(r)) /\ Joins(r, x, y)
  BY PairIs
<1>2. c \in Clients /\ d \in Clients /\ m \in Calls /\ p \in Calls
  BY DEF Pair
<1>3. PlainInsert(doc, x, c, m.at, m.n) /\ PlainInsert(doc, y, d, p.at, n)
  BY <1>1, <1>2, PlainInsertIs
<1>4. /\ DOMAIN x.nodes = DOMAIN doc.nodes \cup mine
      /\ DOMAIN y.nodes = DOMAIN doc.nodes \cup new
      /\ \A k \in new : y.nodes[k].after = IF k = at THEN after ELSE k - 1
  BY <1>3 DEF PlainInsert, Edited, Looks
<1>5. /\ t \in Nat /\ u \in Nat /\ Limit \in Nat /\ n \in Nat /\ n # 0 /\ m.n \in Nat
      /\ m.n <= Limit /\ Width = 2 * Limit /\ t + Width <= u /\ Ceiling(doc) \in Nat
      /\ Ceiling(doc) <= u /\ u # 0
  <2>1. n \in 1 .. MaxBlock /\ m.n \in 1 .. MaxBlock /\ MaxBlock \in Nat
    BY <1>2, LimitIs DEF Calls
  <2> HIDE DEF n
  <2>2. MaxBlock <= Limit /\ Limit \in Nat /\ Width = 2 * Limit
    BY <1>1, <1>2, ReadyIs
  <2>3. t \in Nat /\ u \in Nat /\ Ceiling(doc) \in Nat /\ Ceiling(doc) <= u /\ u # 0
    BY <1>1, <1>2, ReadyIs
  <2>4. t + Width <= u
    BY <1>1, <1>2, TicketsApart
  <2> HIDE DEF t, u
  <2>5. QED
    BY <2>1, <2>2, <2>3, <2>4
<1> HIDE DEF t, u, n, x, y, after
<1>6. ASSUME NEW k \in DOMAIN x.nodes PROVE k < at
  <2>1. CASE k \in DOMAIN doc.nodes
    <3>1. k \in Nat /\ k < Ceiling(doc)
      BY <1>1, <2>1 DEF Ready, Document, OfElements, Element
    <3>2. QED
      BY <1>5, <3>1
  <2>2. CASE k \in mine
    <3> DEFINE l == m.n
           start == t + Limit
    <3>1. /\ l \in Nat /\ l <= Limit /\ start \in Nat /\ k \in start .. start + l - 1
          /\ start + Limit = t + Width /\ Limit \in Nat
      BY <1>5, <2>2
    <3> HIDE DEF l, start
    <3>2. k \in Int /\ k < t + Width
      <4>1. k \in Int /\ k < start + Limit
        BY <3>1
      <4>2. QED
        BY <3>1, <4>1
    <3>3. QED
      BY <1>5, <3>2
  <2>3. QED
    BY <1>4, <2>1, <2>2
<1>7. at \in Nat \ {0}
  BY <1>5
<1> HIDE DEF at
<1>8. DOMAIN r.nodes = DOMAIN x.nodes \cup new
  BY <1>1, <1>4 DEF Joins
<1>9. \A k \in DOMAIN x.nodes : r.nodes[k].after = x.nodes[k].after
  BY <1>1, <1>8 DEF Joins, SameElements
<1>10. \A k \in new : r.nodes[k].after = IF k = at THEN after ELSE k - 1
  BY <1>1, <1>4, <1>8 DEF Joins, SameElements
<1>11. Extends(r.nodes, x.nodes, after, at, n)
  BY <1>6, <1>8, <1>9, <1>10 DEF Extends
<1>12. Numbered(x.nodes)
  BY <1>1, DocumentNumbered DEF Ready
<1>13. r.line = Lined(r.nodes) /\ x.line = Lined(x.nodes)
  BY <1>1 DEF Ready, Document
<1>14. Lined(r.nodes) = PutBefore(Lined(x.nodes), Place(Lined(x.nodes), after) + 1, Fresh(at, n))
  <2> DEFINE nodes == x.nodes
             others == r.nodes
  <2>1. Numbered(nodes) /\ Extends(others, nodes, after, at, n) /\ n \in Nat
    BY <1>5, <1>11, <1>12
  <2> HIDE DEF nodes, others
  <2>2. Lined(others) = PutBefore(Lined(nodes), Place(Lined(nodes), after) + 1, Fresh(at, n))
    BY <1>7, <2>1, LinedInserted
  <2>3. QED
    BY <2>2 DEF nodes, others
<1>15. QED
  BY <1>13, <1>14 DEF x, at, u, n, after

\* x has the list of doc and n new elements behind its place p.
PutIn(doc, x, p, at, n) ==
    /\ p \in 0 .. Len(doc.line) /\ at \in Nat /\ n \in Nat
    /\ x.line = PutBefore(doc.line, p + 1, Fresh(at, n))
\* Where an element stands once others are put in above or below it.
LEMMA PlaceBelow ==
    ASSUME NEW doc, NEW b, Document(doc, b), NEW x, NEW B, Document(x, B),
           NEW p, NEW at, NEW n, PutIn(doc, x, p, at, n), NEW k
    PROVE  Place(doc.line, k) > p => Place(x.line, k) = Place(doc.line, k) + n
<1> DEFINE q == Place(doc.line, k)
<1>0. /\ p \in 0 .. Len(doc.line) /\ at \in Nat /\ n \in Nat
      /\ x.line = PutBefore(doc.line, p + 1, Fresh(at, n))
  BY DEF PutIn
<1>1. /\ doc.line \in Seq(Nat) /\ Len(doc.line) \in Nat /\ DOMAIN doc.line = 1 .. Len(doc.line)
  BY LineIs
<1>2. x.line \in Seq(Nat) /\ NoRepeats(x.line) /\ DOMAIN x.line = 1 .. Len(x.line)
  BY LineIs
<1>3. Len(x.line) = Len(doc.line) + n /\ \A j \in p + 1 .. Len(doc.line) : x.line[j + n] = doc.line[j]
  <2> DEFINE line == PutBefore(doc.line, p + 1, Fresh(at, n))
  <2>1. Len(line) = Len(doc.line) + n /\ \A j \in p + 1 .. Len(doc.line) : line[j + n] = doc.line[j]
    BY <1>0, PutFresh
  <2>2. QED
    BY <1>0, <2>1
<1>4. SUFFICES ASSUME q > p PROVE Place(x.line, k) = q + n
  OBVIOUS
<1>5. q \in 0 .. Len(doc.line)
  BY <1>1, PlaceOf
<1>6. k \in Elements(doc.line)
  <2>1. q # 0
    <3> HIDE DEF q
    <3>1. QED
      BY <1>0, <1>1, <1>4, <1>5
  <2>2. QED
    BY <1>1, <2>1, PlaceOf
<1>7. doc.line[q] = k
  BY <1>1, <1>6, PlaceOf
<1> HIDE DEF q
<1>8. q \in p + 1 .. Len(doc.line) /\ q + n \in DOMAIN x.line
  <2>1. q \in Nat /\ p \in Nat /\ p < q /\ q <= Len(doc.line) /\ Len(x.line) = Len(doc.line) + n
    BY <1>0, <1>1, <1>3, <1>4, <1>5
  <2>2. q \in p + 1 .. Len(doc.line)
    BY <1>1, <2>1
  <2>3. q + n \in 1 .. Len(x.line)
    BY <1>0, <1>1, <2>1
  <2>4. QED
    BY <1>2, <2>2, <2>3
<1>9. x.line[q + n] = k
  BY <1>3, <1>7, <1>8
<1> DEFINE j == q + n
<1>10. j \in DOMAIN x.line /\ x.line[j] = k
  BY <1>8, <1>9
<1> HIDE DEF j
<1>11. Place(x.line, x.line[j]) = j
  BY <1>2, <1>10, PlaceIs
<1>12. QED
  BY <1>10, <1>11 DEF j

LEMMA PlaceKept ==
    ASSUME NEW doc, NEW b, Document(doc, b), NEW x, NEW B, Document(x, B),
           NEW k \in Tickets(doc.nodes), SameFront(doc, x, Place(doc.line, k))
    PROVE  Place(x.line, k) = Place(doc.line, k)
<1> DEFINE q == Place(doc.line, k)
<1>1. /\ doc.line \in Seq(Nat) /\ DOMAIN doc.line = 1 .. Len(doc.line) /\ Len(doc.line) \in Nat
      /\ Elements(doc.line) = DOMAIN doc.nodes /\ 0 \notin DOMAIN doc.nodes
  BY LineIs
<1>2. /\ x.line \in Seq(Nat) /\ NoRepeats(x.line) /\ DOMAIN x.line = 1 .. Len(x.line)
      /\ Elements(x.line) = DOMAIN x.nodes /\ 0 \notin DOMAIN x.nodes /\ Len(x.line) \in Nat
  BY LineIs
<1>3. CASE k = 0
  <2>1. k \notin Elements(doc.line) /\ k \notin Elements(x.line)
    BY <1>1, <1>2, <1>3
  <2>2. QED
    BY <1>1, <1>2, <2>1, PlaceOf
<1>4. CASE k # 0
  <2>1. k \in Elements(doc.line)
    BY <1>1, <1>4 DEF Tickets
  <2>2. q \in DOMAIN doc.line /\ doc.line[q] = k
    BY <1>1, <2>1, PlaceOf
  <2>3. q <= Len(x.line) /\ \A j \in 1 .. q : doc.line[j] = x.line[j]
    BY DEF SameFront
  <2> HIDE DEF q
  <2>4. q \in DOMAIN x.line /\ x.line[q] = k
    BY <1>1, <1>2, <2>2, <2>3
  <2>5. Place(x.line, x.line[q]) = q
    BY <1>2, <2>4, PlaceIs
  <2>6. QED
    BY <2>4, <2>5 DEF q
<1>5. QED
  BY <1>3, <1>4

\* Two clients insert: the rows that stand higher up, or at one place those of the
\* client with the later tickets, are put in second.
LEMMA InsertInsert ==
    ASSUME NEW doc, NEW c, NEW m, NEW d, NEW p, NEW r, Pair(doc, c, m, d, p, r), ~Indexed(doc),
           m.call = "insert", m.at - 1 <= Len(Shown(doc)),
           p.call = "insert", p.at - 1 <= Len(Shown(doc)),
           PlaceOver(doc, p.at) <= PlaceOver(doc, m.at),
           PlaceOver(doc, p.at) = PlaceOver(doc, m.at) => c < d
    PROVE  View(r) = View(Apply(Apply(doc, c, m), d, p))
<1> DEFINE x == Apply(doc, c, m)
           y == Apply(doc, d, p)
           s == Apply(x, d, p)
           i == p.at
           n == p.n
           j == m.at
           l == m.n
           mt == Ticket(doc, c) + Limit
           at == Ticket(doc, d) + Limit
           bt == Ticket(x, d) + Limit
           M == mt .. mt + l - 1
           N == at .. at + n - 1
           Q == bt .. bt + n - 1
           after == ElementBefore(doc, i)
           above == ElementBefore(doc, j)
           place == PlaceOver(doc, i)
           far == PlaceOver(doc, j)
<1>1. /\ Ready(doc) /\ Ready(x) /\ Ready(y) /\ Ready(s)
      /\ Document(r, Ceiling(r)) /\ Joins(r, x, y) /\ Pair(doc, d, p, c, m, r)
      /\ NewElements(doc, x) \cap NewElements(doc, y) = {}
  BY PairIs
<1>2. c \in Clients /\ d \in Clients /\ m \in Calls /\ p \in Calls /\ c # d
  BY DEF Pair
<1>3. PlainInsert(doc, x, c, j, l) /\ PlainInsert(doc, y, d, i, n)
  BY <1>1, <1>2, PlainInsertIs
<1>4. ~Indexed(x)
  BY <1>3 DEF PlainInsert
<1>5. Document(x, Ceiling(x)) /\ Document(y, Ceiling(y)) /\ Document(s, Ceiling(s))
      /\ Document(doc, Ceiling(doc))
  BY <1>1 DEF Ready
<1>6. /\ i \in Nat \ {0} /\ n \in Nat /\ j \in Nat \ {0} /\ l \in Nat
      /\ i - 1 <= Len(Shown(doc)) /\ j - 1 <= Len(Shown(doc))
      /\ place <= far /\ (place = far => c < d)
  <2>1. /\ i \in 1 .. MaxRows /\ n \in 1 .. MaxBlock /\ j \in 1 .. MaxRows /\ l \in 1 .. MaxBlock
        /\ MaxRows \in Nat /\ MaxBlock \in Nat
    BY <1>2, LimitIs DEF Calls, Indices
  <2>2. i - 1 <= Len(Shown(doc)) /\ j - 1 <= Len(Shown(doc))
        /\ place <= far /\ (place = far => c < d)
    OBVIOUS
  <2> HIDE DEF i, n, j, l, place, far
  <2>3. QED
    BY <2>1, <2>2
<1>7. at \in Nat /\ bt \in Nat /\ mt \in Nat
  <2> HIDE DEF x
  <2> DEFINE tc == Ticket(doc, c)
             td == Ticket(doc, d)
             tx == Ticket(x, d)
  <2>1. tc \in Nat /\ td \in Nat /\ tx \in Nat /\ Limit \in Nat
    BY <1>1, <1>2, ReadyIs
  <2>2. at = td + Limit /\ bt = tx + Limit /\ mt = tc + Limit
    OBVIOUS
  <2> HIDE DEF tc, td, tx, at, bt, mt
  <2>3. QED
    BY <2>1, <2>2
<1> HIDE DEF i, n, j, l
<1>8. place \in 0 .. Len(doc.line) /\ far \in 0 .. Len(doc.line)
  BY <1>5, <1>6, PlaceAbove DEF PlaceOver
<1>9. /\ Edited(doc, x, {}, M, {}, Ticket(doc, c)) /\ NewOnes(doc, c, M)
      /\ x.line = PutBefore(doc.line, far + 1, Fresh(mt, l))
  BY <1>3 DEF PlainInsert, PlaceOver
<1>10. /\ Edited(doc, y, {}, N, {}, Ticket(doc, d)) /\ NewOnes(doc, d, N)
       /\ y.line = PutBefore(doc.line, place + 1, Fresh(at, n))
  BY <1>3 DEF PlainInsert, PlaceOver
<1>11. SameFront(doc, x, place)
  <2>1. place \in 0 .. far
    <3>1. Len(doc.line) \in Nat
      BY <1>5, LineIs
    <3> HIDE DEF place, far
    <3>2. QED
      BY <1>6, <1>8, <3>1
  <2> HIDE DEF place, far, x, M, mt
  <2>2. Looks(doc, x, {}, M)
    BY <1>9 DEF Edited
  <2>3. QED
    BY <1>5, <1>6, <1>7, <1>8, <1>9, <2>1, <2>2, InsertFront
<1>12. i - 1 <= Len(Shown(x)) /\ ElementBefore(x, i) = after
  <2> HIDE DEF x
  <2>1. QED
    BY <1>5, <1>6, <1>11, FrontBefore DEF PlaceOver
<1>13. PlainInsert(x, s, d, i, n)
  <2> HIDE DEF x
  <2>1. PlainInsert(x, Apply(x, d, p), d, p.at, p.n)
    BY <1>1, <1>2, <1>4, <1>12, PlainInsertIs DEF i
  <2>2. QED
    BY <2>1 DEF i, n
<1>14. /\ Edited(x, s, {}, Q, {}, Ticket(x, d)) /\ NewOnes(x, d, Q)
       /\ s.line = PutBefore(x.line, Place(x.line, after) + 1, Fresh(bt, n))
  <2> HIDE DEF x, s
  <2>1. QED
    BY <1>12, <1>13 DEF PlainInsert
<1>15. /\ c < d => r.line = PutBefore(x.line, Place(x.line, after) + 1, Fresh(at, n))
       /\ d < c => r.line = PutBefore(y.line, Place(y.line, above) + 1, Fresh(mt, l))
  <2> HIDE DEF x, y
  <2>1. c < d => r.line = PutBefore(Apply(doc, c, m).line,
                              Place(Apply(doc, c, m).line, ElementBefore(doc, p.at)) + 1,
                              Fresh(Ticket(doc, d) + Limit, p.n))
    BY MergedInserts
  <2>2. d < c => r.line = PutBefore(Apply(doc, d, p).line,
                              Place(Apply(doc, d, p).line, ElementBefore(doc, m.at)) + 1,
                              Fresh(Ticket(doc, c) + Limit, m.n))
    BY <1>1, MergedInserts
  <2>3. QED
    BY <2>1, <2>2 DEF x, y, i, n, j, l
<1>16. after \in Tickets(doc.nodes) /\ Place(doc.line, after) = place
       /\ Place(doc.line, above) = far
  <2>1. after \in Tickets(doc.nodes)
    BY <1>5, <1>6, ElementBeforeIs
  <2>2. QED
    BY <2>1 DEF PlaceOver
<1> HIDE DEF x, y, s, at, bt, mt, M, N, Q, after, above, place, far
<1>17. c < d \/ d < c
  <2>1. c \in Nat /\ d \in Nat
    BY <1>2, ClientsAssumption
  <2>2. QED
    BY <1>2, <2>1
<1>18. Twins(r.line, s.line, DOMAIN doc.nodes \cup M, at, bt, n)
  <2>1. /\ x.line \in Seq(Nat) /\ Elements(x.line) = DOMAIN doc.nodes \cup M /\ Len(x.line) \in Nat
    <3>1. x.line \in Seq(Nat) /\ Elements(x.line) = DOMAIN x.nodes /\ Len(x.line) \in Nat
      BY <1>5, LineIs
    <3>2. DOMAIN x.nodes = DOMAIN doc.nodes \cup M
      BY <1>9 DEF Edited, Looks
    <3>3. QED
      BY <3>1, <3>2
  <2>2. doc.line \in Seq(Nat) /\ Elements(doc.line) = DOMAIN doc.nodes /\ Len(doc.line) \in Nat
    BY <1>5, LineIs
  <2>3. CASE c < d
    <3> DEFINE o == x.line
               P == Place(o, after) + 1
    <3>1. P \in 1 .. Len(o) + 1 /\ o \in Seq(Nat) /\ Elements(o) = DOMAIN doc.nodes \cup M
      BY <2>1, PlaceOf
    <3>2. r.line = PutBefore(o, P, Fresh(at, n)) /\ s.line = PutBefore(o, P, Fresh(bt, n))
      BY <1>14, <1>15, <2>3
    <3> HIDE DEF P, o
    <3>3. Twins(PutBefore(o, P, Fresh(at, n)), PutBefore(o, P, Fresh(bt, n)), Elements(o), at, bt, n)
      BY <1>6, <1>7, <3>1, PutTwins
    <3>4. QED
      BY <3>1, <3>2, <3>3
  <2>4. CASE d < c
    <3> DEFINE o == doc.line
               P == place + 1
               R == far + 1
               other == Fresh(mt, l)
    <3>1. place \in Nat /\ far \in Nat /\ far <= Len(o) /\ place < far
      <4>1. c \in Nat /\ d \in Nat
        BY <1>2, ClientsAssumption
      <4>2. place # far
        BY <1>6, <2>4, <4>1
      <4>3. QED
        BY <1>6, <1>8, <2>2, <4>2
    <3>2. Place(y.line, above) + 1 = R + n
      <4>1. Place(doc.line, above) > place
        BY <1>16, <3>1
      <4>2. Place(y.line, above) = Place(doc.line, above) + n
        <5>1. PutIn(doc, y, place, at, n)
          BY <1>6, <1>7, <1>8, <1>10 DEF PutIn
        <5>2. Place(doc.line, above) > place => Place(y.line, above) = Place(doc.line, above) + n
          BY <1>5, <5>1, PlaceBelow
        <5>3. QED
          BY <4>1, <5>2
      <4>3. QED
        BY <1>6, <1>16, <3>1, <4>2
    <3>3. Place(x.line, after) + 1 = P
      BY <1>5, <1>11, <1>16, PlaceKept
    <3>4. other \in Seq(Nat) /\ Elements(other) = M
      <4>1. other \in Seq(mt .. mt + l - 1) /\ Elements(other) = mt .. mt + l - 1
        BY <1>6, <1>7, FreshLists
      <4>2. mt .. mt + l - 1 \subseteq Nat
        BY <1>6, <1>7
      <4> HIDE DEF other
      <4>3. QED
        BY <4>1, <4>2, SeqOfMore DEF M
    <3>5. P \in 1 .. R /\ R \in 1 .. Len(o) + 1
      BY <2>2, <3>1
    <3>6. /\ r.line = PutBefore(PutBefore(o, P, Fresh(at, n)), R + n, other)
          /\ s.line = PutBefore(PutBefore(o, R, other), P, Fresh(bt, n))
      BY <1>9, <1>10, <1>14, <1>15, <2>4, <3>2, <3>3
    <3> HIDE DEF P, R, o, other
    <3>7. Twins(PutBefore(PutBefore(o, P, Fresh(at, n)), R + n, other),
                PutBefore(PutBefore(o, R, other), P, Fresh(bt, n)),
                Elements(o) \cup Elements(other), at, bt, n)
      BY <1>6, <1>7, <2>2, <3>4, <3>5, PutTwice DEF o
    <3>8. QED
      BY <2>2, <3>4, <3>6, <3>7 DEF o
  <2>5. QED
    BY <1>17, <2>3, <2>4
<1>19. /\ M \cap DOMAIN doc.nodes = {} /\ M \cap Held(doc.cells) = {}
       /\ N \cap DOMAIN doc.nodes = {} /\ N \cap Held(doc.cells) = {} /\ Q \cap Held(x.cells) = {}
       /\ Q \cap DOMAIN x.nodes = {}
  BY <1>1, <1>2, <1>9, <1>10, <1>14, NewOnesAre
<1>20. M \cap N = {}
  <2>1. NewElements(doc, x) = M /\ NewElements(doc, y) = N
    BY <1>9, <1>10, <1>19 DEF NewElements, Edited, Looks
  <2>2. QED
    BY <1>1, <2>1
<1>21. Looks(doc, r, {}, M \cup N) /\ Looks(doc, s, {}, M \cup Q)
  <2>1. Looks(doc, x, {}, M) /\ Looks(doc, y, {}, N) /\ Looks(x, s, {}, Q)
    BY <1>9, <1>10, <1>14 DEF Edited
  <2>2. Looks(doc, r, {} \cup {}, M \cup N)
    BY <1>1, <1>5, <1>19, <1>20, <2>1, JoinLooks
  <2>3. Looks(doc, s, {} \cup {}, M \cup Q)
    BY <2>1, LooksOn
  <2>4. {} \cup {} = {}
    OBVIOUS
  <2>5. QED
    BY <2>2, <2>3, <2>4
<1>22. /\ \A k : CellAt(r, k) = CellAt(s, k)
       /\ Held(r.heights) = Held(s.heights) /\ Held(r.cells) \subseteq Held(doc.cells)
  <2>1. PlainPair(doc, c, x, d, y, s, {})
    BY <1>9, <1>10, <1>14 DEF PlainPair
  <2>2. QED
    BY <2>1, PlainContents DEF x, y, s
<1>23. /\ \A k \in at .. at + n - 1 : k \notin Held(r.cells)
       /\ \A k \in bt .. bt + n - 1 : k \notin Held(s.cells)
  <2>1. Held(s.cells) = (Held(x.cells) \ {}) \cup DOMAIN Nothing /\ DOMAIN Nothing = {}
    <3>1. Rewritten(x.cells, s.cells, {}, Nothing, Ticket(x, d))
      BY <1>14 DEF Edited
    <3>2. Held(s.cells) = (Held(x.cells) \ {}) \cup DOMAIN Nothing
      BY <3>1, RewrittenHolds
    <3>3. QED
      BY <3>2 DEF Nothing
  <2>2. QED
    BY <1>19, <1>22, <2>1 DEF N, Q
<1>24. View(r) = View(s)
  <2>1. /\ Looks(doc, r, {}, M \cup (at .. at + n - 1))
        /\ Looks(doc, s, {}, M \cup (bt .. bt + n - 1))
    BY <1>21 DEF N, Q
  <2>2. QED
    BY <1>1, <1>5, <1>6, <1>7, <1>18, <1>22, <1>23, <2>1, NewLook
<1>25. QED
  BY <1>24 DEF x, s

-----------------------------------------------------------------------------
(* Every pair of calls that is to come out as if made one after the other.  *)

Within(doc, m) == m.at <= Len(Shown(doc)) + IF m.call = "insert" THEN 1 ELSE 0
IntoPlain(doc, m) == m.call \in Typed /\ CellAt(doc, Rows(doc)[m.at]) \notin References
SerialCalls(doc, m, p) ==
    \/ m.call \in Typed /\ p.call \in Typed
    \/ IntoPlain(doc, m) /\ p.call = "insert"
    \/ IntoPlain(doc, m) /\ p.call = "delete" /\ (m.call = "set" => Rows(doc)[m.at] \notin Twice(doc))
    \/ m.call = "height" /\ p.call \in {"insert", "delete"}
    \/ m.call = "insert" /\ p.call = "insert" /\ ~Indexed(doc)
    \/ m.call = "insert" /\ p.call = "delete" /\ ~Indexed(doc)
       /\ m.at \notin p.at + 1 .. p.at + p.n - 1

InOrder(doc, c, m, d, p) == View(Apply(Apply(doc, c, m), d, p))

LEMMA PairMatches ==
    ASSUME NEW doc, NEW c, NEW m, NEW d, NEW p, NEW r, Pair(doc, c, m, d, p, r),
           Within(doc, m), Within(doc, p), SerialCalls(doc, m, p)
    PROVE  View(r) \in {InOrder(doc, c, m, d, p), InOrder(doc, d, p, c, m)}
<1>1. Pair(doc, d, p, c, m, r) /\ Ready(doc)
  BY PairIs
<1>2. c \in Clients /\ d \in Clients /\ c # d /\ m \in Calls /\ p \in Calls
  BY DEF Pair
<1>3. Len(Shown(doc)) \in Nat
  BY <1>1, ShownLists DEF Ready
<1>4. /\ m.call = "insert" => m.at - 1 <= Len(Shown(doc))
      /\ p.call = "insert" => p.at - 1 <= Len(Shown(doc))
      /\ m.call # "insert" => m.at <= Len(Shown(doc))
      /\ p.call # "insert" => p.at <= Len(Shown(doc))
  <2>1. m.at \in Nat /\ p.at \in Nat
    BY <1>2, LimitIs DEF Calls, Indices
  <2>2. QED
    BY <1>3, <2>1 DEF Within
<1>5. CASE m.call \in Typed /\ p.call \in Typed
  <2>1. m.call # "insert" /\ p.call # "insert"
    BY <1>5 DEF Typed
  <2>2. CASE m.call = "set" => p.call = "set"
    <3>1. View(r) = View(Apply(Apply(doc, c, m), d, p))
      BY <1>4, <1>5, <2>1, <2>2, TypedTyped
    <3>2. QED
      BY <3>1 DEF InOrder
  <2>3. CASE ~(m.call = "set" => p.call = "set")
    <3>1. View(r) = View(Apply(Apply(doc, d, p), c, m))
      BY <1>1, <1>4, <1>5, <2>1, <2>3, TypedTyped
    <3>2. QED
      BY <3>1 DEF InOrder
  <2>4. QED
    BY <2>2, <2>3
<1>6. CASE IntoPlain(doc, m) /\ p.call = "insert"
  <2>1. m.call # "insert" /\ m.call \in Typed
    BY <1>6 DEF Typed, IntoPlain
  <2>2. View(r) = View(Apply(Apply(doc, c, m), d, p))
    BY <1>4, <1>6, <2>1, TypedInsert DEF IntoPlain
  <2>3. QED
    BY <2>2 DEF InOrder
<1>7. CASE IntoPlain(doc, m) /\ p.call = "delete"
           /\ (m.call = "set" => Rows(doc)[m.at] \notin Twice(doc))
  <2>1. m.call # "insert" /\ m.call \in Typed
    BY <1>7 DEF Typed, IntoPlain
  <2>2. View(r) = View(Apply(Apply(doc, c, m), d, p))
    BY <1>4, <1>7, <2>1, TypedDelete DEF IntoPlain
  <2>3. QED
    BY <2>2 DEF InOrder
<1>8. CASE m.call = "height" /\ p.call \in {"insert", "delete"}
  <2>1. View(r) = View(Apply(Apply(doc, d, p), c, m))
    BY <1>1, <1>4, <1>8, HeightAfter
  <2>2. QED
    BY <2>1 DEF InOrder
<1>9. CASE m.call = "insert" /\ p.call = "insert" /\ ~Indexed(doc)
  <2> DEFINE q == PlaceOver(doc, m.at)
             k == PlaceOver(doc, p.at)
  <2>1. q \in Int /\ k \in Int
    <3>1. doc.line \in Seq(Nat) /\ Len(doc.line) \in Nat
      BY <1>1, LineIs DEF Ready
    <3>2. q \in 0 .. Len(doc.line) /\ k \in 0 .. Len(doc.line)
      BY <3>1, PlaceOf DEF PlaceOver
    <3> HIDE DEF q, k
    <3>3. QED
      BY <3>1, <3>2
  <2>2. c \in Int /\ d \in Int
    BY <1>2, ClientsAssumption
  <2> HIDE DEF q, k
  <2>3. CASE k <= q /\ (k = q => c < d)
    <3>1. View(r) = View(Apply(Apply(doc, c, m), d, p))
      BY <1>4, <1>9, <2>3, InsertInsert DEF q, k
    <3>2. QED
      BY <3>1 DEF InOrder
  <2>4. CASE ~(k <= q /\ (k = q => c < d))
    <3>1. q <= k /\ (q = k => d < c)
      BY <1>2, <2>1, <2>2, <2>4
    <3>2. View(r) = View(Apply(Apply(doc, d, p), c, m))
      BY <1>1, <1>4, <1>9, <3>1, InsertInsert DEF q, k
    <3>3. QED
      BY <3>2 DEF InOrder
  <2>5. QED
    BY <2>3, <2>4
<1>10. CASE m.call = "insert" /\ p.call = "delete" /\ ~Indexed(doc)
            /\ m.at \notin p.at + 1 .. p.at + p.n - 1
  <2> DEFINE i == m.at
             j == p.at
             n == p.n
  <2>1. i \in Nat /\ j \in Nat /\ n \in Nat /\ i \notin j + 1 .. j + n - 1
    BY <1>2, <1>10, LimitIs DEF Calls, Indices
  <2> HIDE DEF i, j, n
  <2>2. i <= j \/ j + n <= i
    BY <2>1
  <2>3. CASE i <= j
    <3>1. View(r) = View(Apply(Apply(doc, d, p), c, m))
      BY <1>1, <1>4, <1>10, <2>3, DeleteInsert DEF i, j
    <3>2. QED
      BY <3>1 DEF InOrder
  <2>4. CASE j + n <= i
    <3>1. View(r) = View(Apply(Apply(doc, c, m), d, p))
      BY <1>4, <1>10, <2>4, InsertDelete DEF i, j, n
    <3>2. QED
      BY <3>1 DEF InOrder
  <2>5. QED
    BY <2>2, <2>3, <2>4
<1>11. QED
  BY <1>5, <1>6, <1>7, <1>8, <1>9, <1>10 DEF SerialCalls

LEMMA CallIs ==
    ASSUME NEW c, NEW b, Document(last[c].before, b)
    PROVE  LET doc == last[c].before
               m   == last[c].call
           IN  /\ StaysInside(c) => Within(doc, m)
               /\ m.at \in 1 .. Len(Shown(doc)) /\ m.call \in Typed /\ ~IntoFormula(c)
                    => IntoPlain(doc, m)
<1> DEFINE doc == last[c].before
           m == last[c].call
<1>1. Len(Rows(doc)) = Len(Shown(doc)) /\ DOMAIN Rows(doc) = 1 .. Len(Shown(doc))
  BY RowsAre
<1>2. StaysInside(c) => Within(doc, m)
  BY <1>1 DEF StaysInside, Within, Call
<1>3. m.at \in 1 .. Len(Shown(doc)) /\ m.call \in Typed /\ ~IntoFormula(c) => IntoPlain(doc, m)
  BY <1>1 DEF IntoFormula, IntoPlain, Showing
<1>4. QED
  BY <1>2, <1>3

LEMMA SerialOrder ==
    ASSUME HistoryInv, NEW c \in Clients, NEW d \in Clients, Concurrent(c, d),
           StaysInside(c), StaysInside(d), SerialPair(c, d)
    PROVE  MatchesSerialOrder(c, d)
<1> DEFINE doc == last[c].before
           m == last[c].call
           p == last[d].call
           x == Apply(doc, c, m)
           y == Apply(doc, d, p)
           r == Merge(x, y)
<1>1. c # d /\ last[d].before = doc /\ m \in Calls /\ p \in Calls /\ Base(doc)
  BY DEF HistoryInv, Remembered, Concurrent
<1>2. Joins(r, x, y) /\ Ready(doc)
  BY <1>1, PairJoins
<1>3. Pair(doc, c, m, d, p, r)
  BY <1>1, <1>2 DEF Pair
<1>4. Document(doc, Ceiling(doc)) /\ Document(last[d].before, Ceiling(doc))
  BY <1>1, <1>2 DEF Ready
<1>5. Within(doc, m) /\ Within(doc, p)
  BY <1>1, <1>4, CallIs
<1>6. m.call \in Typed => m.at \in 1 .. Len(Shown(doc))
  <2>1. m.at \in Nat \ {0} /\ Len(Shown(doc)) \in Nat
    <3> HIDE DEF doc, m
    <3>1. m.at \in Nat \ {0}
      BY <1>1, LimitIs DEF Calls, Indices
    <3>2. Len(Shown(doc)) \in Nat
      BY <1>4, ShownLists
    <3>3. QED
      BY <3>1, <3>2
  <2>2. m.call \in Typed => m.at <= Len(Shown(doc))
    BY <1>5, <2>1 DEF Within, Typed
  <2>3. QED
    BY <2>1, <2>2
<1>7. m.call \in Typed /\ ~IntoFormula(c) => IntoPlain(doc, m)
  BY <1>4, <1>6, CallIs
<1>8. SerialCalls(doc, m, p)
  <2> USE DEF SerialPair, SerialCalls, Call, Typed
  <2>1. CASE Call(c, Typed) /\ Call(d, Typed)
    BY <2>1
  <2>2. CASE Call(c, Typed) /\ Call(d, {"insert"}) /\ ~IntoFormula(c)
    BY <1>7, <2>2
  <2>3. CASE Call(c, Typed) /\ Call(d, {"delete"}) /\ ~IntoFormula(c) /\ ~IntoRepeated(c)
    BY <1>7, <2>3 DEF IntoRepeated
  <2>4. CASE Call(c, {"height"}) /\ Call(d, {"insert", "delete"})
    BY <2>4
  <2>5. CASE Call(c, {"insert"}) /\ Call(d, {"insert", "delete"}) /\ ~Indexed(doc) /\ ~Splits(c, d)
    <3>1. CASE p.call = "insert"
      BY <2>5, <3>1
    <3>2. CASE p.call = "delete"
      BY <2>5, <3>2 DEF Splits
    <3>3. QED
      BY <2>5, <3>1, <3>2
  <2>6. QED
    BY <2>1, <2>2, <2>3, <2>4, <2>5
<1> HIDE DEF doc, m, p, x, y, r
<1>9. View(r) \in {InOrder(doc, c, m, d, p), InOrder(doc, d, p, c, m)}
  BY <1>3, <1>5, <1>8, PairMatches
<1>10. QED
  BY <1>9 DEF MatchesSerialOrder, InOrder, doc, m, p, x, y, r

\* What is remembered of the last changes: every client that has not exchanged with the
\* server since knows a sound replica its last call was made on, and nothing in any copy
\* is later than what the next change of anybody writes.
THEOREM ChangesRemembered == Spec => [](SheetsInv /\ HistoryInv)
<1>1. Init => SheetsInv /\ HistoryInv
  BY StartKeeps, StartRemembers
<1>2. SheetsInv /\ ComposersInv /\ HistoryInv /\ [Next]_vars => HistoryInv'
  BY HistoryStep
<1>3. QED
  BY <1>1, <1>2, CopiesSound, PTL DEF Spec

\* Two users who type in different rows, type in or size a row while the other inserts or
\* deletes, or insert while the other inserts or deletes, end after the merge with the
\* sheet one of the two orders would have given, outside the exceptions the property
\* names: whatever the sheet they started from, the rows and the earlier edits of others.
THEOREM SerialPairs == Spec => []PairsMatchSerialOrder
<1>1. HistoryInv => PairsMatchSerialOrder
  BY SerialOrder DEF PairsMatchSerialOrder
<1>2. QED
  BY <1>1, ChangesRemembered, PTL
=============================================================================
