------------------------- MODULE RecalculationProofs -------------------------
(***************************************************************************)
(* Theorems of Calculator and Recalculation: what users typed is kept,     *)
(* ghosts and blockers belong to the formulas they are about, formulas     *)
(* show what they evaluate to and circular references an error.            *)
(***************************************************************************)
EXTENDS Recalculation, ListLemmas

-----------------------------------------------------------------------------
(* Loops.  A loop is a recursive function of the number of its rounds; each *)
(* round takes S[k-1] to S[k].                                              *)

LEMMA LoopStays ==
    ASSUME NEW n \in Nat, NEW S, NEW h, h[0] \in S[0],
           \A k \in 1 .. n : h[k - 1] \in S[k - 1] => h[k] \in S[k]
    PROVE  \A k \in 0 .. n : h[k] \in S[k]
<1> DEFINE bad == {k \in 0 .. n : h[k] \notin S[k]}
<1> SUFFICES ASSUME bad # {} PROVE FALSE
  OBVIOUS
<1>1. bad \in SUBSET Nat
  OBVIOUS
<1>2. PICK k \in bad : \A m \in bad : k <= m
  <2> HIDE DEF bad
  <2> QED  BY <1>1, LeastNatural
<1>3. k \in 1 .. n /\ k - 1 \in 0 .. n /\ k - 1 \notin bad
  BY <1>2
<1> QED  BY <1>2, <1>3

Loop(g, n, a, op) == g = [k \in 0 .. n |-> IF k = 0 THEN a ELSE op[k][g[k - 1]]]

LEMMA LoopRuns ==
    ASSUME NEW n \in Nat, NEW S, NEW a \in S[0], NEW op,
           \A k \in 1 .. n : \A x \in S[k - 1] : op[k][x] \in S[k]
    PROVE  \E g : Loop(g, n, a, op)
<1> USE DEF Loop
<1> DEFINE Runs(g, m) == g = [k \in 0 .. m |-> IF k = 0 THEN a ELSE op[k][g[k - 1]]]
           bad == {m \in 0 .. n : ~\E g : Runs(g, m)}
<1> SUFFICES ASSUME bad # {} PROVE FALSE
  OBVIOUS
<1>1. bad \in SUBSET Nat
  OBVIOUS
<1>2. PICK m \in bad : \A l \in bad : m <= l
  <2> HIDE DEF bad
  <2> QED  BY <1>1, LeastNatural
<1>3. CASE m = 0
  <2> DEFINE g == [k \in 0 .. 0 |-> a]
  <2>1. Runs(g, 0)
    OBVIOUS
  <2> QED  BY <1>2, <1>3, <2>1
<1>4. CASE m # 0
  <2>1. m - 1 \in 0 .. n /\ m \in 1 .. n /\ m - 1 \notin bad
    BY <1>2, <1>4
  <2>2. PICK g : Runs(g, m - 1)
    BY <2>1
  <2> DEFINE h == [k \in 0 .. m |-> IF k = m THEN op[m][g[m - 1]] ELSE g[k]]
  <2>3. \A k \in 0 .. m : h[k] = IF k = 0 THEN a ELSE op[k][h[k - 1]]
    <3> TAKE k \in 0 .. m
    <3>1. CASE k = m
      BY <2>1, <3>1
    <3>2. CASE k # m
      <4>1. k \in 0 .. m - 1 /\ (k # 0 => k - 1 \in 0 .. m - 1 /\ k - 1 # m)
        BY <2>1, <3>2
      <4>2. g[k] = IF k = 0 THEN a ELSE op[k][g[k - 1]]
        BY <2>2, <4>1
      <4> QED  BY <2>1, <4>1, <4>2
    <3> QED  BY <3>1, <3>2
  <2>4. Runs(h, m)
    <3>1. h = [k \in 0 .. m |-> h[k]]
      OBVIOUS
    <3> HIDE DEF h
    <3> QED  BY <2>3, <3>1
  <2> QED  BY <1>2, <2>4
<1> QED  BY <1>3, <1>4

-----------------------------------------------------------------------------
(* What is behind a cell.                                                   *)

All == Cells \cup Outside
Closed(reading, ps) == \A q \in ps \cap Cells : reading[q] \subseteq ps
Least(reading, ps) == {x \in All : \A C \in SUBSET All : ps \subseteq C /\ Closed(reading, C) => x \in C}

LEMMA LeastIs ==
    ASSUME NEW reading \in [Cells -> SUBSET All], NEW ps \in SUBSET All
    PROVE  /\ Least(reading, ps) \in SUBSET All
           /\ ps \subseteq Least(reading, ps)
           /\ Closed(reading, Least(reading, ps))
           /\ \A C \in SUBSET All : ps \subseteq C /\ Closed(reading, C) => Least(reading, ps) \subseteq C
<1>1. Closed(reading, Least(reading, ps))
  <2> SUFFICES ASSUME NEW q \in Least(reading, ps) \cap Cells, NEW x \in reading[q],
                      NEW C \in SUBSET All, ps \subseteq C, Closed(reading, C)
               PROVE  x \in All /\ x \in C
    BY DEF Closed, Least
  <2>1. q \in C
    BY DEF Least
  <2> QED  BY <2>1 DEF Closed
<1> QED  BY <1>1 DEF Least

LEMMA ClosureIs ==
    ASSUME NEW reading \in [Cells -> SUBSET All], NEW ps \in SUBSET All
    PROVE  Closure(reading, ps) = Least(reading, ps)
<1> DEFINE More(qs) == qs \cup UNION {reading[q] : q \in qs \cap Cells}
           Goes(g) == g = [qs \in SUBSET All |-> IF More(qs) = qs THEN qs ELSE g[More(qs)]]
           back == CHOOSE g : Goes(g)
<1>1. Closure(reading, ps) = back[ps]
  BY DEF Closure, All
<1>2. \A qs \in SUBSET All : /\ More(qs) \in SUBSET All
                             /\ qs \subseteq More(qs)
                             /\ More(qs) = qs => Closed(reading, qs)
                             /\ More(qs) \subseteq Least(reading, qs)
  <2> SUFFICES ASSUME NEW qs \in SUBSET All
               PROVE  /\ More(qs) \in SUBSET All
                      /\ qs \subseteq More(qs)
                      /\ More(qs) = qs => Closed(reading, qs)
                      /\ More(qs) \subseteq Least(reading, qs)
    OBVIOUS
  <2>1. More(qs) \in SUBSET All /\ qs \subseteq More(qs)
    OBVIOUS
  <2>2. More(qs) = qs => Closed(reading, qs)
    BY DEF Closed
  <2>3. More(qs) \subseteq Least(reading, qs)
    <3>1. qs \subseteq Least(reading, qs) /\ Closed(reading, Least(reading, qs))
      BY LeastIs
    <3> QED  BY <3>1 DEF Closed
  <2> QED  BY <2>1, <2>2, <2>3
<1>3. \A qs \in SUBSET All : Least(reading, More(qs)) = Least(reading, qs)
  <2> SUFFICES ASSUME NEW qs \in SUBSET All PROVE Least(reading, More(qs)) = Least(reading, qs)
    OBVIOUS
  <2> DEFINE ms == More(qs)
  <2>1. ms \in SUBSET All /\ qs \subseteq ms /\ ms \subseteq Least(reading, qs)
    BY <1>2
  <2> HIDE DEF ms
  <2>2. Least(reading, qs) \subseteq Least(reading, ms)
    BY <2>1, LeastIs
  <2>3. Least(reading, ms) \subseteq Least(reading, qs)
    BY <2>1, LeastIs
  <2> QED  BY <2>2, <2>3 DEF ms
<1>4. \A qs \in SUBSET All : Closed(reading, qs) => Least(reading, qs) = qs
  BY LeastIs
<1>5. Goes(back)
  <2> DEFINE F == [qs \in SUBSET All |-> Least(reading, qs)]
  <2>1. \A qs \in SUBSET All : F[qs] = IF More(qs) = qs THEN qs ELSE F[More(qs)]
    <3> SUFFICES ASSUME NEW qs \in SUBSET All
                 PROVE  F[qs] = IF More(qs) = qs THEN qs ELSE F[More(qs)]
      OBVIOUS
    <3>1. More(qs) \in SUBSET All /\ (More(qs) = qs => Closed(reading, qs))
      BY <1>2
    <3> HIDE DEF More
    <3> QED  BY <1>3, <1>4, <3>1
  <2>2. F = [qs \in SUBSET All |-> F[qs]]
    OBVIOUS
  <2>3. Goes(F)
    <3> HIDE DEF F, More
    <3> QED  BY <2>1, <2>2
  <2> HIDE DEF Goes
  <2> QED  BY <2>3
<1> HIDE DEF back
<1> DEFINE size(qs) == Cardinality(All \ qs)
           bad == {n \in Nat : \E qs \in SUBSET All : size(qs) = n /\ back[qs] # Least(reading, qs)}
<1>6. bad = {}
  <2> SUFFICES ASSUME bad # {} PROVE FALSE
    OBVIOUS
  <2>1. PICK n \in bad : \A m \in bad : n <= m
    <3>1. bad \in SUBSET Nat
      OBVIOUS
    <3> HIDE DEF bad
    <3> QED  BY <3>1, LeastNatural
  <2>2. PICK qs \in SUBSET All : size(qs) = n /\ back[qs] # Least(reading, qs)
    BY <2>1
  <2>3. back[qs] = IF More(qs) = qs THEN qs ELSE back[More(qs)]
    BY <1>5
  <2>4. More(qs) # qs /\ back[qs] = back[More(qs)]
    <3> HIDE DEF More
    <3> QED  BY <1>2, <1>4, <2>2, <2>3
  <2> DEFINE ms == More(qs)
  <2>5. ms \in SUBSET All /\ qs \subseteq ms /\ ms # qs
    BY <1>2, <2>4
  <2>6. back[ms] # Least(reading, ms)
    <3> HIDE DEF More
    <3> QED  BY <1>3, <2>2, <2>4
  <2> HIDE DEF ms
  <2>7. size(ms) \in Nat /\ size(ms) < n
    <3>1. IsFiniteSet(All \ qs)
      BY CellsAssumption, FS_Difference DEF All
    <3>2. All \ ms \subseteq All \ qs /\ All \ ms # All \ qs
      BY <2>5
    <3>3. Cardinality(All \ ms) \in Nat /\ Cardinality(All \ ms) < Cardinality(All \ qs)
      <4>1. Cardinality(All \ ms) <= Cardinality(All \ qs) /\ IsFiniteSet(All \ ms)
            /\ (Cardinality(All \ ms) = Cardinality(All \ qs) => All \ ms = All \ qs)
        BY <3>1, <3>2, FS_Subset
      <4>2. Cardinality(All \ ms) \in Nat /\ Cardinality(All \ qs) \in Nat
        BY <3>1, <4>1, FS_CardinalityType
      <4> QED  BY <3>2, <4>1, <4>2
    <3> QED  BY <2>2, <3>3
  <2>8. size(ms) \in bad
    BY <2>5, <2>6, <2>7
  <2>9. n \in Nat
    BY <2>1
  <2> HIDE DEF size, bad
  <2> QED  BY <2>1, <2>7, <2>8, <2>9
<1>7. size(ps) \in Nat
  <2>1. IsFiniteSet(All \ ps)
    BY CellsAssumption, FS_Difference DEF All
  <2> QED  BY <2>1, FS_CardinalityType
<1> QED  BY <1>1, <1>6, <1>7

\* Behind a cell is what it reads, and what is behind that.
LEMMA BehindIs ==
    ASSUME NEW reading \in [Cells -> SUBSET All], NEW p \in Cells
    PROVE  /\ Closure(reading, reading[p]) \in SUBSET All
           /\ reading[p] \subseteq Closure(reading, reading[p])
           /\ \A q \in Closure(reading, reading[p]) \cap Cells :
                 Closure(reading, reading[q]) \subseteq Closure(reading, reading[p])
<1>1. reading[p] \in SUBSET All
  OBVIOUS
<1>2. Closure(reading, reading[p]) = Least(reading, reading[p])
  BY <1>1, ClosureIs
<1>3. ASSUME NEW q \in Closure(reading, reading[p]) \cap Cells
      PROVE  Closure(reading, reading[q]) \subseteq Closure(reading, reading[p])
  <2>1. reading[q] \in SUBSET All
    OBVIOUS
  <2>2. Closure(reading, reading[q]) = Least(reading, reading[q])
    BY <2>1, ClosureIs
  <2>3. reading[q] \subseteq Least(reading, reading[p])
    BY <1>1, <1>2, <1>3, LeastIs DEF Closed
  <2> QED  BY <1>1, <1>2, <2>1, <2>2, <2>3, LeastIs
<1> QED  BY <1>1, <1>2, <1>3, LeastIs
-----------------------------------------------------------------------------
(* The search.                                                              *)

Visits == [Cells -> [Searches -> Searches]]
Listing == [Cells -> Seq(Cells)]

\* What a visit does in between.
Enters(s, ref) ==
    [sorted |-> s.sorted,
     cycled |-> IF ref \in s.stack THEN s.cycled \cup s.stack ELSE s.cycled,
     visited |-> s.visited \cup {ref},
     stack |-> s.stack \cup {ref}]
Leaves(s, ref, b) ==
    IF ref \in s.visited
    THEN [sorted |-> s.sorted, cycled |-> Enters(s, ref).cycled,
          visited |-> s.visited, stack |-> Enters(s, ref).stack \ {ref}]
    ELSE [sorted |-> <<ref>> \o b.sorted, cycled |-> b.cycled,
          visited |-> b.visited, stack |-> b.stack \ {ref}]
Descends(s, ref, calls, dfs, below) ==
    /\ below[0] = Enters(s, ref)
    /\ \A k \in 1 .. Len(calls) : below[k] = dfs[calls[k]][below[k - 1]]
    /\ \A k \in 0 .. Len(calls) : below[k] \in Searches

LEMMA VisitIs ==
    ASSUME NEW dependants \in Listing, NEW dfs \in Visits, NEW s \in Searches, NEW ref \in Cells
    PROVE  \E below : /\ Descends(s, ref, dependants[ref], dfs, below)
                      /\ Visit(s, ref, dependants, dfs) =
                            Leaves(s, ref, below[Len(dependants[ref])])
<1> DEFINE marked == IF ref \in s.stack THEN [s EXCEPT !.cycled = @ \cup s.stack] ELSE s
           entered == [marked EXCEPT !.stack = @ \cup {ref}]
           calls == dependants[ref]
           N == Len(calls)
           first == [entered EXCEPT !.visited = @ \cup {ref}]
           Goes(g) == g = [n \in 0 .. N |-> IF n = 0 THEN first ELSE dfs[calls[n]][g[n - 1]]]
           below == CHOOSE g : Goes(g)
<1>1. N \in Nat /\ \A k \in 1 .. N : calls[k] \in Cells
  BY DEF Listing
<1>2. /\ first = Enters(s, ref)
      /\ first \in Searches
      /\ entered = [sorted |-> s.sorted, cycled |-> first.cycled,
                    visited |-> s.visited, stack |-> first.stack]
  <2>1. s = [sorted |-> s.sorted, cycled |-> s.cycled, visited |-> s.visited, stack |-> s.stack]
    BY DEF Searches
  <2>2. marked = [sorted |-> s.sorted,
                  cycled |-> IF ref \in s.stack THEN s.cycled \cup s.stack ELSE s.cycled,
                  visited |-> s.visited, stack |-> s.stack]
    BY <2>1
  <2> HIDE DEF marked
  <2>3. entered = [sorted |-> s.sorted,
                   cycled |-> IF ref \in s.stack THEN s.cycled \cup s.stack ELSE s.cycled,
                   visited |-> s.visited, stack |-> s.stack \cup {ref}]
    BY <2>2
  <2> HIDE DEF entered
  <2>4. first = Enters(s, ref)
    <3> DEFINE c == IF ref \in s.stack THEN s.cycled \cup s.stack ELSE s.cycled
               t == s.stack \cup {ref}
    <3> HIDE DEF c, t
    <3>1. entered = [sorted |-> s.sorted, cycled |-> c, visited |-> s.visited, stack |-> t]
      BY <2>3 DEF c, t
    <3>2. first = [sorted |-> s.sorted, cycled |-> c, visited |-> s.visited \cup {ref}, stack |-> t]
      BY <3>1
    <3> HIDE DEF first
    <3> QED  BY <3>2 DEF Enters, c, t
  <2>5. Enters(s, ref) \in Searches
    BY DEF Enters, Searches
  <2> QED  BY <2>3, <2>4, <2>5 DEF Enters
<1>3. Visit(s, ref, dependants, dfs) =
         [(IF ref \in s.visited THEN entered
           ELSE [below[N] EXCEPT !.sorted = <<ref>> \o @]) EXCEPT !.stack = @ \ {ref}]
  BY DEF Visit
<1> HIDE DEF first, entered, N, calls
<1>4. \E g : Goes(g)
  <2> DEFINE op == [k \in 1 .. N |-> [x \in Searches |-> dfs[calls[k]][x]]]
             S == [k \in 0 .. N |-> Searches]
  <2>1. \A k \in 1 .. N : \A x \in S[k - 1] : op[k][x] = dfs[calls[k]][x] /\ op[k][x] \in S[k]
    BY <1>1 DEF Visits
  <2>2. first \in S[0] /\ N \in Nat
    BY <1>1, <1>2
  <2> HIDE DEF op, S
  <2>7. \A k \in 1 .. N : \A x \in S[k - 1] : op[k][x] \in S[k]
    BY <2>1
  <2>8. PICK g : Loop(g, N, first, op)
    BY <2>2, <2>7, LoopRuns
  <2>3. g = [k \in 0 .. N |-> IF k = 0 THEN first ELSE op[k][g[k - 1]]]
    BY <2>8 DEF Loop
  <2>4. \A k \in 0 .. N : g[k] \in S[k]
    <3>1. g[0] \in S[0] /\ \A k \in 1 .. N : g[k - 1] \in S[k - 1] => g[k] \in S[k]
      BY <2>1, <2>2, <2>3
    <3> QED  BY <2>2, <3>1, LoopStays
  <2>5. \A k \in 1 .. N : k - 1 \in 0 .. N /\ op[k][g[k - 1]] = dfs[calls[k]][g[k - 1]]
    BY <2>1, <2>2, <2>4
  <2>6. Goes(g)
    BY <2>3, <2>5
  <2> QED  BY <2>6
<1>5. Goes(below)
  <2> HIDE DEF Goes
  <2> QED  BY <1>4
<1> HIDE DEF below
<1>6. below[0] = first /\ \A k \in 1 .. N : below[k] = dfs[calls[k]][below[k - 1]]
  BY <1>1, <1>5
<1>7. \A k \in 0 .. N : below[k] \in Searches
  <2> DEFINE S == [k \in 0 .. N |-> Searches]
  <2>1. \A k \in 1 .. N : below[k - 1] \in S[k - 1] => below[k] \in S[k]
    BY <1>1, <1>6 DEF Visits
  <2>2. below[0] \in S[0]
    BY <1>1, <1>2, <1>6
  <2> HIDE DEF S
  <2>3. \A k \in 0 .. N : below[k] \in S[k]
    BY <1>1, <2>1, <2>2, LoopStays
  <2> QED  BY <2>3 DEF S
<1>8. Visit(s, ref, dependants, dfs) = Leaves(s, ref, below[N])
  <2>1. CASE ref \in s.visited
    BY <1>2, <1>3, <2>1 DEF Leaves
  <2>2. CASE ref \notin s.visited
    <3> DEFINE b == below[N]
    <3>1. b \in Searches
      BY <1>1, <1>7
    <3>2. Visit(s, ref, dependants, dfs) = [[b EXCEPT !.sorted = <<ref>> \o @] EXCEPT !.stack = @ \ {ref}]
      BY <1>3, <2>2
    <3> HIDE DEF b
    <3>3. b = [sorted |-> b.sorted, cycled |-> b.cycled, visited |-> b.visited, stack |-> b.stack]
      BY <3>1 DEF Searches
    <3> QED  BY <2>2, <3>2, <3>3 DEF Leaves, b
  <2> QED  BY <2>1, <2>2
<1>9. Descends(s, ref, calls, dfs, below)
  BY <1>2, <1>6, <1>7 DEF Descends, N
<1> QED  BY <1>8, <1>9 DEF calls, N

LEMMA VisitSearches ==
    ASSUME NEW dependants \in Listing, NEW dfs \in Visits, NEW s \in Searches, NEW ref \in Cells
    PROVE  Visit(s, ref, dependants, dfs) \in Searches
<1> DEFINE calls == dependants[ref]
           v == Visit(s, ref, dependants, dfs)
<1>1. PICK below : Descends(s, ref, calls, dfs, below) /\ v = Leaves(s, ref, below[Len(calls)])
  BY VisitIs
<1>2. Len(calls) \in Nat
  BY DEF Listing
<1> HIDE DEF calls, v
<1>3. ASSUME NEW b \in Searches PROVE Leaves(s, ref, b) \in Searches
  <2>1. <<ref>> \o b.sorted \in Seq(Cells)
    BY DEF Searches
  <2> QED  BY <2>1 DEF Searches, Leaves, Enters
<1>4. below[Len(calls)] \in Searches
  BY <1>1, <1>2 DEF Descends
<1> QED  BY <1>1, <1>3, <1>4 DEF v

\* No cell is behind itself.  Every dependant of a cell reads it.
Uncircled(reading) == \A p \in Cells : p \notin Closure(reading, reading[p])
Graph(reading, dependants) ==
    /\ reading \in [Cells -> SUBSET All]
    /\ dependants \in Listing
    /\ \A p \in Cells : \A k \in DOMAIN dependants[p] : p \in reading[dependants[p][k]]

\* What is sorted comes before its dependants that are not marked.
Ordered(dependants, s) ==
    \A i \in 1 .. Len(s.sorted) : \A k \in DOMAIN dependants[s.sorted[i]] :
        \/ dependants[s.sorted[i]][k] \in s.cycled
        \/ \E j \in 1 .. Len(s.sorted) : j > i /\ s.sorted[j] = dependants[s.sorted[i]][k]
\* The search is below the cells of path, of which those it has met again are marked and
\* no longer on the stack.
Below(dependants, s, path) ==
    /\ s.visited = path \cup Elements(s.sorted) /\ path \cap Elements(s.sorted) = {}
    /\ s.stack \subseteq path /\ path \subseteq s.stack \cup s.cycled
    /\ s.cycled \subseteq s.visited
    /\ Ordered(dependants, s)

\* From s, a visit of ref that may go on for d visits ends in t.
Finds(dependants, s, ref, d, t) ==
    \A path \in SUBSET Cells :
        Below(dependants, s, path) /\ Cardinality(Cells \ s.visited) < d =>
            /\ Below(dependants, t, path)
            /\ Elements(s.sorted) \subseteq Elements(t.sorted) /\ s.cycled \subseteq t.cycled
            /\ ref \in Elements(t.sorted) \cup t.cycled
Sound(dependants, dfs, d) ==
    \A s \in Searches, ref \in Cells : Finds(dependants, s, ref, d, dfs[ref][s])

\* Below a cell that is visited for the first time.
Deeper(dependants, s, ref, path, n, x) ==
    /\ x \in Searches
    /\ Below(dependants, x, path \cup {ref})
    /\ Elements(s.sorted) \subseteq Elements(x.sorted) /\ s.cycled \subseteq x.cycled
    /\ \A k \in 1 .. n : dependants[ref][k] \in Elements(x.sorted) \cup x.cycled

LEMMA DeeperStarts ==
    ASSUME NEW dependants \in Listing, NEW s \in Searches, NEW ref \in Cells,
           NEW path \in SUBSET Cells, Below(dependants, s, path), ref \notin s.visited
    PROVE  Deeper(dependants, s, ref, path, 0, Enters(s, ref))
<1> DEFINE x == Enters(s, ref)
<1>1. ref \notin s.stack
  BY DEF Below
<1>2. x \in Searches /\ x.stack = s.stack \cup {ref} /\ x.cycled = s.cycled
      /\ x.visited = s.visited \cup {ref} /\ x.sorted = s.sorted
  BY <1>1 DEF Enters, Searches
<1> HIDE DEF x
<1>3. Ordered(dependants, x)
  BY <1>2 DEF Ordered, Below
<1>4. Below(dependants, x, path \cup {ref})
  BY <1>2, <1>3 DEF Below
<1> QED  BY <1>2, <1>4 DEF Deeper, x

LEMMA DeeperGoes ==
    ASSUME NEW dependants \in Listing, NEW dfs \in Visits,
           NEW d \in Nat, Sound(dependants, dfs, d),
           NEW s \in Searches, NEW ref \in Cells, ref \notin s.visited,
           NEW path \in SUBSET Cells, Below(dependants, s, path),
           Cardinality(Cells \ s.visited) < d + 1,
           NEW n \in 1 .. Len(dependants[ref]), NEW x, Deeper(dependants, s, ref, path, n - 1, x)
    PROVE  Deeper(dependants, s, ref, path, n, dfs[dependants[ref][n]][x])
<1> DEFINE q == dependants[ref][n]
           y == dfs[q][x]
           on == path \cup {ref}
<1>1. q \in Cells /\ x \in Searches /\ y \in Searches
  <2>1. dependants[ref] \in Seq(Cells) /\ DOMAIN dependants[ref] = 1 .. Len(dependants[ref])
    BY DEF Listing
  <2>2. q \in Cells
    BY <2>1
  <2> QED  BY <2>2 DEF Deeper, Visits
<1>2. Finds(dependants, x, q, d, y)
  <2> HIDE DEF q
  <2> QED  BY <1>1 DEF Sound, y
<1>3. Below(dependants, x, on) /\ on \in SUBSET Cells
  BY DEF Deeper
<1>4. Cardinality(Cells \ x.visited) < d
  <2>1. IsFiniteSet(Cells \ s.visited)
    BY CellsAssumption, FS_Difference, FS_Subset
  <2>2. Cells \ x.visited \subseteq Cells \ s.visited /\ ref \in Cells \ s.visited
        /\ ref \notin Cells \ x.visited
    BY DEF Deeper, Below
  <2>3. Cardinality(Cells \ x.visited) <= Cardinality(Cells \ s.visited)
        /\ IsFiniteSet(Cells \ x.visited)
        /\ Cardinality(Cells \ x.visited) # Cardinality(Cells \ s.visited)
    BY <2>1, <2>2, FS_Subset
  <2>4. Cardinality(Cells \ x.visited) \in Nat /\ Cardinality(Cells \ s.visited) \in Nat
    BY <2>1, <2>3, FS_CardinalityType
  <2> QED  BY <2>3, <2>4
<1> HIDE DEF q, y, on
<1>5. \A k \in 1 .. n : k \in 1 .. n - 1 \/ k = n
  BY DEF Listing
<1>6. /\ Below(dependants, y, on)
      /\ Elements(x.sorted) \subseteq Elements(y.sorted) /\ x.cycled \subseteq y.cycled
      /\ q \in Elements(y.sorted) \cup y.cycled
  BY <1>2, <1>3, <1>4 DEF Finds
<1>7. \A k \in 1 .. n : dependants[ref][k] \in Elements(y.sorted) \cup y.cycled
  BY <1>5, <1>6 DEF Deeper, q
<1> QED  BY <1>1, <1>6, <1>7 DEF Deeper, q, y, on

\* Leaving a cell whose dependants are all visited.
LEMMA LeavesBelow ==
    ASSUME NEW dependants \in Listing, NEW s \in Searches, NEW ref \in Cells,
           NEW path \in SUBSET Cells, Below(dependants, s, path), ref \notin s.visited,
           NEW b, Deeper(dependants, s, ref, path, Len(dependants[ref]), b)
    PROVE  LET t == Leaves(s, ref, b)
           IN  /\ Below(dependants, t, path)
               /\ Elements(s.sorted) \subseteq Elements(t.sorted) /\ s.cycled \subseteq t.cycled
               /\ ref \in Elements(t.sorted)
<1> DEFINE t == Leaves(s, ref, b)
           calls == dependants[ref]
<1>1. /\ t.sorted = <<ref>> \o b.sorted /\ t.visited = b.visited /\ t.cycled = b.cycled
      /\ t.stack = b.stack \ {ref} /\ b.sorted \in Seq(Cells)
      /\ Below(dependants, b, path \cup {ref})
      /\ Elements(s.sorted) \subseteq Elements(b.sorted) /\ s.cycled \subseteq b.cycled
      /\ \A k \in 1 .. Len(calls) : calls[k] \in Elements(b.sorted) \cup b.cycled
  BY DEF Deeper, Leaves, Searches
<1>2. calls \in Seq(Cells) /\ DOMAIN calls = 1 .. Len(calls)
  BY DEF Listing
<1>3. ref \notin path
  BY DEF Below
<1> HIDE DEF t, calls
<1>4. /\ Len(t.sorted) = Len(b.sorted) + 1 /\ t.sorted[1] = ref
      /\ \A i \in 1 .. Len(b.sorted) : t.sorted[i + 1] = b.sorted[i]
      /\ Elements(t.sorted) = {ref} \cup Elements(b.sorted)
      /\ Len(b.sorted) \in Nat
  <2>1. /\ Len(t.sorted) = Len(b.sorted) + 1 /\ t.sorted[1] = ref
        /\ \A i \in 1 .. Len(b.sorted) : t.sorted[i + 1] = b.sorted[i]
        /\ Len(b.sorted) \in Nat /\ DOMAIN b.sorted = 1 .. Len(b.sorted)
        /\ DOMAIN t.sorted = 1 .. Len(b.sorted) + 1
    BY <1>1
  <2>2. \A i \in 1 .. Len(b.sorted) + 1 : i = 1 \/ \E j \in 1 .. Len(b.sorted) : i = j + 1
    <3> TAKE i \in 1 .. Len(b.sorted) + 1
    <3>1. i = 1 \/ (i - 1 \in 1 .. Len(b.sorted) /\ i = i - 1 + 1)
      BY <2>1
    <3> QED  BY <3>1
  <2>3. \A i \in 1 .. Len(b.sorted) : i + 1 \in 1 .. Len(b.sorted) + 1
    BY <2>1
  <2>4. 1 \in 1 .. Len(b.sorted) + 1
    BY <2>1
  <2>5. \A x : x \in Elements(t.sorted) => x = ref \/ x \in Elements(b.sorted)
    <3> SUFFICES ASSUME NEW i \in 1 .. Len(b.sorted) + 1
                 PROVE  t.sorted[i] = ref \/ t.sorted[i] \in Elements(b.sorted)
      BY <2>1 DEF Elements
    <3>1. CASE i = 1
      BY <2>1, <3>1
    <3>2. CASE i # 1
      <4>1. PICK j \in 1 .. Len(b.sorted) : i = j + 1
        BY <2>2, <3>2
      <4> QED  BY <2>1, <4>1 DEF Elements
    <3> QED  BY <3>1, <3>2
  <2>6. ref \in Elements(t.sorted)
    BY <2>1, <2>4 DEF Elements
  <2>7. \A x \in Elements(b.sorted) : x \in Elements(t.sorted)
    BY <2>1, <2>3 DEF Elements
  <2> QED  BY <2>1, <2>5, <2>6, <2>7
<1>5. /\ t.visited = path \cup Elements(t.sorted) /\ path \cap Elements(t.sorted) = {}
      /\ t.stack \subseteq path /\ path \subseteq t.stack \cup t.cycled
      /\ t.cycled \subseteq t.visited
  <2>1. /\ b.visited = path \cup {ref} \cup Elements(b.sorted)
        /\ (path \cup {ref}) \cap Elements(b.sorted) = {}
        /\ b.stack \subseteq path \cup {ref} /\ path \cup {ref} \subseteq b.stack \cup b.cycled
        /\ b.cycled \subseteq b.visited
    BY <1>1 DEF Below
  <2> QED  BY <1>1, <1>3, <1>4, <2>1
<1>6. Ordered(dependants, t)
  <2> SUFFICES ASSUME NEW i \in 1 .. Len(t.sorted), NEW k \in DOMAIN dependants[t.sorted[i]],
                      dependants[t.sorted[i]][k] \notin t.cycled
               PROVE  \E j \in 1 .. Len(t.sorted) : j > i /\ t.sorted[j] = dependants[t.sorted[i]][k]
    BY DEF Ordered
  <2>1. CASE i = 1
    <3>1. PICK j \in DOMAIN b.sorted : b.sorted[j] = calls[k]
      BY <1>1, <1>2, <1>4, <2>1 DEF Elements, calls
    <3>2. j \in 1 .. Len(b.sorted)
      BY <1>1, <3>1
    <3>3. j + 1 \in 1 .. Len(t.sorted) /\ j + 1 > i /\ t.sorted[j + 1] = calls[k]
      BY <1>4, <2>1, <3>1, <3>2
    <3> QED  BY <1>4, <2>1, <3>3 DEF calls
  <2>2. CASE i # 1
    <3>1. i - 1 \in 1 .. Len(b.sorted) /\ t.sorted[i] = b.sorted[i - 1]
      <4>1. i - 1 \in 1 .. Len(b.sorted) /\ i = (i - 1) + 1
        BY <1>4, <2>2
      <4> QED  BY <1>4, <4>1
    <3>2. PICK j \in 1 .. Len(b.sorted) : j > i - 1 /\ b.sorted[j] = dependants[t.sorted[i]][k]
      <4> DEFINE m == i - 1
      <4>1. m \in 1 .. Len(b.sorted) /\ t.sorted[i] = b.sorted[m] /\ m = i - 1
        BY <3>1
      <4> HIDE DEF m
      <4>2. k \in DOMAIN dependants[b.sorted[m]] /\ dependants[b.sorted[m]][k] \notin b.cycled
        BY <1>1, <4>1
      <4>3. \E j \in 1 .. Len(b.sorted) : j > m /\ b.sorted[j] = dependants[b.sorted[m]][k]
        BY <1>1, <4>1, <4>2 DEF Ordered, Below
      <4> QED  BY <4>1, <4>3
    <3>3. j + 1 \in 1 .. Len(t.sorted) /\ j + 1 > i /\ t.sorted[j + 1] = b.sorted[j]
      BY <1>4, <3>2
    <3> QED  BY <3>2, <3>3
  <2> QED  BY <2>1, <2>2
<1>7. Below(dependants, t, path)
  BY <1>5, <1>6 DEF Below
<1> QED  BY <1>1, <1>4, <1>7 DEF t

\* A cell met again is marked if the search is below it, and else sorted already.
LEMMA AgainBelow ==
    ASSUME NEW dependants \in Listing, NEW s \in Searches, NEW ref \in Cells,
           NEW path \in SUBSET Cells, Below(dependants, s, path), ref \in s.visited, NEW b
    PROVE  LET t == Leaves(s, ref, b)
           IN  /\ Below(dependants, t, path)
               /\ t.sorted = s.sorted /\ s.cycled \subseteq t.cycled
               /\ ref \in Elements(t.sorted) \cup t.cycled
<1> DEFINE t == Leaves(s, ref, b)
<1>1. /\ t.sorted = s.sorted /\ t.visited = s.visited
      /\ t.cycled = IF ref \in s.stack THEN s.cycled \cup s.stack ELSE s.cycled
      /\ t.stack = s.stack \ {ref}
  <2>1. (s.stack \cup {ref}) \ {ref} = s.stack \ {ref}
    OBVIOUS
  <2> QED  BY <2>1 DEF Leaves, Enters
<1> HIDE DEF t
<1>2. Ordered(dependants, t)
  BY <1>1 DEF Ordered, Below
<1>3. Below(dependants, t, path)
  <2>1. CASE ref \in s.stack
    BY <1>1, <1>2, <2>1 DEF Below
  <2>2. CASE ref \notin s.stack
    BY <1>1, <1>2, <2>2 DEF Below
  <2> QED  BY <2>1, <2>2
<1>4. ref \in Elements(t.sorted) \cup t.cycled
  BY <1>1 DEF Below
<1> QED  BY <1>1, <1>3, <1>4 DEF t

LEMMA VisitSound ==
    ASSUME NEW dependants \in Listing, NEW dfs \in Visits, NEW d \in Nat,
           Sound(dependants, dfs, d), NEW s \in Searches, NEW ref \in Cells
    PROVE  Finds(dependants, s, ref, d + 1, Visit(s, ref, dependants, dfs))
<1> DEFINE calls == dependants[ref]
           N == Len(calls)
           t == Visit(s, ref, dependants, dfs)
<1>1. N \in Nat
  BY DEF Listing
<1>2. PICK below : Descends(s, ref, calls, dfs, below) /\ t = Leaves(s, ref, below[N])
  BY VisitIs
<1> HIDE DEF t
<1> SUFFICES ASSUME NEW path \in SUBSET Cells, Below(dependants, s, path),
                    Cardinality(Cells \ s.visited) < d + 1
             PROVE  /\ Below(dependants, t, path)
                    /\ Elements(s.sorted) \subseteq Elements(t.sorted) /\ s.cycled \subseteq t.cycled
                    /\ ref \in Elements(t.sorted) \cup t.cycled
  BY DEF Finds, t
<1>3. CASE ref \in s.visited
  BY <1>2, <1>3, AgainBelow
<1>4. CASE ref \notin s.visited
  <2> DEFINE S == [k \in 0 .. N |-> {x \in Searches : Deeper(dependants, s, ref, path, k, x)}]
  <2>1. below[0] \in S[0]
    <3>1. below[0] = Enters(s, ref) /\ below[0] \in Searches
      BY <1>1, <1>2 DEF Descends
    <3> QED  BY <1>1, <1>4, <3>1, DeeperStarts
  <2>2. \A k \in 1 .. N : below[k - 1] \in S[k - 1] => below[k] \in S[k]
    <3> SUFFICES ASSUME NEW k \in 1 .. N, Deeper(dependants, s, ref, path, k - 1, below[k - 1])
                 PROVE  below[k] \in Searches /\ Deeper(dependants, s, ref, path, k, below[k])
      BY <1>1
    <3>1. below[k] = dfs[calls[k]][below[k - 1]] /\ below[k] \in Searches
      BY <1>1, <1>2 DEF Descends
    <3> QED  BY <1>4, <3>1, DeeperGoes
  <2> HIDE DEF S
  <2>3. below[N] \in S[N]
    <3> HIDE DEF N
    <3>1. N \in Nat
      BY <1>1
    <3>2. \A k \in 0 .. N : below[k] \in S[k]
      BY <2>1, <2>2, <3>1, LoopStays
    <3> QED  BY <3>1, <3>2
  <2>4. Deeper(dependants, s, ref, path, Len(dependants[ref]), below[N])
    BY <1>1, <2>3 DEF S
  <2> DEFINE b == below[N]
  <2> HIDE DEF b
  <2>5. t = Leaves(s, ref, b) /\ Deeper(dependants, s, ref, path, Len(dependants[ref]), b)
    BY <1>2, <2>4 DEF b
  <2> QED  BY <1>4, <2>5, LeavesBelow
<1> QED  BY <1>3, <1>4

\* Where no cell is behind itself, a visit marks nothing and leaves the stack as it was.
OnPath(reading, s, ref) == \A t \in s.stack : t \in Closure(reading, reading[ref])
Straight(reading, dfs) ==
    \A s \in Searches, ref \in Cells :
        OnPath(reading, s, ref) =>
            dfs[ref][s].stack = s.stack /\ dfs[ref][s].cycled = s.cycled

LEMMA VisitStraight ==
    ASSUME NEW reading, NEW dependants, Graph(reading, dependants), Uncircled(reading),
           NEW dfs \in Visits, Straight(reading, dfs),
           NEW s \in Searches, NEW ref \in Cells, OnPath(reading, s, ref)
    PROVE  LET t == Visit(s, ref, dependants, dfs) IN t.stack = s.stack /\ t.cycled = s.cycled
<1> DEFINE calls == dependants[ref]
           N == Len(calls)
           t == Visit(s, ref, dependants, dfs)
           S == [k \in 0 .. N |->
                    {x \in Searches : x.stack = s.stack \cup {ref} /\ x.cycled = s.cycled}]
<1>1. dependants \in Listing /\ N \in Nat /\ reading \in [Cells -> SUBSET All]
  BY DEF Graph, Listing
<1>2. PICK below : Descends(s, ref, calls, dfs, below) /\ t = Leaves(s, ref, below[N])
  BY <1>1, VisitIs
<1>3. ref \notin s.stack
  BY DEF OnPath, Uncircled
<1> HIDE DEF t
<1>4. below[0] \in S[0]
  <2>1. below[0] = Enters(s, ref) /\ below[0] \in Searches
    BY <1>1, <1>2 DEF Descends
  <2>2. below[0].stack = s.stack \cup {ref} /\ below[0].cycled = s.cycled
    BY <1>3, <2>1 DEF Enters
  <2> QED  BY <1>1, <2>1, <2>2
<1>5. \A k \in 1 .. N : below[k - 1] \in S[k - 1] => below[k] \in S[k]
  <2> SUFFICES ASSUME NEW k \in 1 .. N, below[k - 1].stack = s.stack \cup {ref},
                      below[k - 1].cycled = s.cycled
               PROVE  /\ below[k] \in Searches
                      /\ below[k].stack = s.stack \cup {ref} /\ below[k].cycled = s.cycled
    BY <1>1
  <2> DEFINE q == calls[k]
             x == below[k - 1]
  <2>1. below[k] = dfs[q][x] /\ below[k] \in Searches /\ x \in Searches
    <3>1. k - 1 \in 0 .. N
      BY <1>1
    <3> QED  BY <1>1, <1>2, <3>1 DEF Descends
  <2>2. q \in Cells /\ ref \in reading[q]
    <3>1. calls \in Seq(Cells) /\ DOMAIN calls = 1 .. N
      BY <1>1 DEF Listing
    <3> QED  BY <3>1 DEF Graph
  <2> HIDE DEF q, x
  <2>3. OnPath(reading, x, q)
    <3>1. reading[q] \subseteq Closure(reading, reading[q])
          /\ Closure(reading, reading[ref]) \subseteq Closure(reading, reading[q])
      BY <1>1, <2>2, BehindIs
    <3>2. x.stack = s.stack \cup {ref}
      BY DEF x
    <3> QED  BY <2>2, <3>1, <3>2 DEF OnPath
  <2> QED  BY <2>1, <2>2, <2>3 DEF Straight, x
<1> HIDE DEF S, N
<1>6. below[N] \in S[N]
  <2>1. \A k \in 0 .. N : below[k] \in S[k]
    BY <1>1, <1>4, <1>5, LoopStays
  <2> QED  BY <1>1, <2>1
<1>7. below[N].stack = s.stack \cup {ref} /\ below[N].cycled = s.cycled
  BY <1>1, <1>6 DEF S
<1> QED  BY <1>2, <1>3, <1>7 DEF Leaves, Enters, t

Unsearched == [sorted |-> <<>>, cycled |-> {}, visited |-> {}, stack |-> {}]
\* The searches of all depths.
Searching(dependants, g, deepest) ==
    g = [depth \in 0 .. deepest |->
            [ref \in Cells |-> [search \in Searches |->
                IF depth = 0 THEN search ELSE Visit(search, ref, dependants, g[depth - 1])]]]

LEMMA SearchingExists ==
    ASSUME NEW dependants \in Listing, NEW deepest \in Nat
    PROVE  \E g : Searching(dependants, g, deepest)
<1> DEFINE a == [ref \in Cells |-> [search \in Searches |-> search]]
           op == [d \in 1 .. deepest |-> [dfs \in Visits |->
                     [ref \in Cells |-> [search \in Searches |->
                         Visit(search, ref, dependants, dfs)]]]]
           S == [d \in 0 .. deepest |-> Visits]
<1>1. a \in S[0]
  BY DEF Visits
<1>2. \A d \in 1 .. deepest : \A x \in S[d - 1] : op[d][x] \in S[d]
  <2>3. \A d \in 1 .. deepest : S[d - 1] = Visits /\ S[d] = Visits
    OBVIOUS
  <2> SUFFICES ASSUME NEW d \in 1 .. deepest, NEW x \in Visits PROVE op[d][x] \in Visits
    <3> HIDE DEF op, S
    <3> QED  BY <2>3
  <2>1. op[d][x] = [ref \in Cells |-> [search \in Searches |-> Visit(search, ref, dependants, x)]]
    OBVIOUS
  <2>2. \A ref \in Cells, search \in Searches : Visit(search, ref, dependants, x) \in Searches
    BY VisitSearches
  <2> HIDE DEF op
  <2> QED  BY <2>1, <2>2 DEF Visits
<1>3. PICK g : Loop(g, deepest, a, op)
  <2> HIDE DEF a, op, S
  <2> QED  BY <1>1, <1>2, LoopRuns
<1>4. /\ g = [k \in 0 .. deepest |-> g[k]]
      /\ \A k \in 0 .. deepest : g[k] = IF k = 0 THEN a ELSE op[k][g[k - 1]]
  <2> HIDE DEF a, op
  <2> QED  BY <1>3 DEF Loop
<1>5. \A k \in 0 .. deepest : g[k] \in S[k]
  <2>1. g[0] \in S[0] /\ \A d \in 1 .. deepest : g[d - 1] \in S[d - 1] => g[d] \in S[d]
    <3>1. g[0] = a /\ \A d \in 1 .. deepest : g[d] = op[d][g[d - 1]]
      <4>1. 0 \in 0 .. deepest /\ \A d \in 1 .. deepest : d \in 0 .. deepest /\ d # 0
        OBVIOUS
      <4> HIDE DEF a, op
      <4> QED  BY <1>4, <4>1
    <3> HIDE DEF a, op, S
    <3> QED  BY <1>1, <1>2, <3>1
  <2> HIDE DEF S
  <2> QED  BY <2>1, LoopStays
<1>6. \A k \in 0 .. deepest :
         g[k] = [ref \in Cells |-> [search \in Searches |->
                    IF k = 0 THEN search ELSE Visit(search, ref, dependants, g[k - 1])]]
  <2> SUFFICES ASSUME NEW k \in 0 .. deepest
               PROVE  g[k] = [ref \in Cells |-> [search \in Searches |->
                          IF k = 0 THEN search ELSE Visit(search, ref, dependants, g[k - 1])]]
    OBVIOUS
  <2>1. CASE k = 0
    <3>1. g[k] = a
      <4> HIDE DEF a, op
      <4> QED  BY <1>4, <2>1
    <3> QED  BY <2>1, <3>1
  <2>2. CASE k # 0
    <3>1. k \in 1 .. deepest /\ k - 1 \in 0 .. deepest
      BY <2>2
    <3>2. g[k] = op[k][g[k - 1]] /\ g[k - 1] \in Visits
      <4>1. g[k] = op[k][g[k - 1]]
        <5> HIDE DEF a, op
        <5> QED  BY <1>4, <2>2
      <4> QED  BY <1>5, <3>1, <4>1
    <3>3. op[k][g[k - 1]] = [ref \in Cells |-> [search \in Searches |->
                                Visit(search, ref, dependants, g[k - 1])]]
      BY <3>1, <3>2
    <3> QED  BY <2>2, <3>2, <3>3
  <2> QED  BY <2>1, <2>2
<1>7. QED
  <2>1. Searching(dependants, g, deepest)
    BY <1>4, <1>6 DEF Searching
  <2> QED  BY <2>1

LEMMA SearchingIs ==
    ASSUME NEW dependants \in Listing, NEW deepest \in Nat, NEW g,
           Searching(dependants, g, deepest)
    PROVE  /\ \A d \in 0 .. deepest : g[d] \in Visits
           /\ \A d \in 0 .. deepest : Sound(dependants, g[d], d)
           /\ \A reading : Graph(reading, dependants) /\ Uncircled(reading) =>
                 \A d \in 0 .. deepest : Straight(reading, g[d])
<1>1. \A ref \in Cells, s \in Searches : g[0][ref][s] = s
  BY DEF Searching
<1>2. \A d \in 1 .. deepest : \A ref \in Cells, s \in Searches :
         g[d][ref][s] = Visit(s, ref, dependants, g[d - 1])
  <2>1. \A d \in 1 .. deepest : d \in 0 .. deepest /\ d # 0
    OBVIOUS
  <2> SUFFICES ASSUME NEW d \in 1 .. deepest, NEW ref \in Cells, NEW s \in Searches
               PROVE  g[d][ref][s] = Visit(s, ref, dependants, g[d - 1])
    OBVIOUS
  <2>2. g[d] = [r \in Cells |-> [search \in Searches |->
                   IF d = 0 THEN search ELSE Visit(search, r, dependants, g[d - 1])]]
    BY <2>1 DEF Searching
  <2> QED  BY <2>1, <2>2
<1>3. \A d \in 0 .. deepest : /\ g[d] = [ref \in Cells |-> g[d][ref]]
                              /\ \A ref \in Cells : g[d][ref] = [s \in Searches |-> g[d][ref][s]]
  BY DEF Searching
<1>4. \A d \in 0 .. deepest : g[d] \in Visits
  <2> DEFINE S == [d \in 0 .. deepest |-> Visits]
  <2>4. ASSUME NEW d \in 0 .. deepest, \A ref \in Cells, s \in Searches : g[d][ref][s] \in Searches
        PROVE  g[d] \in Visits
    <3>1. \A ref \in Cells : g[d][ref] \in [Searches -> Searches]
      BY <1>3, <2>4
    <3> QED  BY <1>3, <3>1 DEF Visits
  <2>1. g[0] \in S[0]
    <3>1. g[0] \in Visits
      BY <1>1, <2>4
    <3> QED  BY <3>1
  <2>2. \A d \in 1 .. deepest : g[d - 1] \in S[d - 1] => g[d] \in S[d]
    <3> SUFFICES ASSUME NEW d \in 1 .. deepest, g[d - 1] \in Visits PROVE g[d] \in Visits
      OBVIOUS
    <3>1. \A ref \in Cells, s \in Searches : g[d][ref][s] \in Searches
      BY <1>2, VisitSearches
    <3>2. d \in 0 .. deepest
      OBVIOUS
    <3> QED  BY <2>4, <3>1, <3>2
  <2> HIDE DEF S
  <2>3. \A d \in 0 .. deepest : g[d] \in S[d]
    BY <2>1, <2>2, LoopStays
  <2> QED  BY <2>3 DEF S
<1>5. \A d \in 0 .. deepest : Sound(dependants, g[d], d)
  <2> DEFINE S == [d \in 0 .. deepest |-> {v \in Visits : Sound(dependants, v, d)}]
  <2>1. g[0] \in S[0]
    <3>1. \A s \in Searches : ~(Cardinality(Cells \ s.visited) < 0)
      <4> TAKE s \in Searches
      <4>1. IsFiniteSet(Cells \ s.visited)
        BY CellsAssumption, FS_Subset
      <4>2. Cardinality(Cells \ s.visited) \in Nat
        BY <4>1, FS_CardinalityType
      <4> QED  BY <4>2
    <3>2. Sound(dependants, g[0], 0)
      BY <1>1, <3>1 DEF Sound, Finds
    <3> QED  BY <1>4, <3>2
  <2>2. \A d \in 1 .. deepest : g[d - 1] \in S[d - 1] => g[d] \in S[d]
    <3> SUFFICES ASSUME NEW d \in 1 .. deepest, Sound(dependants, g[d - 1], d - 1)
                 PROVE  Sound(dependants, g[d], d)
      BY <1>4
    <3> SUFFICES ASSUME NEW s \in Searches, NEW ref \in Cells
                 PROVE  Finds(dependants, s, ref, d, g[d][ref][s])
      BY DEF Sound
    <3>1. d - 1 \in Nat /\ (d - 1) + 1 = d /\ g[d - 1] \in Visits
      BY <1>4
    <3>2. Finds(dependants, s, ref, (d - 1) + 1, Visit(s, ref, dependants, g[d - 1]))
      BY <3>1, VisitSound
    <3> QED  BY <1>2, <3>1, <3>2
  <2> HIDE DEF S
  <2>3. \A d \in 0 .. deepest : g[d] \in S[d]
    BY <2>1, <2>2, LoopStays
  <2> QED  BY <2>3 DEF S
<1>6. ASSUME NEW reading, Graph(reading, dependants), Uncircled(reading)
      PROVE  \A d \in 0 .. deepest : Straight(reading, g[d])
  <2> DEFINE S == [d \in 0 .. deepest |-> {v \in Visits : Straight(reading, v)}]
  <2>1. g[0] \in S[0]
    BY <1>1, <1>4 DEF Straight
  <2>2. \A d \in 1 .. deepest : g[d - 1] \in S[d - 1] => g[d] \in S[d]
    <3> SUFFICES ASSUME NEW d \in 1 .. deepest, Straight(reading, g[d - 1])
                 PROVE  Straight(reading, g[d])
      BY <1>4
    <3> SUFFICES ASSUME NEW s \in Searches, NEW ref \in Cells, OnPath(reading, s, ref)
                 PROVE  g[d][ref][s].stack = s.stack /\ g[d][ref][s].cycled = s.cycled
      BY DEF Straight
    <3>1. g[d - 1] \in Visits
      BY <1>4
    <3>2. LET t == Visit(s, ref, dependants, g[d - 1])
          IN  t.stack = s.stack /\ t.cycled = s.cycled
      BY <1>6, <3>1, VisitStraight
    <3> QED  BY <1>2, <3>2
  <2> HIDE DEF S
  <2>3. \A d \in 0 .. deepest : g[d] \in S[d]
    BY <2>1, <2>2, LoopStays
  <2> QED  BY <2>3 DEF S
<1> QED  BY <1>4, <1>5, <1>6

\* What a search of dependants finds: the cells it was asked for and all that depend on
\* them, each before its dependants that are not marked, and no circle where there is none.
LEMMA Sorts ==
    ASSUME NEW dependants \in Listing, NEW refs \in Seq(Cells)
    PROVE  LET search == TopologicalSort(dependants, refs)
           IN  /\ search \in Searches /\ Ordered(dependants, search)
               /\ search.cycled \subseteq Elements(search.sorted)
               /\ Elements(refs) \subseteq Elements(search.sorted)
               /\ \A reading : Graph(reading, dependants) /\ Uncircled(reading) =>
                     search.cycled = {}
<1> DEFINE deepest == Cardinality(Cells) + 1
           dfs == CHOOSE g : Searching(dependants, g, deepest)
           N == Len(refs)
           Goes(h) == h = [n \in 0 .. N |-> IF n = 0 THEN Unsearched
                                            ELSE dfs[deepest][refs[n]][h[n - 1]]]
           upTo == CHOOSE h : Goes(h)
<1>1. TopologicalSort(dependants, refs) = upTo[N]
  BY DEF TopologicalSort, Searching, Unsearched
<1>2. deepest \in Nat /\ Cardinality(Cells) < deepest
  <2>1. IsFiniteSet(Cells)
    BY CellsAssumption, FS_Subset
  <2>2. Cardinality(Cells) \in Nat
    BY <2>1, FS_CardinalityType
  <2> QED  BY <2>2
<1>3. N \in Nat /\ DOMAIN refs = 1 .. N /\ \A k \in 1 .. N : refs[k] \in Cells
  OBVIOUS
<1> HIDE DEF N, deepest
<1>4. Searching(dependants, dfs, deepest)
  BY <1>2, SearchingExists
<1> HIDE DEF dfs
<1> DEFINE visit == dfs[deepest]
<1>5. visit \in Visits
  BY <1>2, <1>4, SearchingIs
<1>6. /\ Sound(dependants, visit, deepest)
      /\ \A reading : Graph(reading, dependants) /\ Uncircled(reading) => Straight(reading, visit)
  <2>1. deepest \in 0 .. deepest
    BY <1>2
  <2> QED  BY <1>2, <1>4, <2>1, SearchingIs
<1>7. \A k \in 1 .. N, x \in Searches : visit[refs[k]][x] \in Searches
  BY <1>3, <1>5 DEF Visits
<1>8. Unsearched \in Searches
  BY DEF Unsearched, Searches
<1> HIDE DEF visit
<1>9. \E h : Goes(h)
  <2> DEFINE op == [k \in 1 .. N |-> [x \in Searches |-> visit[refs[k]][x]]]
             S == [k \in 0 .. N |-> Searches]
  <2>1. \A k \in 1 .. N : \A x \in S[k - 1] : op[k][x] = visit[refs[k]][x] /\ op[k][x] \in S[k]
    BY <1>3, <1>7
  <2>2. Unsearched \in S[0] /\ \A k \in 1 .. N : k - 1 \in 0 .. N
    BY <1>3, <1>8
  <2> HIDE DEF op, S
  <2>3. PICK h : Loop(h, N, Unsearched, op)
    <3>1. \A k \in 1 .. N : \A x \in S[k - 1] : op[k][x] \in S[k]
      BY <2>1
    <3> QED  BY <1>3, <2>2, <3>1, LoopRuns
  <2>4. h[0] = Unsearched /\ \A k \in 1 .. N : h[k] = op[k][h[k - 1]]
    BY <1>3, <2>3 DEF Loop
  <2>5. \A k \in 0 .. N : h[k] \in S[k]
    <3>1. h[0] \in S[0] /\ \A k \in 1 .. N : h[k - 1] \in S[k - 1] => h[k] \in S[k]
      BY <2>1, <2>2, <2>4
    <3> QED  BY <1>3, <3>1, LoopStays
  <2>6. \A k \in 1 .. N : op[k][h[k - 1]] = visit[refs[k]][h[k - 1]]
    BY <2>1, <2>2, <2>5
  <2>7. Goes(h)
    <3>1. h = [k \in 0 .. N |-> IF k = 0 THEN Unsearched ELSE op[k][h[k - 1]]]
      BY <2>3 DEF Loop
    <3> QED  BY <1>3, <2>6, <3>1 DEF visit
  <2> QED  BY <2>7
<1>10. Goes(upTo)
  <2> HIDE DEF Goes
  <2> QED  BY <1>9
<1> HIDE DEF upTo
<1>11. upTo[0] = Unsearched /\ \A k \in 1 .. N : upTo[k] = visit[refs[k]][upTo[k - 1]]
  BY <1>3, <1>10 DEF visit
<1> HIDE DEF Goes
<1>12. \A k \in 0 .. N : upTo[k] \in Searches
  <2> DEFINE S == [k \in 0 .. N |-> Searches]
  <2>1. upTo[0] \in S[0] /\ \A k \in 1 .. N : upTo[k - 1] \in S[k - 1] => upTo[k] \in S[k]
    BY <1>3, <1>7, <1>8, <1>11
  <2> HIDE DEF S
  <2>2. \A k \in 0 .. N : upTo[k] \in S[k]
    BY <1>3, <2>1, LoopStays
  <2> QED  BY <2>2 DEF S
<1>13. /\ Ordered(dependants, upTo[N])
       /\ upTo[N].cycled \subseteq Elements(upTo[N].sorted)
       /\ Elements(refs) \subseteq Elements(upTo[N].sorted)
  <2> DEFINE Good(k, x) == Below(dependants, x, {}) /\ \A j \in 1 .. k : refs[j] \in Elements(x.sorted)
             S == [k \in 0 .. N |-> {x \in Searches : Good(k, x)}]
  <2>1. upTo[0] \in S[0]
    <3>1. Below(dependants, Unsearched, {})
      BY DEF Below, Ordered, Unsearched, Elements
    <3>2. Good(0, Unsearched)
      BY <3>1
    <3> QED  BY <1>3, <1>8, <1>11, <3>2
  <2>2. \A k \in 1 .. N : upTo[k - 1] \in S[k - 1] => upTo[k] \in S[k]
    <3> SUFFICES ASSUME NEW k \in 1 .. N, Good(k - 1, upTo[k - 1])
                 PROVE  Good(k, upTo[k]) /\ upTo[k] \in Searches
      BY <1>3
    <3> DEFINE x == upTo[k - 1]
               y == upTo[k]
               ref == refs[k]
               path == {}
    <3>1. x \in Searches /\ y \in Searches /\ ref \in Cells /\ y = visit[ref][x]
      BY <1>3, <1>11, <1>12
    <3>2. /\ Below(dependants, x, path) /\ path \in SUBSET Cells
          /\ \A j \in 1 .. k - 1 : refs[j] \in Elements(x.sorted)
      OBVIOUS
    <3> HIDE DEF x, y, ref, path
    <3>3. Finds(dependants, x, ref, deepest, y)
      BY <1>6, <3>1 DEF Sound
    <3>4. Cardinality(Cells \ x.visited) < deepest
      <4>1. Cardinality(Cells \ x.visited) <= Cardinality(Cells) /\ IsFiniteSet(Cells)
            /\ IsFiniteSet(Cells \ x.visited)
        BY CellsAssumption, FS_Subset
      <4>2. Cardinality(Cells \ x.visited) \in Nat /\ Cardinality(Cells) \in Nat
        BY <4>1, FS_CardinalityType
      <4> QED  BY <1>2, <4>1, <4>2
    <3>5. /\ Below(dependants, y, path) /\ Elements(x.sorted) \subseteq Elements(y.sorted)
          /\ ref \in Elements(y.sorted) \cup y.cycled
      BY <3>2, <3>3, <3>4 DEF Finds
    <3>6. ref \in Elements(y.sorted)
      BY <3>5 DEF Below, path
    <3>7. \A j \in 1 .. k : j = k \/ j \in 1 .. k - 1
      BY <1>3
    <3>8. \A j \in 1 .. k : refs[j] \in Elements(y.sorted)
      BY <3>2, <3>5, <3>6, <3>7 DEF ref
    <3> QED  BY <3>1, <3>5, <3>8 DEF y, path
  <2>3. upTo[N] \in S[N]
    <3> HIDE DEF S
    <3>1. \A k \in 0 .. N : upTo[k] \in S[k]
      BY <1>3, <2>1, <2>2, LoopStays
    <3> QED  BY <1>3, <3>1
  <2>4. Good(N, upTo[N])
    BY <1>3, <2>3
  <2>5. Below(dependants, upTo[N], {}) /\ \A j \in 1 .. N : refs[j] \in Elements(upTo[N].sorted)
    BY <2>4
  <2> QED  BY <1>3, <2>5 DEF Below, Elements
<1>14. ASSUME NEW reading, Graph(reading, dependants), Uncircled(reading)
       PROVE  upTo[N].cycled = {}
  <2> DEFINE S == [k \in 0 .. N |-> {x \in Searches : x.cycled = {} /\ x.stack = {}}]
  <2>1. upTo[0] \in S[0]
    BY <1>3, <1>8, <1>11 DEF Unsearched
  <2>2. \A k \in 1 .. N : upTo[k - 1] \in S[k - 1] => upTo[k] \in S[k]
    <3> SUFFICES ASSUME NEW k \in 1 .. N, upTo[k - 1].cycled = {}, upTo[k - 1].stack = {}
                 PROVE  upTo[k] \in Searches /\ upTo[k].cycled = {} /\ upTo[k].stack = {}
      BY <1>3
    <3> DEFINE x == upTo[k - 1]
               y == upTo[k]
               ref == refs[k]
    <3>1. x \in Searches /\ y \in Searches /\ ref \in Cells /\ y = visit[ref][x]
      BY <1>3, <1>11, <1>12
    <3>2. x.cycled = {} /\ x.stack = {}
      OBVIOUS
    <3> HIDE DEF x, y, ref
    <3>3. OnPath(reading, x, ref)
      BY <3>2 DEF OnPath
    <3>4. y.stack = {} /\ y.cycled = {}
      BY <1>6, <1>14, <3>1, <3>2, <3>3 DEF Straight
    <3> QED  BY <3>1, <3>4 DEF y
  <2>3. upTo[N] \in S[N]
    <3> HIDE DEF S
    <3>1. \A k \in 0 .. N : upTo[k] \in S[k]
      BY <1>3, <2>1, <2>2, LoopStays
    <3> QED  BY <1>3, <3>1
  <2> QED  BY <1>3, <2>3
<1> QED  BY <1>1, <1>3, <1>12, <1>13, <1>14
-----------------------------------------------------------------------------
(* Formulas and what they evaluate to.                                      *)

LEMMA NamesApart ==
    /\ Blank # Zero /\ Blank # Number /\ Blank # Error /\ Zero # Number /\ Zero # Error
    /\ Number # Error
    /\ None \notin Cells /\ None \notin Formulas /\ Number \notin Formulas /\ Blank \notin Formulas
<1> DEFINE two == {Blank, Zero} \cup {Number, Error}
<1>1. \A a, b, c : /\ IsFiniteSet({a, b, c}) /\ Cardinality({a, b, c}) \in Nat
                   /\ Cardinality({a, b, c}) <= 3
  <2> TAKE a, b, c
  <2>1. /\ IsFiniteSet({}) /\ Cardinality({}) = 0
    BY FS_EmptySet
  <2>2. /\ IsFiniteSet({a}) /\ Cardinality({a}) = 1
    BY FS_Singleton
  <2>3. /\ IsFiniteSet({a} \cup {b}) /\ Cardinality({a} \cup {b}) \in {1, 2}
    BY <2>2, FS_AddElement
  <2>4. /\ IsFiniteSet({a} \cup {b} \cup {c}) /\ Cardinality({a} \cup {b} \cup {c}) \in {1, 2, 3}
    BY <2>3, FS_AddElement
  <2>5. {a} \cup {b} \cup {c} = {a, b, c}
    OBVIOUS
  <2> QED  BY <2>4, <2>5
<1>2. ASSUME NEW a, NEW b, NEW c, {Blank, Zero, Number, Error} = {a, b, c} PROVE FALSE
  <2>1. Cardinality({a, b, c}) = 4
    BY <1>2, NamesAssumption
  <2>2. Cardinality({a, b, c}) <= 3
    BY <1>1
  <2> DEFINE size == Cardinality({a, b, c})
  <2>3. size = 4 /\ size <= 3
    BY <2>1, <2>2
  <2> HIDE DEF size
  <2> QED  BY <2>3
<1>3. Blank # Zero
  <2> SUFFICES ASSUME Blank = Zero PROVE {Blank, Zero, Number, Error} = {Blank, Number, Error}
    BY <1>2
  <2> QED  OBVIOUS
<1>4. Blank # Number
  <2> SUFFICES ASSUME Blank = Number PROVE {Blank, Zero, Number, Error} = {Blank, Zero, Error}
    BY <1>2
  <2> QED  OBVIOUS
<1>5. Blank # Error
  <2> SUFFICES ASSUME Blank = Error PROVE {Blank, Zero, Number, Error} = {Blank, Zero, Number}
    BY <1>2
  <2> QED  OBVIOUS
<1>6. Zero # Number
  <2> SUFFICES ASSUME Zero = Number PROVE {Blank, Zero, Number, Error} = {Blank, Zero, Error}
    BY <1>2
  <2> QED  OBVIOUS
<1>7. Zero # Error
  <2> SUFFICES ASSUME Zero = Error PROVE {Blank, Zero, Number, Error} = {Blank, Zero, Number}
    BY <1>2
  <2> QED  OBVIOUS
<1>8. Number # Error
  <2> SUFFICES ASSUME Number = Error PROVE {Blank, Zero, Number, Error} = {Blank, Zero, Number}
    BY <1>2
  <2> QED  OBVIOUS
<1>9. None \notin Cells /\ None \notin Formulas /\ Number \notin Formulas /\ Blank \notin Formulas
  BY NamesAssumption DEF Formulas
<1> QED  BY <1>3, <1>4, <1>5, <1>6, <1>7, <1>8, <1>9

LEMMA FormulaIs ==
    ASSUME NEW f \in Formulas
    PROVE  /\ f.reads \in Seq(All) /\ Len(f.reads) \in Nat /\ DOMAIN f.reads = 1 .. Len(f.reads)
           /\ f.over \in Seq(Cells) /\ Len(f.over) \in Nat /\ Len(f.over) >= 1
           /\ DOMAIN f.over = 1 .. Len(f.over) /\ f.over[1] \in Cells
           /\ \A i, j \in 1 .. Len(f.over) : f.over[i] = f.over[j] => i = j
           /\ Spills(f) => Len(f.reads) = Len(f.over)
<1>1. PICK n \in DOMAIN Inputs : f = Inputs[n][2]
  BY DEF Formulas
<1>2. /\ f \in [reads : Seq(Cells \cup Outside), over : Seq(Cells)] /\ f.over # <<>>
      /\ \A i, j \in DOMAIN f.over : f.over[i] = f.over[j] => i = j
      /\ Len(f.over) > 1 => Len(f.reads) = Len(f.over)
  BY <1>1, InputsAssumption
<1>3. f.reads \in Seq(All) /\ f.over \in Seq(Cells)
  BY <1>2 DEF All
<1>4. Len(f.over) >= 1 /\ f.over[1] \in Cells
  BY <1>2, <1>3
<1> QED  BY <1>2, <1>3, <1>4 DEF Spills

\* The cells around a formula are those it writes but for its own.
LEMMA AroundIs ==
    ASSUME NEW f \in Formulas
    PROVE  /\ Around(f) \in Seq(Cells)
           /\ ToSet(Around(f)) \subseteq Cells /\ ToSet(f.over) \subseteq Cells
           /\ ToSet(f.over) = {f.over[1]} \cup ToSet(Around(f))
           /\ f.over[1] \notin ToSet(Around(f))
<1> DEFINE o == f.over
           t == Around(f)
<1>1. /\ o \in Seq(Cells) /\ Len(o) \in Nat /\ Len(o) >= 1 /\ DOMAIN o = 1 .. Len(o)
      /\ \A i, j \in 1 .. Len(o) : o[i] = o[j] => i = j
  BY FormulaIs
<1> HIDE DEF o
<1>2. /\ t \in Seq(Cells) /\ Len(t) = Len(o) - 1 /\ \A i \in 1 .. Len(o) - 1 : t[i] = o[i + 1]
      /\ DOMAIN t = 1 .. Len(o) - 1
  BY <1>1 DEF Around, o
<1> HIDE DEF t
<1>3. ToSet(t) \subseteq Cells /\ ToSet(o) \subseteq Cells
  BY <1>1, <1>2 DEF ToSet
<1>4. \A i \in 1 .. Len(o) : i = 1 \/ (i - 1 \in 1 .. Len(o) - 1 /\ o[i] = t[i - 1])
  <2> TAKE i \in 1 .. Len(o)
  <2>1. i = 1 \/ (i - 1 \in 1 .. Len(o) - 1 /\ (i - 1) + 1 = i)
    BY <1>1
  <2> QED  BY <1>2, <2>1
<1>5. \A i \in 1 .. Len(o) - 1 : i + 1 \in 1 .. Len(o) /\ i + 1 # 1 /\ t[i] = o[i + 1]
  BY <1>1, <1>2
<1>6. 1 \in 1 .. Len(o)
  BY <1>1
<1>7. ToSet(o) = {o[1]} \cup ToSet(t)
  <2>1. \A x \in ToSet(o) : x = o[1] \/ x \in ToSet(t)
    <3> SUFFICES ASSUME NEW i \in 1 .. Len(o) PROVE o[i] = o[1] \/ o[i] \in ToSet(t)
      BY <1>1 DEF ToSet
    <3> QED  BY <1>2, <1>4 DEF ToSet
  <2>2. o[1] \in ToSet(o) /\ \A x \in ToSet(t) : x \in ToSet(o)
    BY <1>1, <1>2, <1>5, <1>6 DEF ToSet
  <2> QED  BY <2>1, <2>2
<1>8. o[1] \notin ToSet(t)
  BY <1>1, <1>2, <1>5, <1>6 DEF ToSet
<1> QED  BY <1>2, <1>3, <1>7, <1>8 DEF o, t

LEMMA FirstFound ==
    ASSUME NEW list \in Seq(Cells), NEW found \in SUBSET (1 .. Len(list)), found # {}
    PROVE  Min(found) \in found
<1>1. found \in SUBSET Nat
  OBVIOUS
<1>2. \E m \in found : \A n \in found : m <= n
  BY <1>1, LeastNatural
<1> QED  BY <1>2 DEF Min

Sheets == [All -> CellType]
\* A cell that blocks, and the anchor it blocks.
Notes == UNION {[D -> SpillCells] : D \in SUBSET Cells}
States == [cells : Sheets, blockers : Notes]

LEMMA SpillCellsAre ==
    ASSUME NEW f \in Formulas, Spills(f)
    PROVE  /\ ToSet(f.over) \subseteq SpillCells /\ ToSet(f.over) \subseteq Cells
           /\ ToSet(Around(f)) \subseteq ToSet(f.over) /\ f.over[1] \in ToSet(f.over)
<1>1. ToSet(f.over) \subseteq SpillCells
  BY DEF SpillCells
<1> QED  BY <1>1, AroundIs

LEMMA NotesAre ==
    ASSUME NEW bs \in Notes
    PROVE  \A p \in DOMAIN bs : p \in Cells /\ bs[p] \in Cells /\ bs[p] \in SpillCells
<1>1. SpillCells \subseteq Cells
  BY SpillCellsAre DEF SpillCells
<1> QED  BY <1>1 DEF Notes

LEMMA EvaluateIs ==
    ASSUME NEW cs \in Sheets, NEW f \in Formulas
    PROVE  LET values == Evaluate(cs, f)
           IN  /\ Spills(f) => DOMAIN values = DOMAIN f.over /\ \A n \in DOMAIN f.over : values[n] \in Values
               /\ ~Spills(f) => values[1] \in Values
<1> DEFINE read == [n \in DOMAIN f.reads |-> cs[f.reads[n]].v]
           values == Evaluate(cs, f)
<1>1. /\ DOMAIN f.reads = 1 .. Len(f.reads) /\ Len(f.reads) \in Nat
      /\ Spills(f) => DOMAIN f.over = DOMAIN f.reads
      /\ \A n \in DOMAIN f.reads : f.reads[n] \in All
  BY FormulaIs
<1>2. \A n \in DOMAIN f.reads : read[n] \in Values
  BY <1>1 DEF Sheets, CellType
<1>3. DOMAIN read = DOMAIN f.reads
  OBVIOUS
<1>4. values = IF Spills(f) THEN [n \in DOMAIN read |-> IF read[n] = Blank THEN Zero ELSE read[n]]
               ELSE IF Len(read) = 1 THEN read
               ELSE <<CASE Error \in ToSet(read) -> Error
                        [] Error \notin ToSet(read) /\ Number \in ToSet(read) -> Number
                        [] OTHER -> Zero>>
  BY DEF Evaluate
<1> HIDE DEF read, values
<1>5. CASE Spills(f)
  BY <1>1, <1>2, <1>3, <1>4, <1>5 DEF values, Values
<1>6. CASE ~Spills(f) /\ Len(read) = 1
  <2>1. values = read
    BY <1>4, <1>6
  <2>2. Len(read) = Len(f.reads)
    BY <1>1 DEF read
  <2>3. 1 \in DOMAIN f.reads
    BY <1>1, <1>6, <2>2
  <2> QED  BY <1>2, <1>6, <2>1, <2>3 DEF values
<1>7. CASE ~Spills(f) /\ Len(read) # 1
  <2>1. values[1] = CASE Error \in ToSet(read) -> Error
                      [] Error \notin ToSet(read) /\ Number \in ToSet(read) -> Number
                      [] OTHER -> Zero
    BY <1>4, <1>7
  <2>2. values[1] \in {Error, Number, Zero}
    BY <2>1
  <2> QED  BY <1>7, <2>2 DEF values, Values
<1> QED  BY <1>5, <1>6, <1>7
-----------------------------------------------------------------------------
(* One formula of a calculation.                                            *)

\* What holds of the cells of any sheet: a formula is no ghost and stands where it writes
\* first; only a formula that spills is marked so.
Whole(cs) ==
    \A p \in Cells :
        /\ cs[p].f # None => cs[p].ghostOf = None /\ cs[p].f.over[1] = p
        /\ cs[p].blocked => cs[p].spilled
        /\ cs[p].spilled => cs[p].f # None /\ Spills(cs[p].f)
\* Cells hold what the users typed, by T.
Holds(cs, T) ==
    \A p \in Cells :
        /\ T[p] \in Formulas => cs[p].f = T[p]
        /\ T[p] = Number => cs[p] = Content(Number, None)
        /\ T[p] = Blank => cs[p] = Empty \/ cs[p].ghostOf # None
\* Ghosts have their formula.
Haunted(cs) ==
    \A p \in Cells : LET anchor == cs[p].ghostOf
                     IN  anchor # None =>
                            /\ HasFormula(cs, anchor)
                            /\ cs[anchor].spilled /\ ~cs[anchor].blocked
                            /\ p \in ToSet(Around(cs[anchor].f))
\* Blockers are noted for anchors that are blocked.
Noted(cs, bs) ==
    \A p \in DOMAIN bs : cs[bs[p]].blocked /\ p \in ToSet(Around(cs[bs[p]].f))
Alike(cs, ds) == \A p \in Cells : ds[p].f = cs[p].f

Typings == [Cells -> Formulas \cup {Number, Blank}]
\* A state on the way; h and n say whether its ghosts and its blockers are to be right.
Good(st, T, h, n) ==
    /\ st \in States /\ T \in Typings
    /\ Whole(st.cells) /\ Holds(st.cells, T)
    /\ h => Haunted(st.cells)
    /\ n => Noted(st.cells, st.blockers)

\* Some ghosts of a are taken away.
Clears(cs, ds, a) ==
    /\ ds \in Sheets
    /\ \A p \in All : ds[p] = cs[p] \/ (ds[p] = Empty /\ cs[p].ghostOf = a)

LEMMA EmptyIs ==
    /\ Empty.v = Blank /\ Empty.f = None /\ Empty.ghostOf = None
    /\ Empty.spilled = FALSE /\ Empty.blocked = FALSE /\ Empty \in CellType
    /\ \A v, f : /\ Content(v, f).v = v /\ Content(v, f).f = f /\ Content(v, f).ghostOf = None
                 /\ Content(v, f).spilled = FALSE /\ Content(v, f).blocked = FALSE
                 /\ v \in Values /\ f \in Formulas \cup {None} => Content(v, f) \in CellType
BY DEF Empty, Content, CellType, Values

\* The cell of a formula that has written its ghosts, and of one that is blocked.
Written(v, f) == [Content(v, f) EXCEPT !.spilled = TRUE]
Waits(v, f) == [Content(v, f) EXCEPT !.spilled = TRUE, !.blocked = TRUE]

LEMMA WrittenIs ==
    ASSUME NEW v \in Values, NEW f \in Formulas
    PROVE  /\ Written(v, f).f = f /\ Written(v, f).ghostOf = None /\ Written(v, f).spilled
           /\ ~Written(v, f).blocked /\ Written(v, f) \in CellType
           /\ Waits(v, f).f = f /\ Waits(v, f).ghostOf = None /\ Waits(v, f).spilled
           /\ Waits(v, f).blocked /\ Waits(v, f) \in CellType
<1>1. /\ Written(v, f).f = f /\ Written(v, f).ghostOf = None /\ Written(v, f).spilled
      /\ ~Written(v, f).blocked /\ Written(v, f) \in CellType
  BY DEF Written, Content, CellType
<1>2. /\ Waits(v, f).f = f /\ Waits(v, f).ghostOf = None /\ Waits(v, f).spilled
      /\ Waits(v, f).blocked /\ Waits(v, f) \in CellType
  BY DEF Waits, Content, CellType
<1> QED  BY <1>1, <1>2

LEMMA GhostIs ==
    ASSUME NEW v \in Values, NEW a \in Cells
    PROVE  /\ Ghost(v, a) \in CellType /\ Ghost(v, a).f = None /\ Ghost(v, a).ghostOf = a
           /\ ~Ghost(v, a).spilled /\ ~Ghost(v, a).blocked
BY DEF Ghost, Empty, Content, CellType

LEMMA ClearsKeeps ==
    ASSUME NEW st, NEW T, NEW h \in BOOLEAN, NEW n \in BOOLEAN, Good(st, T, h, n),
           NEW ds, NEW a \in Cells, Clears(st.cells, ds, a)
    PROVE  Good([cells |-> ds, blockers |-> st.blockers], T, h, n) /\ Alike(st.cells, ds)
<1> DEFINE cs == st.cells
           bs == st.blockers
           t == [cells |-> ds, blockers |-> bs]
<1>1. /\ cs \in Sheets /\ bs \in Notes /\ T \in Typings /\ Whole(cs) /\ Holds(cs, T)
      /\ h => Haunted(cs)
      /\ n => Noted(cs, bs)
  BY DEF Good, States
<1>2. t \in States /\ t.cells = ds /\ t.blockers = bs
  BY <1>1 DEF States, Clears
<1>3. \A p \in Cells : p \in All /\ p # None
  BY NamesApart DEF All
<1>4. \A p \in Cells : cs[p].f # None => ds[p] = cs[p]
  BY <1>1, <1>3 DEF Clears, Whole
<1>5. \A p \in Cells : ds[p].ghostOf # None => ds[p] = cs[p]
  BY <1>3, EmptyIs DEF Clears
<1> HIDE DEF cs, bs, t
<1>6. Alike(cs, ds)
  <2> SUFFICES ASSUME NEW p \in Cells PROVE ds[p].f = cs[p].f
    BY DEF Alike
  <2>1. CASE ds[p] = cs[p]
    BY <2>1
  <2>2. CASE ds[p] # cs[p]
    <3>1. ds[p] = Empty /\ cs[p].ghostOf = a
      BY <1>3, <2>2 DEF Clears, cs
    <3>2. cs[p].f = None
      BY <1>1, <1>3, <3>1 DEF Whole
    <3> QED  BY <3>1, <3>2, EmptyIs
  <2> QED  BY <2>1, <2>2
<1>7. Whole(ds)
  <2> SUFFICES ASSUME NEW p \in Cells
               PROVE  /\ ds[p].f # None => ds[p].ghostOf = None /\ ds[p].f.over[1] = p
                      /\ ds[p].blocked => ds[p].spilled
                      /\ ds[p].spilled => ds[p].f # None /\ Spills(ds[p].f)
    BY DEF Whole
  <2>1. CASE ds[p] = cs[p]
    BY <1>1, <2>1 DEF Whole
  <2>2. CASE ds[p] = Empty
    BY <2>2, EmptyIs
  <2> QED  BY <1>3, <2>1, <2>2 DEF Clears, cs
<1>8. Holds(ds, T)
  <2> SUFFICES ASSUME NEW p \in Cells
               PROVE  /\ T[p] \in Formulas => ds[p].f = T[p]
                      /\ T[p] = Number => ds[p] = Content(Number, None)
                      /\ T[p] = Blank => ds[p] = Empty \/ ds[p].ghostOf # None
    BY DEF Holds
  <2>1. CASE ds[p] = cs[p]
    BY <1>1, <2>1 DEF Holds
  <2>2. CASE ds[p] = Empty /\ cs[p].ghostOf = a
    <3>1. T[p] \notin Formulas
      BY <1>1, <1>3, <2>2, NamesApart DEF Holds, Whole
    <3>2. T[p] # Number
      BY <1>1, <1>3, <2>2, NamesApart, EmptyIs DEF Holds
    <3> QED  BY <2>2, <3>1, <3>2
  <2> QED  BY <1>3, <2>1, <2>2 DEF Clears, cs
<1>9. h => Haunted(ds)
  BY <1>1, <1>4, <1>5 DEF Haunted, HasFormula
<1>10. n => Noted(ds, bs)
  <2> SUFFICES ASSUME n, NEW p \in DOMAIN bs
               PROVE  ds[bs[p]].blocked /\ p \in ToSet(Around(ds[bs[p]].f))
    BY DEF Noted
  <2>1. bs[p] \in Cells /\ cs[bs[p]].blocked /\ p \in ToSet(Around(cs[bs[p]].f))
    BY <1>1, NotesAre DEF Noted
  <2>2. ds[bs[p]] = cs[bs[p]]
    BY <1>1, <1>4, <2>1 DEF Whole
  <2> QED  BY <2>1, <2>2
<1> QED  BY <1>1, <1>2, <1>6, <1>7, <1>8, <1>9, <1>10 DEF Good, t, cs, bs

\* After the ghosts of a are taken away there is none.
Unhaunted(cs, a) == \A p \in Cells : cs[p].ghostOf # a

LEMMA WithoutGhostsIs ==
    ASSUME NEW cs \in Sheets, Whole(cs), NEW a \in Cells
    PROVE  LET ds == WithoutGhosts(cs, a)
           IN  Clears(cs, ds, a) /\ ds[a] = cs[a] /\ (Haunted(cs) => Unhaunted(ds, a))
<1> DEFINE ds == WithoutGhosts(cs, a)
           t == ToSet(Around(cs[a].f))
<1>1. \A p \in Cells : p \in All /\ p # None
  BY NamesApart DEF All
<1>2. CASE ~cs[a].spilled \/ cs[a].blocked
  <2>1. ds = cs
    BY <1>2 DEF WithoutGhosts
  <2>2. Haunted(cs) => Unhaunted(cs, a)
    BY <1>1, <1>2 DEF Haunted, Unhaunted
  <2> QED  BY <2>1, <2>2 DEF Clears
<1>3. CASE cs[a].spilled /\ ~cs[a].blocked
  <2>1. ds = [p \in All |-> IF p \in t /\ cs[p].ghostOf = a THEN Empty ELSE cs[p]]
    BY <1>3 DEF WithoutGhosts, Sheets
  <2>2. a \notin t
    <3>1. cs[a].f # None /\ cs[a].f.over[1] = a
      BY <1>3 DEF Whole
    <3>2. cs[a].f \in Formulas
      BY <1>1, <3>1 DEF Sheets, CellType
    <3> QED  BY <3>1, <3>2, AroundIs
  <2> HIDE DEF t, ds
  <2>3. Clears(cs, ds, a)
    <3>1. ds \in Sheets
      <4>1. \A p \in All : (IF p \in t /\ cs[p].ghostOf = a THEN Empty ELSE cs[p]) \in CellType
        BY EmptyIs DEF Sheets
      <4> QED  BY <2>1, <4>1 DEF Sheets
    <3> QED  BY <2>1, <3>1 DEF Clears
  <2>4. ds[a] = cs[a]
    BY <1>1, <2>1, <2>2
  <2>5. Haunted(cs) => Unhaunted(ds, a)
    <3> SUFFICES ASSUME Haunted(cs), NEW p \in Cells PROVE ds[p].ghostOf # a
      BY DEF Unhaunted
    <3>1. CASE cs[p].ghostOf = a
      <4>1. p \in t
        BY <1>1, <3>1 DEF Haunted, t
      <4> QED  BY <1>1, <2>1, <3>1, <4>1, EmptyIs
    <3>2. CASE cs[p].ghostOf # a
      BY <1>1, <2>1, <3>2
    <3> QED  BY <3>1, <3>2
  <2> QED  BY <2>3, <2>4, <2>5 DEF ds
<1> QED  BY <1>2, <1>3

\* A formula is evaluated: its cell is filled again.
LEMMA RefillKeeps ==
    ASSUME NEW st, NEW T, NEW h \in BOOLEAN, NEW n \in BOOLEAN, Good(st, T, h, n),
           NEW ref \in Cells, HasFormula(st.cells, ref), NEW c \in CellType, NEW bs \in Notes,
           c.f = st.cells[ref].f, c.ghostOf = None, c.blocked => c.spilled,
           c.spilled => Spills(c.f),
           h => Unhaunted(st.cells, ref),
           n => Noted([st.cells EXCEPT ![ref] = c], bs)
    PROVE  LET ds == [st.cells EXCEPT ![ref] = c]
           IN  Good([cells |-> ds, blockers |-> bs], T, h, n) /\ Alike(st.cells, ds)
<1> DEFINE cs == st.cells
           ds == [cs EXCEPT ![ref] = c]
           t == [cells |-> ds, blockers |-> bs]
<1>1. /\ cs \in Sheets /\ T \in Typings /\ Whole(cs) /\ Holds(cs, T)
      /\ h => Haunted(cs) /\ Unhaunted(cs, ref)
      /\ n => Noted(ds, bs)
  BY DEF Good, States
<1>2. \A p \in Cells : p \in All /\ p # None
  BY NamesApart DEF All
<1>3. /\ ds \in Sheets /\ ds[ref] = c
      /\ \A p \in All : p # ref => ds[p] = cs[p]
  BY <1>1, <1>2 DEF Sheets
<1>4. c.f = cs[ref].f /\ c.f # None /\ cs[ref].ghostOf = None /\ c.f.over[1] = ref
  BY <1>1 DEF HasFormula, Whole
<1>5. t \in States /\ t.cells = ds /\ t.blockers = bs
  BY <1>3 DEF States
<1> HIDE DEF cs, ds, t
<1>6. Whole(ds)
  <2> SUFFICES ASSUME NEW p \in Cells
               PROVE  /\ ds[p].f # None => ds[p].ghostOf = None /\ ds[p].f.over[1] = p
                      /\ ds[p].blocked => ds[p].spilled
                      /\ ds[p].spilled => ds[p].f # None /\ Spills(ds[p].f)
    BY DEF Whole
  <2>1. CASE p = ref
    BY <1>3, <1>4, <2>1
  <2>2. CASE p # ref
    BY <1>1, <1>2, <1>3, <2>2 DEF Whole
  <2> QED  BY <2>1, <2>2
<1>7. Holds(ds, T)
  <2> SUFFICES ASSUME NEW p \in Cells
               PROVE  /\ T[p] \in Formulas => ds[p].f = T[p]
                      /\ T[p] = Number => ds[p] = Content(Number, None)
                      /\ T[p] = Blank => ds[p] = Empty \/ ds[p].ghostOf # None
    BY DEF Holds
  <2>1. CASE p = ref
    <3>1. T[ref] # Number /\ T[ref] # Blank /\ (T[ref] \in Formulas => cs[ref].f = T[ref])
      BY <1>1, <1>4, EmptyIs DEF Holds
    <3> QED  BY <1>3, <1>4, <2>1, <3>1
  <2>2. CASE p # ref
    BY <1>1, <1>2, <1>3, <2>2 DEF Holds
  <2> QED  BY <2>1, <2>2
<1>8. h => Haunted(ds)
  <2> SUFFICES ASSUME h, NEW p \in Cells, ds[p].ghostOf # None
               PROVE  LET anchor == ds[p].ghostOf
                      IN  /\ HasFormula(ds, anchor)
                          /\ ds[anchor].spilled /\ ~ds[anchor].blocked
                          /\ p \in ToSet(Around(ds[anchor].f))
    BY DEF Haunted
  <2>1. p # ref /\ ds[p] = cs[p]
    BY <1>2, <1>3
  <2>2. cs[p].ghostOf # ref
    BY <1>1 DEF Unhaunted
  <2>3. cs[p].ghostOf \in Cells
    BY <1>1, <2>1 DEF Haunted, HasFormula
  <2>4. ds[cs[p].ghostOf] = cs[cs[p].ghostOf]
    BY <1>2, <1>3, <2>2, <2>3
  <2> QED  BY <1>1, <2>1, <2>4 DEF Haunted, HasFormula
<1>9. Alike(cs, ds)
  BY <1>2, <1>3, <1>4 DEF Alike
<1> QED  BY <1>1, <1>5, <1>6, <1>7, <1>8, <1>9 DEF Good, t, ds, cs

\* A spill that is in nobody's way writes its ghosts.
LEMMA SpillKeeps ==
    ASSUME NEW st, NEW T, NEW h \in BOOLEAN, NEW n \in BOOLEAN, Good(st, T, h, n),
           NEW ref \in Cells, HasFormula(st.cells, ref), Spills(st.cells[ref].f),
           \A p \in ToSet(Around(st.cells[ref].f)) : ~InTheWay(st.cells, p),
           NEW at, \A p \in ToSet(st.cells[ref].f.over) : at[p] \in Values
    PROVE  LET f == st.cells[ref].f
               ds == [p \in All |->
                        IF p = ref THEN Written(at[p], f)
                        ELSE IF p \in ToSet(f.over) THEN Ghost(at[p], ref)
                        ELSE st.cells[p]]
           IN  /\ Good([cells |-> ds, blockers |-> WithoutBlockers(st.blockers, ref)], T, h, n)
               /\ Alike(st.cells, ds)
<1> DEFINE cs == st.cells
           bs == st.blockers
           es == WithoutBlockers(bs, ref)
           f == cs[ref].f
           c == Written(at[ref], f)
           ds == [p \in All |->
                        IF p = ref THEN Written(at[p], f)
                        ELSE IF p \in ToSet(f.over) THEN Ghost(at[p], ref)
                        ELSE cs[p]]
           around == ToSet(Around(f))
           t == [cells |-> ds, blockers |-> es]
<1>1. /\ cs \in Sheets /\ bs \in Notes /\ T \in Typings /\ Whole(cs) /\ Holds(cs, T)
      /\ h => Haunted(cs)
      /\ n => Noted(cs, bs)
  BY DEF Good, States
<1>2. \A p \in Cells : p \in All /\ p # None
  BY NamesApart DEF All
<1>3. f \in Formulas /\ f # None /\ cs[ref].ghostOf = None /\ f.over[1] = ref
  BY <1>1, <1>2, NamesApart DEF HasFormula, Whole, Sheets, CellType
<1>4. around \subseteq Cells /\ ToSet(f.over) = {ref} \cup around /\ ref \notin around
  BY <1>3, AroundIs
<1>5. /\ c.f = f /\ c.ghostOf = None /\ c.spilled /\ ~c.blocked /\ c \in CellType
  <2>1. at[ref] \in Values
    BY <1>4
  <2> QED  BY <1>3, <2>1, WrittenIs
<1>6. \A p \in around : /\ Ghost(at[p], ref) \in CellType /\ Ghost(at[p], ref).f = None
                        /\ Ghost(at[p], ref).ghostOf = ref
                        /\ ~Ghost(at[p], ref).spilled /\ ~Ghost(at[p], ref).blocked
  <2> SUFFICES ASSUME NEW p \in around
               PROVE  /\ Ghost(at[p], ref) \in CellType /\ Ghost(at[p], ref).f = None
                      /\ Ghost(at[p], ref).ghostOf = ref
                      /\ ~Ghost(at[p], ref).spilled /\ ~Ghost(at[p], ref).blocked
    OBVIOUS
  <2>1. at[p] \in Values
    BY <1>4
  <2> QED  BY <2>1, GhostIs
<1>7. /\ ds[ref] = c
      /\ \A p \in around : ds[p] = Ghost(at[p], ref)
      /\ \A p \in All : p # ref /\ p \notin around => ds[p] = cs[p]
  BY <1>2, <1>4
<1>8. \A p \in around : cs[p].f = None
  BY <1>1, <1>2, <1>4 DEF InTheWay, Whole
<1> HIDE DEF c
<1>9. ds \in Sheets
  <2>1. ds = [p \in All |-> ds[p]]
    OBVIOUS
  <2> HIDE DEF ds
  <2>2. \A p \in All : ds[p] \in CellType
    BY <1>1, <1>5, <1>6, <1>7 DEF Sheets
  <2> QED  BY <2>1, <2>2 DEF Sheets
<1> HIDE DEF ds
<1>10. es \in Notes /\ DOMAIN es \subseteq DOMAIN bs /\ \A p \in DOMAIN es : es[p] = bs[p] /\ bs[p] # ref
  <2>1. PICK D \in SUBSET Cells : bs \in [D -> SpillCells]
    BY <1>1 DEF Notes
  <2>2. es = [p \in {q \in D : bs[q] # ref} |-> bs[p]]
    BY <2>1 DEF WithoutBlockers
  <2>3. es \in [{q \in D : bs[q] # ref} -> SpillCells]
    BY <2>1, <2>2
  <2> QED  BY <2>1, <2>2, <2>3 DEF Notes
<1>11. t \in States /\ t.cells = ds /\ t.blockers = es
  BY <1>9, <1>10 DEF States
<1> HIDE DEF cs, bs, es, f, around, t
<1>12. \A p \in Cells : cs[p].f # None /\ p # ref => ds[p] = cs[p]
  BY <1>2, <1>7, <1>8
<1>13. Alike(cs, ds)
  <2> SUFFICES ASSUME NEW p \in Cells PROVE ds[p].f = cs[p].f
    BY DEF Alike
  <2>1. CASE p = ref
    BY <1>5, <1>7, <2>1 DEF f
  <2>2. CASE p \in around
    BY <1>6, <1>7, <1>8, <2>2
  <2> QED  BY <1>2, <1>7, <2>1, <2>2
<1>14. Whole(ds)
  <2> SUFFICES ASSUME NEW p \in Cells
               PROVE  /\ ds[p].f # None => ds[p].ghostOf = None /\ ds[p].f.over[1] = p
                      /\ ds[p].blocked => ds[p].spilled
                      /\ ds[p].spilled => ds[p].f # None /\ Spills(ds[p].f)
    BY DEF Whole
  <2>1. CASE p = ref
    BY <1>3, <1>5, <1>7, <2>1 DEF f, cs
  <2>2. CASE p \in around
    BY <1>6, <1>7, <2>2
  <2>3. CASE p # ref /\ p \notin around
    BY <1>1, <1>2, <1>7, <2>3 DEF Whole
  <2> QED  BY <2>1, <2>2, <2>3
<1>15. Holds(ds, T)
  <2> SUFFICES ASSUME NEW p \in Cells
               PROVE  /\ T[p] \in Formulas => ds[p].f = T[p]
                      /\ T[p] = Number => ds[p] = Content(Number, None)
                      /\ T[p] = Blank => ds[p] = Empty \/ ds[p].ghostOf # None
    BY DEF Holds
  <2>1. CASE p = ref
    <3>1. T[ref] # Number /\ T[ref] # Blank /\ (T[ref] \in Formulas => f = T[ref])
      BY <1>1, <1>3, EmptyIs DEF Holds, f
    <3> QED  BY <1>5, <1>7, <2>1, <3>1
  <2>2. CASE p \in around
    <3>1. T[p] \notin Formulas
      BY <1>1, <1>8, <2>2, NamesApart DEF Holds
    <3>2. T[p] # Number
      <4>1. ~InTheWay(cs, p)
        BY <2>2 DEF around, f, cs
      <4> QED  BY <1>1, <4>1, EmptyIs, NamesApart DEF Holds, InTheWay
    <3> QED  BY <1>2, <1>6, <1>7, <2>2, <3>1, <3>2
  <2>3. CASE p # ref /\ p \notin around
    BY <1>1, <1>2, <1>7, <2>3 DEF Holds
  <2> QED  BY <2>1, <2>2, <2>3
<1>16. h => Haunted(ds)
  <2> SUFFICES ASSUME h, NEW p \in Cells, ds[p].ghostOf # None
               PROVE  LET anchor == ds[p].ghostOf
                      IN  /\ HasFormula(ds, anchor)
                          /\ ds[anchor].spilled /\ ~ds[anchor].blocked
                          /\ p \in ToSet(Around(ds[anchor].f))
    BY DEF Haunted
  <2>1. HasFormula(ds, ref) /\ ds[ref].spilled /\ ~ds[ref].blocked
        /\ ToSet(Around(ds[ref].f)) = around
    BY <1>3, <1>5, <1>7 DEF HasFormula, around
  <2>2. CASE p \in around
    BY <1>6, <1>7, <2>1, <2>2
  <2>3. CASE p \notin around
    <3>1. p # ref /\ ds[p] = cs[p]
      BY <1>2, <1>5, <1>7, <2>3
    <3> DEFINE b == cs[p].ghostOf
    <3>2. HasFormula(cs, b) /\ cs[b].spilled /\ ~cs[b].blocked /\ p \in ToSet(Around(cs[b].f))
      BY <1>1, <3>1 DEF Haunted
    <3> HIDE DEF b
    <3>3. b # ref
      BY <2>3, <3>2 DEF around, f
    <3>4. ds[b] = cs[b]
      BY <1>12, <3>2, <3>3 DEF HasFormula
    <3> QED  BY <3>1, <3>2, <3>4 DEF HasFormula, b
  <2> QED  BY <2>2, <2>3
<1>17. n => Noted(ds, es)
  <2> SUFFICES ASSUME n, NEW p \in DOMAIN es
               PROVE  ds[es[p]].blocked /\ p \in ToSet(Around(ds[es[p]].f))
    BY DEF Noted
  <2>1. es[p] = bs[p] /\ bs[p] # ref /\ bs[p] \in Cells
    BY <1>1, <1>10, NotesAre
  <2>2. cs[bs[p]].blocked /\ p \in ToSet(Around(cs[bs[p]].f))
    BY <1>1, <1>10 DEF Noted
  <2>3. ds[bs[p]] = cs[bs[p]]
    BY <1>1, <1>12, <2>1, <2>2 DEF Whole
  <2> QED  BY <2>1, <2>2, <2>3
<1> QED  BY <1>1, <1>11, <1>13, <1>14, <1>15, <1>16, <1>17 DEF Good, t, ds, cs, f, es, bs

LEMMA SpillGood ==
    ASSUME NEW st, NEW T, NEW h \in BOOLEAN, NEW n \in BOOLEAN, Good(st, T, h, n),
           NEW ref \in Cells, HasFormula(st.cells, ref), Spills(st.cells[ref].f),
           h => Unhaunted(st.cells, ref)
    PROVE  Good(Spill(st, ref), T, h, n) /\ Alike(st.cells, Spill(st, ref).cells)
<1> DEFINE cs == st.cells
           bs == st.blockers
           f == cs[ref].f
           a == Around(f)
           way == {i \in 1 .. Len(a) : InTheWay(cs, a[i])}
           first == SelectInSeq(a, LAMBDA p : InTheWay(cs, p))
           values == Evaluate(cs, f)
           at == [p \in ToSet(f.over) |-> values[SelectInSeq(f.over, LAMBDA q : q = p)]]
           t == Spill(st, ref)
<1>1. cs \in Sheets /\ bs \in Notes /\ Whole(cs) /\ (n => Noted(cs, bs))
  BY DEF Good, States
<1>2. \A p \in Cells : p \in All /\ p # None
  BY NamesApart DEF All
<1>3. f \in Formulas /\ f # None /\ f.over[1] = ref
  BY <1>1, <1>2, NamesApart DEF HasFormula, Whole, Sheets, CellType
<1>4. /\ a \in Seq(Cells) /\ ToSet(a) \subseteq Cells
      /\ ToSet(f.over) = {ref} \cup ToSet(a)
  BY <1>3, AroundIs
<1>5. \/ first \in 1 .. Len(a) /\ InTheWay(cs, a[first])
      \/ first = 0 /\ \A i \in 1 .. Len(a) : ~InTheWay(cs, a[i])
  <2>1. first = IF way # {} THEN Min(way) ELSE 0
    BY DEF SelectInSeq
  <2>2. way # {} => Min(way) \in way
    <3> HIDE DEF a
    <3> QED  BY <1>4, FirstFound
  <2> DEFINE k == first
  <2> HIDE DEF k
  <2>3. \/ k \in 1 .. Len(a) /\ InTheWay(cs, a[k])
        \/ k = 0 /\ \A i \in 1 .. Len(a) : ~InTheWay(cs, a[i])
    <3>1. k = IF way # {} THEN Min(way) ELSE 0
      BY <2>1 DEF k
    <3> HIDE DEF a, cs
    <3> QED  BY <2>2, <3>1
  <2> QED  BY <2>3 DEF k
<1>6. CASE first # 0
  <2> DEFINE b == a[first]
             es == [p \in DOMAIN bs \cup {b} |-> IF p = b THEN ref ELSE bs[p]]
             ds == [cs EXCEPT ![ref] = Waits(Error, f)]
  <2>1. t = [cells |-> ds, blockers |-> es]
    BY <1>6 DEF Spill, Waits
  <2>2. b \in Cells /\ b \in ToSet(a)
    <3> DEFINE k == first
    <3>1. k \in 1 .. Len(a)
      BY <1>5, <1>6
    <3> HIDE DEF k, a
    <3>2. a[k] \in Cells /\ a[k] \in ToSet(a)
      BY <1>4, <3>1 DEF ToSet
    <3> QED  BY <3>2 DEF k
  <2> DEFINE c == Waits(Error, f)
  <2>3. c.f = f /\ c.ghostOf = None /\ c.spilled /\ c.blocked /\ c \in CellType
    <3>1. Error \in Values
      BY DEF Values
    <3> QED  BY <1>3, <3>1, WrittenIs
  <2> HIDE DEF b, c
  <2>4. es \in Notes
    <3>1. PICK D \in SUBSET Cells : bs \in [D -> SpillCells]
      BY <1>1 DEF Notes
    <3>2. ref \in SpillCells
      BY <1>3, SpillCellsAre
    <3>3. es \in [D \cup {b} -> SpillCells]
      BY <2>2, <3>1, <3>2
    <3> QED  BY <2>2, <3>3 DEF Notes
  <2>5. n => Noted(ds, es)
    <3> SUFFICES ASSUME n, NEW p \in DOMAIN es
                 PROVE  ds[es[p]].blocked /\ p \in ToSet(Around(ds[es[p]].f))
      BY DEF Noted
    <3>1. ds[ref] = c /\ \A q \in Cells : q # ref => ds[q] = cs[q]
      BY <1>1, <1>2 DEF Sheets, c
    <3> HIDE DEF ds
    <3>2. CASE p = b
      <4>1. es[p] = ref
        BY <3>2
      <4> QED  BY <2>2, <2>3, <3>1, <3>2, <4>1
    <3>3. CASE p # b
      <4>1. es[p] = bs[p] /\ bs[p] \in Cells /\ p \in DOMAIN bs
        BY <1>1, <3>3, NotesAre
      <4>2. cs[bs[p]].blocked /\ p \in ToSet(Around(cs[bs[p]].f))
        BY <1>1, <4>1 DEF Noted
      <4> QED  BY <2>3, <3>1, <4>1, <4>2
    <3> QED  BY <3>2, <3>3
  <2>6. ds = [st.cells EXCEPT ![ref] = c]
    BY DEF c
  <2> HIDE DEF ds, es, t
  <2>7. Good([cells |-> ds, blockers |-> es], T, h, n) /\ Alike(st.cells, ds)
    BY <2>3, <2>4, <2>5, <2>6, RefillKeeps
  <2> QED  BY <2>1, <2>7 DEF t
<1>7. CASE first = 0
  <2> DEFINE ds == [p \in All |->
                        IF p = ref THEN Written(at[p], f)
                        ELSE IF p \in ToSet(f.over) THEN Ghost(at[p], ref)
                        ELSE cs[p]]
  <2>1. t = [cells |-> ds, blockers |-> WithoutBlockers(bs, ref)]
    <3>1. DOMAIN cs = All /\ ref \in ToSet(f.over)
      BY <1>1, <1>4 DEF Sheets
    <3> DEFINE On(p) == values[SelectInSeq(f.over, LAMBDA q : q = p)]
               es == [p \in All |->
                        IF p = ref THEN Written(On(p), f)
                        ELSE IF p \in ToSet(f.over) THEN Ghost(On(p), ref)
                        ELSE cs[p]]
    <3>2. t = [cells |-> [p \in DOMAIN cs |->
                            IF p = ref THEN [Content(On(p), f) EXCEPT !.spilled = TRUE]
                            ELSE IF p \in ToSet(f.over) THEN Ghost(On(p), ref)
                            ELSE cs[p]],
               blockers |-> WithoutBlockers(bs, ref)]
      BY <1>7 DEF Spill
    <3>3. t = [cells |-> es, blockers |-> WithoutBlockers(bs, ref)]
      BY <3>1, <3>2 DEF Written
    <3>4. \A p \in ToSet(f.over) : at[p] = On(p)
      OBVIOUS
    <3>5. es = ds
      <4> HIDE DEF at, On
      <4> QED  BY <3>1, <3>4
    <3> QED  BY <3>3, <3>5
  <2>2. \A p \in ToSet(f.over) : at[p] \in Values
    <3> SUFFICES ASSUME NEW p \in ToSet(f.over) PROVE at[p] \in Values
      OBVIOUS
    <3> DEFINE found == {i \in 1 .. Len(f.over) : f.over[i] = p}
               k == SelectInSeq(f.over, LAMBDA q : q = p)
    <3>1. k = IF found # {} THEN Min(found) ELSE 0
      BY DEF SelectInSeq
    <3>2. DOMAIN f.over = 1 .. Len(f.over) /\ f.over \in Seq(Cells)
      BY <1>3, FormulaIs
    <3>3. found # {}
      BY <3>2 DEF ToSet
    <3>4. Min(found) \in found
      BY <3>2, <3>3, FirstFound
    <3>5. k \in 1 .. Len(f.over)
      BY <3>1, <3>3, <3>4
    <3>6. \A i \in DOMAIN f.over : values[i] \in Values
      BY <1>1, <1>3, EvaluateIs
    <3>7. at[p] = values[k]
      OBVIOUS
    <3> HIDE DEF at, values, k
    <3> QED  BY <3>2, <3>5, <3>6, <3>7
  <2>3. \A p \in ToSet(a) : ~InTheWay(cs, p)
    <3> DEFINE k == first
    <3>1. k = 0
      BY <1>7
    <3> HIDE DEF a
    <3>2. DOMAIN a = 1 .. Len(a)
      BY <1>4
    <3> QED  BY <1>5, <1>7, <3>2 DEF ToSet
  <2>4. Good([cells |-> ds, blockers |-> WithoutBlockers(bs, ref)], T, h, n) /\ Alike(cs, ds)
    <3> HIDE DEF at
    <3> QED  BY <2>2, <2>3, SpillKeeps
  <2> HIDE DEF t, ds
  <2> QED  BY <2>1, <2>4 DEF t
<1> QED  BY <1>6, <1>7

LEMMA CalculatedGood ==
    ASSUME NEW st, NEW T, NEW h \in BOOLEAN, NEW n \in BOOLEAN, Good(st, T, h, n),
           NEW ref \in Cells, NEW cycled, h \/ n => ref \notin cycled
    PROVE  LET t == Calculated(st, ref, cycled)
           IN  Good(t, T, h, n) /\ Alike(st.cells, t.cells)
<1> DEFINE cs == st.cells
           t == Calculated(st, ref, cycled)
           cell == cs[ref]
           f == cell.f
           cleared == [st EXCEPT !.cells = WithoutGhosts(@, ref)]
           Became(s, v) == IF cell.v = v THEN s ELSE [s EXCEPT !.cells[ref] = Content(v, f)]
<1>1. /\ st = [cells |-> cs, blockers |-> st.blockers]
      /\ cs \in Sheets /\ st.blockers \in Notes /\ Whole(cs)
      /\ n => Noted(cs, st.blockers)
      /\ h => Haunted(cs)
  BY DEF Good, States
<1>2. \A p \in Cells : p \in All /\ p # None
  BY NamesApart DEF All
<1>3. CASE ~HasFormula(cs, ref)
  <2>1. t = st
    BY <1>3 DEF Calculated
  <2> QED  BY <2>1 DEF Alike
<1>4. CASE HasFormula(cs, ref)
  <2>1. f \in Formulas /\ f # None
    BY <1>1, <1>2, <1>4 DEF HasFormula, Sheets, CellType
  <2>2. t = IF ref \in cycled THEN Became(st, Error)
            ELSE IF Spills(f) THEN Spill(cleared, ref)
            ELSE Became(cleared, Evaluate(cleared.cells, f)[1])
    BY <1>4 DEF Calculated
  <2>3. /\ cleared = [cells |-> WithoutGhosts(cs, ref), blockers |-> st.blockers]
        /\ Clears(cs, cleared.cells, ref) /\ cleared.cells[ref] = cell
        /\ Haunted(cs) => Unhaunted(cleared.cells, ref)
    <3>1. cleared = [cells |-> WithoutGhosts(cs, ref), blockers |-> st.blockers]
      BY <1>1
    <3>2. cleared.cells = WithoutGhosts(cs, ref)
      BY <3>1
    <3> HIDE DEF cleared
    <3> QED  BY <1>1, <3>1, <3>2, WithoutGhostsIs
  <2> HIDE DEF cleared
  <2>4. Good(cleared, T, h, n) /\ Alike(cs, cleared.cells) /\ cleared.blockers = st.blockers
    <3>1. cleared = [cells |-> cleared.cells, blockers |-> st.blockers]
      BY <2>3
    <3>2. Good([cells |-> cleared.cells, blockers |-> st.blockers], T, h, n)
          /\ Alike(st.cells, cleared.cells)
      BY <2>3, ClearsKeeps
    <3> QED  BY <2>3, <3>1, <3>2
  <2>5. ASSUME NEW s, Good(s, T, h, n), Alike(cs, s.cells), s.cells[ref] = cell,
               h => Unhaunted(s.cells, ref), n => ~Spills(f), NEW v \in Values
        PROVE  Good(Became(s, v), T, h, n) /\ Alike(cs, Became(s, v).cells)
    <3>1. CASE cell.v = v
      BY <2>5, <3>1
    <3>2. CASE cell.v # v
      <4> DEFINE c == Content(v, f)
                 ds == [s.cells EXCEPT ![ref] = c]
      <4>1. /\ s = [cells |-> s.cells, blockers |-> s.blockers]
            /\ s.cells \in Sheets /\ s.blockers \in Notes /\ Whole(s.cells)
            /\ n => Noted(s.cells, s.blockers)
        BY <2>5 DEF Good, States
      <4>2. Became(s, v) = [cells |-> ds, blockers |-> s.blockers]
        BY <3>2, <4>1
      <4>3. c.f = f /\ c.ghostOf = None /\ ~c.spilled /\ ~c.blocked /\ c \in CellType
        BY <2>1, <2>5, EmptyIs
      <4> HIDE DEF c
      <4>4. n => Noted(ds, s.blockers)
        <5> SUFFICES ASSUME n, NEW p \in DOMAIN s.blockers
                     PROVE  /\ ds[s.blockers[p]].blocked
                            /\ p \in ToSet(Around(ds[s.blockers[p]].f))
          BY DEF Noted
        <5>1. s.blockers[p] \in Cells
          BY <4>1, NotesAre
        <5>2. s.cells[s.blockers[p]].blocked /\ p \in ToSet(Around(s.cells[s.blockers[p]].f))
          BY <4>1 DEF Noted
        <5>3. s.blockers[p] # ref
          BY <2>5, <4>1, <5>2 DEF Whole
        <5>4. ds[s.blockers[p]] = s.cells[s.blockers[p]]
          BY <1>2, <4>1, <5>1, <5>3 DEF Sheets
        <5> QED  BY <5>2, <5>4
      <4>5. HasFormula(s.cells, ref) /\ c.f = s.cells[ref].f
        BY <2>1, <2>5, <4>3 DEF HasFormula
      <4>6. Good([cells |-> ds, blockers |-> s.blockers], T, h, n) /\ Alike(s.cells, ds)
        <5>1. ds = [s.cells EXCEPT ![ref] = c]
          OBVIOUS
        <5>2. /\ Good(s, T, h, n) /\ (h => Unhaunted(s.cells, ref))
              /\ c.f = s.cells[ref].f /\ c.ghostOf = None /\ c \in CellType
              /\ c.blocked => c.spilled
              /\ c.spilled => Spills(c.f)
          BY <2>5, <4>3, <4>5
        <5>3. s.blockers \in Notes /\ HasFormula(s.cells, ref)
              /\ (n => Noted([s.cells EXCEPT ![ref] = c], s.blockers))
          BY <4>1, <4>4, <4>5
        <5>4. /\ Good([cells |-> [s.cells EXCEPT ![ref] = c], blockers |-> s.blockers], T, h, n)
              /\ Alike(s.cells, [s.cells EXCEPT ![ref] = c])
          BY <5>2, <5>3, RefillKeeps
        <5> QED  BY <5>4
      <4>7. Alike(cs, ds)
        BY <2>5, <4>6 DEF Alike
      <4> HIDE DEF ds
      <4> QED  BY <4>2, <4>6, <4>7
    <3> QED  BY <3>1, <3>2
  <2> HIDE DEF Became, t
  <2>6. CASE ref \in cycled
    <3>1. ~h /\ ~n /\ Error \in Values
      BY <2>6 DEF Values
    <3>2. Alike(cs, st.cells)
      BY DEF Alike
    <3>3. Good(Became(st, Error), T, h, n) /\ Alike(cs, Became(st, Error).cells)
      BY <2>5, <3>1, <3>2
    <3> QED  BY <2>2, <2>6, <3>3 DEF t
  <2>7. CASE ref \notin cycled /\ Spills(f)
    <3>1. HasFormula(cleared.cells, ref) /\ Spills(cleared.cells[ref].f)
      BY <1>4, <2>3, <2>7 DEF HasFormula
    <3>2. Good(Spill(cleared, ref), T, h, n) /\ Alike(cleared.cells, Spill(cleared, ref).cells)
      BY <1>1, <2>3, <2>4, <3>1, SpillGood
    <3>3. Alike(cs, Spill(cleared, ref).cells)
      BY <2>4, <3>2 DEF Alike
    <3> QED  BY <2>2, <2>7, <3>2, <3>3 DEF t
  <2>8. CASE ref \notin cycled /\ ~Spills(f)
    <3> DEFINE v == Evaluate(cleared.cells, f)[1]
    <3>1. v \in Values
      <4>1. cleared.cells \in Sheets
        BY <2>4 DEF Good, States
      <4> QED  BY <2>1, <2>8, <4>1, EvaluateIs
    <3> HIDE DEF v
    <3>2. Good(Became(cleared, v), T, h, n) /\ Alike(cs, Became(cleared, v).cells)
      BY <1>1, <2>3, <2>4, <2>5, <2>8, <3>1
    <3> QED  BY <2>2, <2>8, <3>2 DEF t, v
  <2> QED  BY <2>6, <2>7, <2>8 DEF t
<1> QED  BY <1>3, <1>4

-----------------------------------------------------------------------------
(* A calculation.                                                           *)

\* A calculation goes from st through the cells that are sorted.
Calculates(st, dependants, refs, T, h, n, upTo) ==
    LET search == TopologicalSort(dependants, refs)
        N == Len(search.sorted)
    IN  /\ upTo[0] = st
        /\ \A k \in 1 .. N : upTo[k] = Calculated(upTo[k - 1], search.sorted[k], search.cycled)
        /\ \A k \in 0 .. N : Good(upTo[k], T, h, n) /\ Alike(st.cells, upTo[k].cells)
        /\ Calculate(st, dependants, refs) = upTo[N]

LEMMA CalculationRuns ==
    ASSUME NEW st, NEW T, NEW h \in BOOLEAN, NEW n \in BOOLEAN, Good(st, T, h, n),
           NEW dependants \in Listing, NEW refs \in Seq(Cells),
           h \/ n => \E reading : Graph(reading, dependants) /\ Uncircled(reading)
    PROVE  \E upTo : Calculates(st, dependants, refs, T, h, n, upTo)
<1> DEFINE search == TopologicalSort(dependants, refs)
           sorted == search.sorted
           cycled == search.cycled
           N == Len(sorted)
           Goes(g) == g = [k \in 0 .. N |-> IF k = 0 THEN st
                                            ELSE Calculated(g[k - 1], sorted[k], cycled)]
           upTo == CHOOSE g : Goes(g)
           X == {s \in States : Good(s, T, h, n) /\ Alike(st.cells, s.cells)}
           op == [k \in 1 .. N |-> [s \in X |-> Calculated(s, sorted[k], cycled)]]
           S == [k \in 0 .. N |-> X]
<1>1. Calculate(st, dependants, refs) = upTo[N]
  BY DEF Calculate
<1>2. search \in Searches /\ (h \/ n => cycled = {})
  BY Sorts
<1>3. N \in Nat /\ \A k \in 1 .. N : sorted[k] \in Cells
  <2>1. sorted \in Seq(Cells)
    BY <1>2 DEF Searches
  <2> HIDE DEF sorted
  <2> QED  BY <2>1
<1> HIDE DEF sorted, cycled, N
<1>4. st \in X
  BY DEF Good, Alike
<1>5. \A k \in 1 .. N : \A s \in X : Calculated(s, sorted[k], cycled) \in X
  <2> SUFFICES ASSUME NEW k \in 1 .. N, NEW s \in X
               PROVE  Calculated(s, sorted[k], cycled) \in X
    OBVIOUS
  <2> DEFINE t == Calculated(s, sorted[k], cycled)
  <2>1. Good(t, T, h, n) /\ Alike(s.cells, t.cells)
    BY <1>2, <1>3, CalculatedGood
  <2> HIDE DEF t
  <2>2. t \in States /\ Alike(st.cells, t.cells)
    BY <2>1 DEF Good, Alike
  <2> QED  BY <2>1, <2>2 DEF t
<1>6. \A k \in 1 .. N : \A s \in S[k - 1] :
         op[k][s] = Calculated(s, sorted[k], cycled) /\ op[k][s] \in S[k]
  <2>1. \A k \in 1 .. N : S[k - 1] = X /\ S[k] = X
    BY <1>3
  <2> HIDE DEF X, S
  <2> QED  BY <1>5, <2>1
<1>7. st \in S[0] /\ \A k \in 1 .. N : k - 1 \in 0 .. N
  BY <1>3, <1>4
<1> HIDE DEF X, op, S
<1>8. PICK g : Loop(g, N, st, op)
  <2>1. \A k \in 1 .. N : \A s \in S[k - 1] : op[k][s] \in S[k]
    BY <1>6
  <2> QED  BY <1>3, <1>7, <2>1, LoopRuns
<1>9. g[0] = st /\ \A k \in 1 .. N : g[k] = op[k][g[k - 1]]
  BY <1>3, <1>8 DEF Loop
<1>10. \A k \in 0 .. N : g[k] \in S[k]
  <2>1. g[0] \in S[0] /\ \A k \in 1 .. N : g[k - 1] \in S[k - 1] => g[k] \in S[k]
    BY <1>6, <1>7, <1>9
  <2> QED  BY <1>3, <2>1, LoopStays
<1>11. Goes(g)
  <2>1. \A k \in 1 .. N : op[k][g[k - 1]] = Calculated(g[k - 1], sorted[k], cycled)
    BY <1>6, <1>7, <1>10
  <2>2. g = [k \in 0 .. N |-> IF k = 0 THEN st ELSE op[k][g[k - 1]]]
    BY <1>8 DEF Loop
  <2> QED  BY <1>3, <2>1, <2>2
<1>12. Goes(upTo)
  <2> HIDE DEF Goes
  <2> QED  BY <1>11
<1> HIDE DEF upTo
<1>b. upTo[0] = st /\ \A k \in 1 .. N : upTo[k] = Calculated(upTo[k - 1], sorted[k], cycled)
  BY <1>3, <1>12
<1>13. \A k \in 0 .. N : upTo[k] \in S[k]
  <2>2. upTo[0] \in S[0] /\ \A k \in 1 .. N : upTo[k - 1] \in S[k - 1] => upTo[k] \in S[k]
    BY <1>6, <1>7, <1>b
  <2> QED  BY <1>3, <2>2, LoopStays
<1>14. \A k \in 0 .. N : Good(upTo[k], T, h, n) /\ Alike(st.cells, upTo[k].cells)
  BY <1>13 DEF S, X
<1>15. Calculates(st, dependants, refs, T, h, n, upTo)
  BY <1>1, <1>14, <1>b DEF Calculates, N, sorted, cycled
<1> QED  BY <1>15

LEMMA CalculateGood ==
    ASSUME NEW st, NEW T, NEW h \in BOOLEAN, NEW n \in BOOLEAN, Good(st, T, h, n),
           NEW dependants \in Listing, NEW refs \in Seq(Cells),
           h \/ n => \E reading : Graph(reading, dependants) /\ Uncircled(reading)
    PROVE  LET t == Calculate(st, dependants, refs)
           IN  Good(t, T, h, n) /\ Alike(st.cells, t.cells)
<1> DEFINE sorted == TopologicalSort(dependants, refs).sorted
           N == Len(sorted)
<1>1. PICK upTo : Calculates(st, dependants, refs, T, h, n, upTo)
  BY CalculationRuns
<1>2. N \in Nat
  <2>1. sorted \in Seq(Cells)
    BY Sorts DEF Searches
  <2> HIDE DEF sorted
  <2> QED  BY <2>1
<1>3. N \in 0 .. N
  <2> HIDE DEF N
  <2> QED  BY <1>2
<1>4. Calculate(st, dependants, refs) = upTo[N]
      /\ Good(upTo[N], T, h, n) /\ Alike(st.cells, upTo[N].cells)
  <2>1. /\ \A k \in 0 .. N : Good(upTo[k], T, h, n) /\ Alike(st.cells, upTo[k].cells)
        /\ Calculate(st, dependants, refs) = upTo[N]
    BY <1>1 DEF Calculates
  <2> HIDE DEF N
  <2> QED  BY <1>3, <2>1
<1> QED  BY <1>4

LEMMA ReadingIs ==
    ASSUME NEW cs \in Sheets
    PROVE  /\ Reading(cs) \in [Cells -> SUBSET All]
           /\ Circular(cs) = {} => Uncircled(Reading(cs))
           /\ \A ds : Alike(cs, ds) => Reading(ds) = Reading(cs) /\ Circular(ds) = Circular(cs)
<1>1. Reading(cs) \in [Cells -> SUBSET All]
  <2> SUFFICES ASSUME NEW p \in Cells, HasFormula(cs, p) PROVE Reads(cs, p) \in SUBSET All
    BY DEF Reading
  <2>1. cs[p].f \in Formulas
    BY DEF HasFormula, Sheets, CellType, All
  <2>2. cs[p].f.reads \in Seq(All)
    BY <2>1, FormulaIs
  <2> QED  BY <2>2 DEF Reads, ToSet
<1>2. Circular(cs) = {} => Uncircled(Reading(cs))
  BY DEF Circular, Upstream, Uncircled
<1>3. ASSUME NEW ds, Alike(cs, ds) PROVE Reading(ds) = Reading(cs) /\ Circular(ds) = Circular(cs)
  <2>1. Reading(ds) = Reading(cs)
    BY <1>3 DEF Reading, Alike, HasFormula, Reads
  <2> QED  BY <2>1 DEF Circular, Upstream
<1> QED  BY <1>1, <1>2, <1>3

\* The graph of dependants, also when some are forgotten.
LEMMA DependantsAre ==
    ASSUME NEW cs \in Sheets, NEW order \in Orders, NEW qs,
           NEW D, D = [p \in Cells |-> IF p \in qs THEN <<>> ELSE Dependants(cs, order)[p]]
    PROVE  D \in Listing /\ Graph(Reading(cs), D)
<1> DEFINE drop(p) == {q \in Cells : ~(HasFormula(cs, q) /\ p \in Reads(cs, q))}
<1>1. order \in Seq(Cells)
  BY SheetAssumption
<1>2. \A p \in Cells : D[p] = <<>> \/ D[p] = Omitting(order, drop(p))
  BY DEF Dependants
<1>3. ASSUME NEW p \in Cells
      PROVE  D[p] \in Seq(Cells) /\ \A k \in DOMAIN D[p] : p \in Reading(cs)[D[p][k]]
  <2> DEFINE d == D[p]
             out == drop(p)
  <2>1. d = <<>> \/ d = Omitting(order, out)
    BY <1>2
  <2> HIDE DEF d, out
  <2>2. CASE d = <<>>
    <3>1. <<>> \in Seq(Cells) /\ \A k \in DOMAIN <<>> : FALSE
      OBVIOUS
    <3> QED  BY <2>2, <3>1 DEF d
  <2>3. CASE d = Omitting(order, out)
    <3>1. d \in Seq(Cells) /\ Elements(d) = Elements(order) \ out
      <4>1. Omitting(order, out) \in Seq(Cells)
            /\ Elements(Omitting(order, out)) = Elements(order) \ out
        BY <1>1, OmittingProperties
      <4> QED  BY <2>3, <4>1
    <3>2. \A k \in DOMAIN d : d[k] \in Cells /\ d[k] \notin out
      BY <3>1 DEF Elements
    <3>3. \A k \in DOMAIN d : p \in Reading(cs)[d[k]]
      BY <3>2 DEF Reading, out
    <3> QED  BY <3>1, <3>3 DEF d
  <2> QED  BY <2>1, <2>2, <2>3
<1>4. D \in Listing
  BY <1>3 DEF Listing
<1> QED  BY <1>3, <1>4, ReadingIs DEF Graph

LEMMA DependantsAll ==
    ASSUME NEW cs \in Sheets, NEW order \in Orders
    PROVE  Graph(Reading(cs), Dependants(cs, order))
<1> DEFINE D == Dependants(cs, order)
           forgotten == {}
           E == [p \in Cells |-> IF p \in forgotten THEN <<>> ELSE Dependants(cs, order)[p]]
<1>1. E = D
  <2>1. D = [p \in Cells |-> D[p]]
    BY DEF Dependants
  <2> HIDE DEF D
  <2> QED  BY <2>1 DEF D
<1>2. E = [p \in Cells |-> IF p \in forgotten THEN <<>> ELSE Dependants(cs, order)[p]]
  OBVIOUS
<1> HIDE DEF E, forgotten
<1>3. Graph(Reading(cs), E)
  BY <1>2, DependantsAre
<1> QED  BY <1>1, <1>3

-----------------------------------------------------------------------------
(* A cell is vacated and filled.                                            *)

LEMMA FewerBlockers ==
    ASSUME NEW st, NEW T, NEW h \in BOOLEAN, NEW n \in BOOLEAN, Good(st, T, h, n),
           NEW es \in Notes,
           \A q \in DOMAIN es : q \in DOMAIN st.blockers /\ es[q] = st.blockers[q]
    PROVE  Good([cells |-> st.cells, blockers |-> es], T, h, n)
<1> DEFINE cs == st.cells
           t == [cells |-> cs, blockers |-> es]
<1>1. /\ cs \in Sheets /\ T \in Typings /\ Whole(cs) /\ Holds(cs, T) /\ (h => Haunted(cs))
      /\ n => Noted(cs, st.blockers)
  BY DEF Good, States
<1>2. t \in States /\ t.cells = cs /\ t.blockers = es
  BY <1>1 DEF States
<1> HIDE DEF t, cs
<1>3. n => Noted(cs, es)
  BY <1>1 DEF Noted
<1> QED  BY <1>1, <1>2, <1>3 DEF Good, t, cs

LEMMA WithoutBlockersIs ==
    ASSUME NEW bs \in Notes, NEW a
    PROVE  /\ WithoutBlockers(bs, a) \in Notes /\ Consumed(bs, a) \in Notes
           /\ \A q \in DOMAIN WithoutBlockers(bs, a) :
                 q \in DOMAIN bs /\ WithoutBlockers(bs, a)[q] = bs[q] /\ bs[q] # a
           /\ \A q \in DOMAIN Consumed(bs, a) : q \in DOMAIN bs /\ Consumed(bs, a)[q] = bs[q]
           /\ Waiting(bs, a) \in Seq(Cells)
<1>1. PICK D \in SUBSET Cells : bs \in [D -> SpillCells]
  BY DEF Notes
<1>2. WithoutBlockers(bs, a) \in Notes
      /\ \A q \in DOMAIN WithoutBlockers(bs, a) :
                 q \in DOMAIN bs /\ WithoutBlockers(bs, a)[q] = bs[q] /\ bs[q] # a
  <2>1. WithoutBlockers(bs, a) = [q \in {r \in D : bs[r] # a} |-> bs[q]]
    BY <1>1 DEF WithoutBlockers
  <2>2. WithoutBlockers(bs, a) \in [{r \in D : bs[r] # a} -> SpillCells]
    BY <1>1, <2>1
  <2> QED  BY <1>1, <2>1, <2>2 DEF Notes
<1>3. Consumed(bs, a) \in Notes
      /\ \A q \in DOMAIN Consumed(bs, a) : q \in DOMAIN bs /\ Consumed(bs, a)[q] = bs[q]
  <2>1. Consumed(bs, a) = [q \in D \ {a} |-> bs[q]]
    BY <1>1 DEF Consumed
  <2>2. Consumed(bs, a) \in [D \ {a} -> SpillCells]
    BY <1>1, <2>1
  <2> QED  BY <1>1, <2>1, <2>2 DEF Notes
<1>4. Waiting(bs, a) \in Seq(Cells)
  <2>1. a \in DOMAIN bs => <<bs[a]>> \in Seq(Cells)
    BY NotesAre
  <2>2. <<>> \in Seq(Cells)
    OBVIOUS
  <2> QED  BY <2>1, <2>2 DEF Waiting
<1> QED  BY <1>2, <1>3, <1>4

\* Something typed is put in a cell that no ghost and no blocker is about.
LEMMA PutGood ==
    ASSUME NEW st, NEW T, NEW h \in BOOLEAN, NEW n \in BOOLEAN, Good(st, T, h, n),
           NEW p \in Cells, h => Unhaunted(st.cells, p),
           n => \A q \in DOMAIN st.blockers : st.blockers[q] # p,
           NEW x \in Formulas \cup {Number, Blank}, NEW c,
           IF x \in Formulas THEN c = Content(Blank, x) /\ x.over[1] = p ELSE c = Content(x, None)
    PROVE  Good([cells |-> [st.cells EXCEPT ![p] = c], blockers |-> st.blockers],
                [T EXCEPT ![p] = x], h, n)
<1> DEFINE cs == st.cells
           bs == st.blockers
           ds == [cs EXCEPT ![p] = c]
           U == [T EXCEPT ![p] = x]
           t == [cells |-> ds, blockers |-> bs]
<1>1. /\ cs \in Sheets /\ bs \in Notes /\ T \in Typings /\ Whole(cs) /\ Holds(cs, T)
      /\ h => Haunted(cs) /\ Unhaunted(cs, p)
      /\ n => Noted(cs, bs)
  BY DEF Good, States
<1>2. \A q \in Cells : q \in All /\ q # None
  BY NamesApart DEF All
<1>3. c \in CellType /\ c.ghostOf = None /\ ~c.spilled /\ ~c.blocked
      /\ (c.f # None => c.f.over[1] = p)
  <2>1. CASE x \in Formulas
    BY <2>1, EmptyIs DEF Values
  <2>2. CASE x \notin Formulas
    BY <2>2, EmptyIs DEF Values
  <2> QED  BY <2>1, <2>2
<1>4. /\ x \in Formulas => c.f = x
      /\ x = Number => c = Content(Number, None)
      /\ x = Blank => c = Empty
  BY NamesApart, EmptyIs DEF Empty
<1>5. /\ ds \in Sheets /\ ds[p] = c
      /\ \A q \in All : q # p => ds[q] = cs[q]
  BY <1>1, <1>2, <1>3 DEF Sheets
<1>6. U \in Typings /\ U[p] = x /\ \A q \in Cells : q # p => U[q] = T[q]
  BY <1>1 DEF Typings
<1>7. t \in States /\ t.cells = ds /\ t.blockers = bs
  BY <1>1, <1>5 DEF States
<1>8. n => \A q \in DOMAIN bs : bs[q] # p
  OBVIOUS
<1> HIDE DEF cs, bs, ds, U, t
<1>9. Whole(ds)
  <2> SUFFICES ASSUME NEW q \in Cells
               PROVE  /\ ds[q].f # None => ds[q].ghostOf = None /\ ds[q].f.over[1] = q
                      /\ ds[q].blocked => ds[q].spilled
                      /\ ds[q].spilled => ds[q].f # None /\ Spills(ds[q].f)
    BY DEF Whole
  <2>1. CASE q = p
    BY <1>3, <1>5, <2>1
  <2>2. CASE q # p
    BY <1>1, <1>2, <1>5, <2>2 DEF Whole
  <2> QED  BY <2>1, <2>2
<1>10. Holds(ds, U)
  <2> SUFFICES ASSUME NEW q \in Cells
               PROVE  /\ U[q] \in Formulas => ds[q].f = U[q]
                      /\ U[q] = Number => ds[q] = Content(Number, None)
                      /\ U[q] = Blank => ds[q] = Empty \/ ds[q].ghostOf # None
    BY DEF Holds
  <2>1. CASE q = p
    BY <1>4, <1>5, <1>6, <2>1
  <2>2. CASE q # p
    BY <1>1, <1>2, <1>5, <1>6, <2>2 DEF Holds
  <2> QED  BY <2>1, <2>2
<1>11. h => Haunted(ds)
  <2> SUFFICES ASSUME h, NEW q \in Cells, ds[q].ghostOf # None
               PROVE  LET anchor == ds[q].ghostOf
                      IN  /\ HasFormula(ds, anchor)
                          /\ ds[anchor].spilled /\ ~ds[anchor].blocked
                          /\ q \in ToSet(Around(ds[anchor].f))
    BY DEF Haunted
  <2>1. q # p /\ ds[q] = cs[q]
    BY <1>2, <1>3, <1>5
  <2>2. cs[q].ghostOf # p
    BY <1>1 DEF Unhaunted
  <2>3. cs[q].ghostOf \in Cells
    BY <1>1, <2>1 DEF Haunted, HasFormula
  <2>4. ds[cs[q].ghostOf] = cs[cs[q].ghostOf]
    BY <1>2, <1>5, <2>2, <2>3
  <2> QED  BY <1>1, <2>1, <2>4 DEF Haunted, HasFormula
<1>12. n => Noted(ds, bs)
  <2> SUFFICES ASSUME n, NEW q \in DOMAIN bs
               PROVE  ds[bs[q]].blocked /\ q \in ToSet(Around(ds[bs[q]].f))
    BY DEF Noted
  <2>1. bs[q] \in Cells /\ bs[q] # p
    BY <1>1, <1>8, NotesAre
  <2>2. ds[bs[q]] = cs[bs[q]]
    BY <1>2, <1>5, <2>1
  <2> QED  BY <1>1, <2>2 DEF Noted
<1> QED  BY <1>1, <1>6, <1>7, <1>9, <1>10, <1>11, <1>12 DEF Good, t, ds, bs, U, cs

LEMMA VacatedGood ==
    ASSUME NEW st, NEW T, NEW h \in BOOLEAN, NEW n \in BOOLEAN, Good(st, T, h, n),
           NEW p \in Cells
    PROVE  LET t == Vacated(st, p)
           IN  /\ Good(t, [T EXCEPT ![p] = Blank], h, n)
               /\ h => Unhaunted(t.cells, p)
               /\ n => \A q \in DOMAIN t.blockers : t.blockers[q] # p
<1> DEFINE cs == st.cells
           bs == st.blockers
           ds == WithoutGhosts(cs, p)
           es == IF cs[p].spilled THEN WithoutBlockers(bs, p) ELSE bs
           u == [cells |-> ds, blockers |-> es]
           t == Vacated(st, p)
<1>1. /\ cs \in Sheets /\ bs \in Notes /\ T \in Typings /\ Whole(cs)
      /\ h => Haunted(cs)
      /\ n => Noted(cs, bs)
  BY DEF Good, States
<1>2. \A q \in Cells : q \in All /\ q # None
  BY NamesApart DEF All
<1>3. Clears(cs, ds, p) /\ (h => Unhaunted(ds, p))
  <2>1. Clears(cs, WithoutGhosts(cs, p), p) /\ (Haunted(cs) => Unhaunted(WithoutGhosts(cs, p), p))
    BY <1>1, WithoutGhostsIs
  <2> QED  BY <1>1, <2>1
<1>4. es \in Notes /\ \A q \in DOMAIN es : q \in DOMAIN bs /\ es[q] = bs[q]
  BY <1>1, WithoutBlockersIs
<1>5. n => \A q \in DOMAIN es : es[q] # p
  <2>1. CASE cs[p].spilled
    BY <1>1, <2>1, WithoutBlockersIs
  <2>2. CASE ~cs[p].spilled
    BY <1>1, <2>2 DEF Noted, Whole
  <2> QED  BY <2>1, <2>2
<1>6. t = [cells |-> [ds EXCEPT ![p] = Empty], blockers |-> es]
  BY DEF Vacated
<1> HIDE DEF ds, es
<1>7. Good(u, T, h, n)
  <2> DEFINE w == [cells |-> ds, blockers |-> st.blockers]
  <2>1. Good(w, T, h, n)
    BY <1>3, ClearsKeeps
  <2>2. w.cells = ds /\ w.blockers = bs
    OBVIOUS
  <2> HIDE DEF w
  <2>3. Good([cells |-> w.cells, blockers |-> es], T, h, n)
    BY <1>4, <2>1, <2>2, FewerBlockers
  <2> QED  BY <2>2, <2>3
<1>8. Good([cells |-> [u.cells EXCEPT ![p] = Empty], blockers |-> u.blockers],
           [T EXCEPT ![p] = Blank], h, n)
  <2>1. u.cells = ds /\ u.blockers = es
    OBVIOUS
  <2>2. Empty = Content(Blank, None) /\ Blank \notin Formulas
    BY NamesApart DEF Empty
  <2>3. h => Unhaunted(u.cells, p)
    BY <1>3, <2>1
  <2>4. n => \A q \in DOMAIN u.blockers : u.blockers[q] # p
    BY <1>5, <2>1
  <2> HIDE DEF u
  <2> QED  BY <1>7, <2>2, <2>3, <2>4, PutGood
<1>9. Good(t, [T EXCEPT ![p] = Blank], h, n)
  <2>1. u.cells = ds /\ u.blockers = es
    OBVIOUS
  <2> HIDE DEF u
  <2> QED  BY <1>6, <1>8, <2>1
<1>10. h => Unhaunted(t.cells, p)
  <2>1. ds \in Sheets
    BY <1>3 DEF Clears
  <2>2. t.cells = [ds EXCEPT ![p] = Empty]
    BY <1>6
  <2> QED  BY <1>2, <1>3, <2>1, <2>2, EmptyIs DEF Unhaunted, Sheets
<1>11. t.blockers = es
  BY <1>6
<1> HIDE DEF t
<1> QED  BY <1>5, <1>9, <1>10, <1>11 DEF t

-----------------------------------------------------------------------------
(* What a step of a calculation changes: the cells in ps, and cells a spill *)
(* can write that hold no formula.                                          *)

Differs(cs, ds, ps) ==
    \A x \in All : \/ x \in ps
                   \/ ds[x] = cs[x]
                   \/ x \in SpillCells /\ x \in Cells /\ cs[x].f = None /\ ds[x].f = None

LEMMA DiffersFurther ==
    ASSUME NEW cs, NEW ds, NEW es, NEW ps, NEW qs, Differs(cs, ds, ps), Differs(ds, es, qs)
    PROVE  Differs(cs, es, ps \cup qs)
BY DEF Differs

LEMMA WithoutGhostsDiffers ==
    ASSUME NEW cs \in Sheets, Whole(cs), NEW a \in Cells
    PROVE  Differs(cs, WithoutGhosts(cs, a), {})
<1> DEFINE ds == WithoutGhosts(cs, a)
           t == ToSet(Around(cs[a].f))
<1>1. \A p \in Cells : p \in All /\ p # None
  BY NamesApart DEF All
<1>2. CASE ~cs[a].spilled \/ cs[a].blocked
  <2>1. ds = cs
    BY <1>2 DEF WithoutGhosts
  <2> QED  BY <2>1 DEF Differs
<1>3. CASE cs[a].spilled /\ ~cs[a].blocked
  <2>1. ds = [p \in All |-> IF p \in t /\ cs[p].ghostOf = a THEN Empty ELSE cs[p]]
    BY <1>3 DEF WithoutGhosts, Sheets
  <2>2. t \subseteq SpillCells /\ t \subseteq Cells
    <3>1. cs[a].f # None /\ Spills(cs[a].f)
      BY <1>3 DEF Whole
    <3>2. cs[a].f \in Formulas
      BY <1>1, <3>1 DEF Sheets, CellType
    <3> QED  BY <3>1, <3>2, SpillCellsAre
  <2> HIDE DEF t, ds
  <2>3. \A p \in Cells : cs[p].ghostOf = a => cs[p].f = None
    BY <1>1 DEF Whole
  <2>4. ASSUME NEW x \in All, ds[x] # cs[x]
        PROVE  x \in SpillCells /\ x \in Cells /\ cs[x].f = None /\ ds[x].f = None
    <3>1. x \in t /\ cs[x].ghostOf = a /\ ds[x] = Empty
      BY <2>1, <2>4
    <3> QED  BY <2>2, <2>3, <3>1, EmptyIs
  <2> QED  BY <2>4 DEF Differs, ds
<1> QED  BY <1>2, <1>3

LEMMA SpillDiffers ==
    ASSUME NEW st, st.cells \in Sheets, Whole(st.cells), NEW ref \in Cells,
           HasFormula(st.cells, ref), Spills(st.cells[ref].f)
    PROVE  Differs(st.cells, Spill(st, ref).cells, {ref})
<1> DEFINE cs == st.cells
           f == cs[ref].f
           a == Around(f)
           first == SelectInSeq(a, LAMBDA p : InTheWay(cs, p))
           way == {i \in 1 .. Len(a) : InTheWay(cs, a[i])}
           values == Evaluate(cs, f)
           On(p) == values[SelectInSeq(f.over, LAMBDA q : q = p)]
           ds == Spill(st, ref).cells
<1>1. \A p \in Cells : p \in All /\ p # None
  BY NamesApart DEF All
<1>2. f \in Formulas /\ f.over[1] = ref
  BY <1>1, NamesApart DEF HasFormula, Whole, Sheets, CellType
<1>3. CASE first # 0
  <2>1. ds = [cs EXCEPT ![ref] = [Content(Error, f) EXCEPT !.spilled = TRUE, !.blocked = TRUE]]
    BY <1>3 DEF Spill
  <2>2. \A x \in All : x # ref => ds[x] = cs[x]
    BY <2>1 DEF Sheets
  <2> HIDE DEF ds
  <2> QED  BY <2>2 DEF Differs, ds
<1>4. CASE first = 0
  <2>1. ds = [p \in DOMAIN cs |->
                 IF p = ref THEN [Content(On(p), f) EXCEPT !.spilled = TRUE]
                 ELSE IF p \in ToSet(f.over) THEN Ghost(On(p), ref)
                 ELSE cs[p]]
    BY <1>4 DEF Spill
  <2>2. \A x \in All : x # ref => ds[x] = cs[x] \/ (x \in ToSet(f.over) /\ ds[x].f = None)
    <3>1. \A v : Ghost(v, ref).f = None
      BY DEF Ghost, Empty, Content
    <3>2. \A x \in All : x # ref =>
             ds[x] = IF x \in ToSet(f.over) THEN Ghost(On(x), ref) ELSE cs[x]
      BY <2>1 DEF Sheets
    <3> HIDE DEF ds, On
    <3> QED  BY <3>1, <3>2
  <2>3. \A x \in ToSet(a) : ~InTheWay(cs, x)
    <3>1. first = IF way # {} THEN Min(way) ELSE 0
      BY DEF SelectInSeq
    <3>2. a \in Seq(Cells)
      BY <1>2, AroundIs
    <3> DEFINE k == first
    <3>3. k = IF way # {} THEN Min(way) ELSE 0
      BY <3>1
    <3>4. k = 0
      BY <1>4
    <3> HIDE DEF k, a
    <3>5. way # {} => Min(way) \in way
      BY <3>2, FirstFound
    <3>6. way = {}
      BY <3>2, <3>3, <3>4, <3>5
    <3> QED  BY <3>2, <3>6 DEF ToSet
  <2>4. \A x \in ToSet(f.over) : x # ref => cs[x].f = None /\ x \in Cells /\ x \in SpillCells
    <3>1. ToSet(f.over) = {ref} \cup ToSet(a) /\ ToSet(a) \subseteq Cells
          /\ ToSet(f.over) \subseteq SpillCells
      BY <1>2, AroundIs, SpillCellsAre
    <3>2. \A x \in ToSet(a) : cs[x].f = None
      BY <1>1, <2>3, <3>1 DEF InTheWay, Whole
    <3> QED  BY <3>1, <3>2
  <2> HIDE DEF ds, f, cs
  <2> QED  BY <2>2, <2>4 DEF Differs, ds, cs
<1> QED  BY <1>3, <1>4

\* What is evaluated shows its value, or an error if it is marked.
Takes(cs, ds, ref, cycled) ==
    /\ Differs(cs, ds, {ref})
    /\ HasFormula(cs, ref) /\ ref \in cycled => ds[ref].v = Error
    /\ HasFormula(cs, ref) /\ ref \notin cycled /\ ~Spills(cs[ref].f) =>
          /\ ds[ref].v = Evaluate(cs, cs[ref].f)[1]
          /\ \A x \in All : x # ref => ds[x] = cs[x]

LEMMA CalculatedTakes ==
    ASSUME NEW st \in States, Whole(st.cells), NEW ref \in Cells, NEW cycled
    PROVE  Takes(st.cells, Calculated(st, ref, cycled).cells, ref, cycled)
<1> DEFINE cs == st.cells
           t == Calculated(st, ref, cycled)
           cell == cs[ref]
           f == cell.f
           cleared == [st EXCEPT !.cells = WithoutGhosts(@, ref)]
           Became(s, v) == IF cell.v = v THEN s ELSE [s EXCEPT !.cells[ref] = Content(v, f)]
<1> USE DEF Takes
<1>1. st = [cells |-> cs, blockers |-> st.blockers] /\ cs \in Sheets
  BY DEF States
<1>2. \A p \in Cells : p \in All /\ p # None
  BY NamesApart DEF All
<1>6. ASSUME NEW v, NEW u, u = Became(st, v)
      PROVE  u.cells[ref].v = v /\ \A x \in All : x # ref => u.cells[x] = cs[x]
  <2>1. CASE cell.v = v
    BY <1>6, <2>1
  <2>2. CASE cell.v # v
    <3>1. u = [cells |-> [cs EXCEPT ![ref] = Content(v, f)], blockers |-> st.blockers]
      BY <1>1, <1>6, <2>2
    <3>2. u.cells = [cs EXCEPT ![ref] = Content(v, f)]
      BY <3>1
    <3> QED  BY <1>1, <1>2, <3>2, EmptyIs DEF Sheets
  <2> QED  BY <2>1, <2>2
<1>3. CASE ~HasFormula(cs, ref)
  <2>1. t = st
    BY <1>3 DEF Calculated
  <2> QED  BY <1>3, <2>1 DEF Differs
<1>4. CASE HasFormula(cs, ref) /\ ref \notin cycled /\ Spills(f)
  <2>1. t = Spill(cleared, ref)
    BY <1>4 DEF Calculated
  <2>2. cleared = [cells |-> WithoutGhosts(cs, ref), blockers |-> st.blockers]
    BY <1>1
  <2>3. cleared.cells = WithoutGhosts(cs, ref)
    BY <2>2
  <2> HIDE DEF cleared
  <2>4. /\ Clears(cs, cleared.cells, ref) /\ cleared.cells[ref] = cell
        /\ Differs(cs, cleared.cells, {})
    BY <1>1, <2>3, WithoutGhostsIs, WithoutGhostsDiffers
  <2>5. cleared.cells \in Sheets /\ Whole(cleared.cells)
    <3>1. cleared.cells \in Sheets
      BY <2>4 DEF Clears
    <3>2. Whole(cleared.cells)
      <4> SUFFICES ASSUME NEW p \in Cells
                   PROVE  /\ cleared.cells[p].f # None =>
                                cleared.cells[p].ghostOf = None /\ cleared.cells[p].f.over[1] = p
                          /\ cleared.cells[p].blocked => cleared.cells[p].spilled
                          /\ cleared.cells[p].spilled =>
                                cleared.cells[p].f # None /\ Spills(cleared.cells[p].f)
        BY DEF Whole
      <4>1. CASE cleared.cells[p] = cs[p]
        BY <4>1 DEF Whole
      <4>2. CASE cleared.cells[p] = Empty
        BY <4>2, EmptyIs
      <4> QED  BY <1>2, <2>4, <4>1, <4>2 DEF Clears
    <3> QED  BY <3>1, <3>2
  <2>6. Differs(cleared.cells, t.cells, {ref})
    <3>1. HasFormula(cleared.cells, ref) /\ Spills(cleared.cells[ref].f)
      BY <1>4, <2>4 DEF HasFormula
    <3> QED  BY <2>1, <2>5, <3>1, SpillDiffers
  <2> HIDE DEF t
  <2>7. Differs(cs, t.cells, {} \cup {ref})
    BY <2>4, <2>6, DiffersFurther
  <2>8. {} \cup {ref} = {ref}
    OBVIOUS
  <2> QED  BY <1>4, <2>7, <2>8 DEF t
<1>5. CASE HasFormula(cs, ref) /\ ref \notin cycled /\ ~Spills(f)
  <2>1. WithoutGhosts(cs, ref) = cs
    BY <1>5 DEF WithoutGhosts, Whole
  <2>2. cleared = st
    BY <1>1, <2>1
  <2> DEFINE v == Evaluate(cs, f)[1]
  <2>3. t = Became(st, v)
    <3>1. t = Became(cleared, Evaluate(cleared.cells, f)[1])
      BY <1>5 DEF Calculated
    <3> HIDE DEF cleared, Became, t
    <3> QED  BY <2>2, <3>1
  <2> HIDE DEF v, cleared, t
  <2>4. /\ t.cells[ref].v = v
        /\ \A x \in All : x # ref => t.cells[x] = cs[x]
    BY <1>6, <2>3
  <2> QED  BY <1>5, <2>4 DEF Differs, v, t
<1>7. CASE HasFormula(cs, ref) /\ ref \in cycled
  <2>1. t = Became(st, Error)
    BY <1>7 DEF Calculated
  <2> HIDE DEF t, Became
  <2>2. t.cells[ref].v = Error /\ \A x \in All : x # ref => t.cells[x] = cs[x]
    BY <1>6, <2>1
  <2> QED  BY <1>7, <2>2 DEF Differs, t
<1> QED  BY <1>3, <1>4, <1>5, <1>7

-----------------------------------------------------------------------------
(* The order of evaluation: a formula comes after what it reads.            *)

LEMMA EvaluateSame ==
    ASSUME NEW cs, NEW ds, NEW f, \A x \in ToSet(f.reads) : ds[x].v = cs[x].v
    PROVE  Evaluate(ds, f) = Evaluate(cs, f)
<1> DEFINE one == [n \in DOMAIN f.reads |-> cs[f.reads[n]].v]
           two == [n \in DOMAIN f.reads |-> ds[f.reads[n]].v]
<1>1. one = two
  BY DEF ToSet
<1>2. /\ Evaluate(cs, f) =
            IF Spills(f) THEN [n \in DOMAIN one |-> IF one[n] = Blank THEN Zero ELSE one[n]]
            ELSE IF Len(one) = 1 THEN one
            ELSE <<CASE Error \in ToSet(one) -> Error
                     [] Error \notin ToSet(one) /\ Number \in ToSet(one) -> Number
                     [] OTHER -> Zero>>
      /\ Evaluate(ds, f) =
            IF Spills(f) THEN [n \in DOMAIN two |-> IF two[n] = Blank THEN Zero ELSE two[n]]
            ELSE IF Len(two) = 1 THEN two
            ELSE <<CASE Error \in ToSet(two) -> Error
                     [] Error \notin ToSet(two) /\ Number \in ToSet(two) -> Number
                     [] OTHER -> Zero>>
  BY DEF Evaluate
<1> HIDE DEF one, two
<1> QED  BY <1>1, <1>2

LEMMA EvaluateError ==
    ASSUME NEW cs, NEW f \in Formulas, ~Spills(f), NEW x \in ToSet(f.reads), cs[x].v = Error
    PROVE  Evaluate(cs, f)[1] = Error
<1> DEFINE read == [n \in DOMAIN f.reads |-> cs[f.reads[n]].v]
<1>1. /\ DOMAIN f.reads = 1 .. Len(f.reads) /\ Len(f.reads) \in Nat
      /\ DOMAIN read = DOMAIN f.reads /\ Len(read) = Len(f.reads)
  BY FormulaIs
<1>2. PICK n \in DOMAIN f.reads : f.reads[n] = x
  BY DEF ToSet
<1>3. read[n] = Error
  BY <1>2
<1>4. Evaluate(cs, f) =
         IF Len(read) = 1 THEN read
         ELSE <<CASE Error \in ToSet(read) -> Error
                  [] Error \notin ToSet(read) /\ Number \in ToSet(read) -> Number
                  [] OTHER -> Zero>>
  BY DEF Evaluate
<1> HIDE DEF read
<1>5. CASE Len(read) = 1
  <2>1. n = 1
    BY <1>1, <1>2, <1>5
  <2> QED  BY <1>3, <1>4, <1>5, <2>1
<1>6. CASE Len(read) # 1
  <2>1. Error \in ToSet(read)
    BY <1>1, <1>2, <1>3 DEF ToSet
  <2>2. (CASE Error \in ToSet(read) -> Error
           [] Error \notin ToSet(read) /\ Number \in ToSet(read) -> Number
           [] OTHER -> Zero) = Error
    BY <2>1
  <2> QED  BY <1>4, <1>6, <2>2
<1> QED  BY <1>5, <1>6

\* A formula no spill and no other worksheet is behind, and one that shows its value.
Plain(cs, q) ==
    /\ HasFormula(cs, q) /\ ~Spills(cs[q].f)
    /\ Upstream(cs, q) \cap (SpillCells \cup Outside) = {}
ShowsIt(cs, q) == cs[q].v = Evaluate(cs, cs[q].f)[1]

\* What is behind a cell.
LEMMA UpstreamIs ==
    ASSUME NEW cs \in Sheets, NEW q \in Cells
    PROVE  /\ Reading(cs) \in [Cells -> SUBSET All] /\ Upstream(cs, q) \in SUBSET All
           /\ Reading(cs)[q] \subseteq Upstream(cs, q)
           /\ \A x \in Upstream(cs, q) \cap Cells :
                 Upstream(cs, x) \subseteq Upstream(cs, q) /\ Reading(cs)[x] \subseteq Upstream(cs, q)
           /\ Upstream(cs, q) = Least(Reading(cs), Reading(cs)[q])
<1>1. Reading(cs) \in [Cells -> SUBSET All]
  BY ReadingIs
<1>2. /\ Reading(cs)[q] \subseteq Upstream(cs, q) /\ Upstream(cs, q) \in SUBSET All
      /\ \A x \in Upstream(cs, q) \cap Cells : Upstream(cs, x) \subseteq Upstream(cs, q)
  BY <1>1, BehindIs DEF Upstream
<1>3. \A x \in Upstream(cs, q) \cap Cells : Reading(cs)[x] \subseteq Upstream(cs, x)
  BY <1>1, BehindIs DEF Upstream
<1>4. Upstream(cs, q) = Least(Reading(cs), Reading(cs)[q])
  <2>1. Reading(cs)[q] \in SUBSET All
    BY <1>1
  <2> QED  BY <1>1, <2>1, ClosureIs DEF Upstream
<1> QED  BY <1>1, <1>2, <1>3, <1>4

\* What a plain formula reads.
LEMMA PlainReads ==
    ASSUME NEW cs \in Sheets, NEW q \in Cells, Plain(cs, q)
    PROVE  /\ Reading(cs)[q] = ToSet(cs[q].f.reads) /\ cs[q].f \in Formulas
           /\ Reading(cs)[q] \subseteq Upstream(cs, q) /\ Upstream(cs, q) \subseteq Cells
           /\ \A x \in Upstream(cs, q) : x \notin SpillCells /\ Upstream(cs, x) \subseteq Upstream(cs, q)
           /\ \A x \in Upstream(cs, q) : Reading(cs)[x] \subseteq Upstream(cs, q)
<1>1. cs[q].f \in Formulas /\ Reading(cs)[q] = ToSet(cs[q].f.reads)
  <2>1. cs[q].f \in Formulas
    BY DEF Plain, HasFormula, Sheets, CellType, All
  <2> QED  BY <2>1 DEF Plain, Reading, Reads
<1>2. Upstream(cs, q) \subseteq Cells
  BY UpstreamIs DEF Plain, All
<1> QED  BY <1>1, <1>2, UpstreamIs DEF Plain

LEMMA ShowsStill ==
    ASSUME NEW cs \in Sheets, NEW ds \in Sheets, NEW q \in Cells, Plain(cs, q),
           NEW ps, Differs(cs, ds, ps), q \notin ps, Reading(cs)[q] \cap ps = {}, ShowsIt(cs, q)
    PROVE  ShowsIt(ds, q)
<1>1. ds[q] = cs[q]
  <2>1. q \in All /\ cs[q].f # None
    BY DEF Plain, HasFormula, All
  <2> QED  BY <2>1 DEF Differs
<1>2. \A x \in ToSet(cs[q].f.reads) : ds[x].v = cs[x].v
  <2> SUFFICES ASSUME NEW x \in Reading(cs)[q] PROVE ds[x] = cs[x]
    BY PlainReads
  <2>1. x \in All /\ x \notin SpillCells /\ x \notin ps
    BY PlainReads DEF All
  <2> QED  BY <2>1 DEF Differs
<1>3. Evaluate(ds, cs[q].f) = Evaluate(cs, cs[q].f)
  BY <1>2, EvaluateSame
<1> QED  BY <1>1, <1>3 DEF ShowsIt

\* Nothing is missing in the graph but what depends on spills.
Complete(cs, dependants) ==
    \A p \in Cells : p \notin SpillCells =>
        \A q \in Cells : p \in Reading(cs)[q] => \E k \in DOMAIN dependants[p] : dependants[p][k] = q

LEMMA DependantsComplete ==
    ASSUME NEW cs \in Sheets, NEW order \in Orders, NEW qs \in SUBSET SpillCells,
           NEW D, D = [p \in Cells |-> IF p \in qs THEN <<>> ELSE Dependants(cs, order)[p]]
    PROVE  Complete(cs, D)
<1> SUFFICES ASSUME NEW p \in Cells, p \notin SpillCells, NEW q \in Cells, p \in Reading(cs)[q]
             PROVE  \E k \in DOMAIN D[p] : D[p][k] = q
  BY DEF Complete
<1> DEFINE out == {r \in Cells : ~(HasFormula(cs, r) /\ p \in Reads(cs, r))}
           d == Omitting(order, out)
<1>1. D[p] = d
  BY DEF Dependants
<1>2. Elements(d) = Elements(order) \ out
  <2>1. order \in Seq(Cells)
    BY SheetAssumption
  <2> HIDE DEF out
  <2> QED  BY <2>1, OmittingProperties
<1>3. q \notin out /\ q \in Elements(order)
  BY SheetAssumption DEF Reading
<1> HIDE DEF d
<1>4. q \in Elements(d)
  BY <1>2, <1>3
<1> QED  BY <1>1, <1>4 DEF Elements

\* What is sorted: the cells asked for, and every cell one of them and no spill is behind.
LEMMA SortedBehind ==
    ASSUME NEW cs \in Sheets, NEW dependants, Graph(Reading(cs), dependants),
           Complete(cs, dependants), NEW refs \in Seq(Cells),
           NEW q \in Cells, Upstream(cs, q) \cap SpillCells = {},
           q \in Elements(refs) \/ Upstream(cs, q) \cap Elements(refs) # {}
    PROVE  q \in Elements(TopologicalSort(dependants, refs).sorted)
<1> DEFINE search == TopologicalSort(dependants, refs)
           V == Elements(search.sorted)
           reading == Reading(cs)
           U == Upstream(cs, q)
           C == {x \in U : x \notin V}
<1>1. search \in Searches /\ Ordered(dependants, search)
      /\ search.cycled \subseteq V /\ Elements(refs) \subseteq V
  BY Sorts DEF Graph
<1>2. search.sorted \in Seq(Cells) /\ V \subseteq Cells
  <2>1. search.sorted \in Seq(Cells)
    BY <1>1 DEF Searches
  <2> HIDE DEF search
  <2> QED  BY <2>1 DEF Elements
<1>3. ASSUME NEW p \in Cells, p \notin SpillCells, p \in V, NEW r \in Cells, p \in reading[r]
      PROVE  r \in V
  <2>1. PICK k \in DOMAIN dependants[p] : dependants[p][k] = r
    BY <1>3 DEF Complete
  <2>2. PICK i \in 1 .. Len(search.sorted) : search.sorted[i] = p
    BY <1>2, <1>3 DEF Elements
  <2>3. r \in search.cycled \/ \E j \in 1 .. Len(search.sorted) : search.sorted[j] = r
    BY <1>1, <2>1, <2>2 DEF Ordered
  <2> HIDE DEF search
  <2> QED  BY <1>1, <1>2, <2>3 DEF Elements
<1>4. reading \in [Cells -> SUBSET All] /\ U \in SUBSET All /\ reading[q] \subseteq U
      /\ (\A x \in U \cap Cells : reading[x] \subseteq U) /\ U = Least(reading, reading[q])
  BY UpstreamIs
<1> HIDE DEF U, V, reading
<1> SUFFICES ASSUME q \notin V PROVE FALSE
  BY DEF V
<1>5. \A x \in U : x \notin SpillCells
  BY DEF U
<1>6. reading[q] \subseteq C
  BY <1>2, <1>3, <1>4, <1>5
<1>7. Closed(reading, C)
  <2> SUFFICES ASSUME NEW y \in C \cap Cells, NEW x \in reading[y] PROVE x \in C
    BY DEF Closed
  <2>1. y \in U /\ y \in Cells /\ y \notin V /\ x \in U
    BY <1>4
  <2>2. x \notin V
    BY <1>2, <1>3, <1>5, <2>1
  <2> QED  BY <2>1, <2>2
<1>8. U \subseteq C
  <2>1. C \in SUBSET All /\ reading[q] \in SUBSET All
    BY <1>4
  <2> HIDE DEF C
  <2> QED  BY <1>4, <1>6, <1>7, <2>1, LeastIs
<1>9. Elements(refs) \subseteq V /\ (q \in Elements(refs) \/ U \cap Elements(refs) # {})
  BY <1>1 DEF U, V
<1> QED  BY <1>8, <1>9

LEMMA PlainAlike ==
    ASSUME NEW cs \in Sheets, NEW ds, Alike(cs, ds), NEW q \in Cells
    PROVE  /\ Plain(cs, q) <=> Plain(ds, q)
           /\ Reading(ds) = Reading(cs)
<1>1. Reading(ds) = Reading(cs)
  BY ReadingIs
<1>2. ds[q].f = cs[q].f
  BY DEF Alike
<1>3. Upstream(ds, q) = Upstream(cs, q)
  BY <1>1 DEF Upstream
<1> QED  BY <1>1, <1>2, <1>3 DEF Plain, HasFormula

\* One formula of the order: what depends on it comes later.
LEMMA CalculatedShows ==
    ASSUME NEW s, NEW T, Good(s, T, FALSE, FALSE), NEW ref \in Cells, Circular(s.cells) = {},
           NEW q \in Cells, Plain(s.cells, q), ref \notin Reading(s.cells)[q] \/ ref = q,
           ShowsIt(s.cells, q) \/ ref = q
    PROVE  ShowsIt(Calculated(s, ref, {}).cells, q)
<1> DEFINE cs == s.cells
           ds == Calculated(s, ref, {}).cells
           f == cs[q].f
<1>1. s \in States /\ cs \in Sheets /\ Whole(cs)
  BY DEF Good, States
<1>2. Differs(cs, ds, {ref}) /\ Alike(cs, ds) /\ ds \in Sheets
  <2>1. Good(Calculated(s, ref, {}), T, FALSE, FALSE) /\ Alike(cs, ds)
    BY CalculatedGood
  <2> QED  BY <1>1, <2>1, CalculatedTakes DEF Good, States, Takes
<1>3. HasFormula(cs, q) /\ ~Spills(f)
  BY DEF Plain
<1>4. CASE ref = q
  <2>1. ds[q].v = Evaluate(cs, f)[1] /\ \A x \in All : x # q => ds[x] = cs[x]
    <3> DEFINE none == {}
               u == Calculated(s, q, none)
    <3>1. q \notin none /\ ds = u.cells
      BY <1>4
    <3> HIDE DEF none
    <3>2. Takes(s.cells, u.cells, q, none)
      BY <1>1, CalculatedTakes
    <3> HIDE DEF u, ds
    <3> QED  BY <1>3, <3>1, <3>2 DEF Takes
  <2>2. q \in All /\ cs[q].f # None /\ q \notin Reading(cs)[q]
    <3>1. Uncircled(Reading(cs)) /\ Reading(cs)[q] \subseteq Upstream(cs, q)
      BY <1>1, ReadingIs, PlainReads
    <3> QED  BY <1>3, <3>1 DEF Uncircled, Upstream, HasFormula, All
  <2> HIDE DEF ds
  <2>3. \A x \in ToSet(f.reads) : ds[x].v = cs[x].v
    <3>1. ToSet(f.reads) = Reading(cs)[q] /\ Reading(cs)[q] \subseteq Cells
      BY <1>1, PlainReads
    <3> QED  BY <2>1, <2>2, <3>1 DEF All
  <2>4. Evaluate(ds, f) = Evaluate(cs, f)
    BY <2>3, EvaluateSame
  <2>5. ds[q].f = f
    BY <1>2 DEF Alike, ds
  <2> QED  BY <2>1, <2>4, <2>5 DEF ShowsIt, ds
<1>5. CASE ref # q
  <2> HIDE DEF ds
  <2>1. q \notin {ref} /\ Reading(cs)[q] \cap {ref} = {} /\ ShowsIt(cs, q)
    BY <1>5
  <2> QED  BY <1>1, <1>2, <2>1, ShowsStill DEF ds
<1> QED  BY <1>4, <1>5

\* After a calculation every plain formula shows its value that did so before or depends
\* on a cell the calculation was for.
LEMMA CalculateShows ==
    ASSUME NEW st, NEW T, Good(st, T, FALSE, FALSE), NEW dependants,
           Graph(Reading(st.cells), dependants), Complete(st.cells, dependants),
           Circular(st.cells) = {}, NEW refs \in Seq(Cells),
           \A q \in Cells : Plain(st.cells, q) =>
              \/ ShowsIt(st.cells, q)
              \/ q \in Elements(refs) \/ Upstream(st.cells, q) \cap Elements(refs) # {}
    PROVE  LET t == Calculate(st, dependants, refs)
           IN  \A q \in Cells : Plain(t.cells, q) => ShowsIt(t.cells, q)
<1> DEFINE search == TopologicalSort(dependants, refs)
           sorted == search.sorted
           N == Len(sorted)
           cs == st.cells
           Later(k, q) == \E i \in 1 .. N : i > k /\ sorted[i] = q
           Shows(k, s) == \A q \in Cells : Plain(cs, q) => ShowsIt(s.cells, q) \/ Later(k, q)
<1>1. cs \in Sheets /\ dependants \in Listing /\ Uncircled(Reading(cs))
  BY ReadingIs DEF Good, States, Graph
<1>2. search \in Searches /\ search.cycled = {} /\ Ordered(dependants, search)
  BY <1>1, Sorts
<1>3. N \in Nat /\ DOMAIN sorted = 1 .. N /\ \A k \in 1 .. N : sorted[k] \in Cells
  <2>1. sorted \in Seq(Cells)
    BY <1>2 DEF Searches
  <2> HIDE DEF sorted
  <2> QED  BY <2>1
<1>4. PICK upTo : Calculates(st, dependants, refs, T, FALSE, FALSE, upTo)
  BY <1>1, CalculationRuns
<1>5. /\ upTo[0] = st
      /\ \A k \in 1 .. N : upTo[k] = Calculated(upTo[k - 1], sorted[k], {})
      /\ \A k \in 0 .. N : Good(upTo[k], T, FALSE, FALSE) /\ Alike(cs, upTo[k].cells)
      /\ Calculate(st, dependants, refs) = upTo[N]
  BY <1>2, <1>4 DEF Calculates
<1>6. ASSUME NEW q \in Cells, Plain(cs, q), ~ShowsIt(cs, q)
      PROVE  \E i \in 1 .. N : i > 0 /\ sorted[i] = q
  <2>1. q \in Elements(sorted)
    BY <1>1, <1>6, SortedBehind DEF Plain
  <2> HIDE DEF sorted, N
  <2> QED  BY <1>3, <2>1 DEF Elements
<1>7. ASSUME NEW k \in 1 .. N, NEW q \in Cells, Plain(cs, q), sorted[k] \in Reading(cs)[q]
      PROVE  \E i \in 1 .. N : i > k /\ sorted[i] = q
  <2>1. sorted[k] \in Cells /\ sorted[k] \notin SpillCells
    BY <1>1, <1>3, <1>7, PlainReads
  <2>2. PICK j \in DOMAIN dependants[sorted[k]] : dependants[sorted[k]][j] = q
    BY <1>7, <2>1 DEF Complete
  <2> QED  BY <1>2, <2>2 DEF Ordered
<1> HIDE DEF search, sorted, N
<1>8. Shows(0, upTo[0])
  BY <1>5, <1>6
<1>9. ASSUME NEW k \in 1 .. N, Shows(k - 1, upTo[k - 1])
      PROVE  Shows(k, upTo[k])
  <2> SUFFICES ASSUME NEW q \in Cells, Plain(cs, q), ~Later(k, q)
               PROVE  ShowsIt(upTo[k].cells, q)
    OBVIOUS
  <2> DEFINE s == upTo[k - 1]
             ref == sorted[k]
  <2>1. Good(s, T, FALSE, FALSE) /\ Alike(cs, s.cells) /\ upTo[k] = Calculated(s, ref, {})
        /\ ref \in Cells
    <3>1. k - 1 \in 0 .. N
      BY <1>3
    <3> QED  BY <1>3, <1>5, <3>1
  <2>2. ref \notin Reading(cs)[q]
    BY <1>7
  <2>3. ShowsIt(s.cells, q) \/ ref = q
    <3>1. \A i \in 1 .. N : i > k - 1 => i = k \/ i > k
      BY <1>3
    <3> QED  BY <1>9, <3>1
  <2> HIDE DEF s, ref
  <2>4. Plain(s.cells, q) /\ Reading(s.cells) = Reading(cs) /\ Circular(s.cells) = {}
    BY <1>1, <2>1, PlainAlike, ReadingIs
  <2>5. ShowsIt(Calculated(s, ref, {}).cells, q)
    BY <2>1, <2>2, <2>3, <2>4, CalculatedShows
  <2> QED  BY <2>1, <2>5
<1>10. Shows(N, upTo[N])
  <2> DEFINE S == [k \in 0 .. N |-> {s \in States : Shows(k, s)}]
  <2>1. \A k \in 0 .. N : upTo[k] \in States
    BY <1>5 DEF Good
  <2> HIDE DEF Shows
  <2>2. upTo[0] \in S[0]
    BY <1>3, <1>8, <2>1
  <2>3. \A k \in 1 .. N : upTo[k - 1] \in S[k - 1] => upTo[k] \in S[k]
    <3> SUFFICES ASSUME NEW k \in 1 .. N, upTo[k - 1] \in S[k - 1] PROVE upTo[k] \in S[k]
      OBVIOUS
    <3>1. k - 1 \in 0 .. N /\ k \in 0 .. N
      BY <1>3
    <3>2. Shows(k - 1, upTo[k - 1])
      BY <3>1
    <3> QED  BY <1>9, <2>1, <3>1, <3>2
  <2> HIDE DEF S
  <2>4. \A k \in 0 .. N : upTo[k] \in S[k]
    BY <1>3, <2>2, <2>3, LoopStays
  <2>5. upTo[N] \in S[N]
    BY <1>3, <2>4
  <2> QED  BY <1>3, <2>5 DEF S
<1>11. Alike(cs, upTo[N].cells)
  <2>1. N \in 0 .. N
    BY <1>3
  <2> HIDE DEF cs
  <2> QED  BY <1>5, <2>1
<1> SUFFICES ASSUME NEW q \in Cells, Plain(upTo[N].cells, q) PROVE ShowsIt(upTo[N].cells, q)
  BY <1>5
<1>12. Plain(cs, q)
  BY <1>1, <1>11, PlainAlike
<1>13. ~Later(N, q)
  BY <1>3
<1> QED  BY <1>10, <1>12, <1>13

Current(cs) == \A q \in Cells : Plain(cs, q) => ShowsIt(cs, q)

\* What is behind a cell is what was before, if no cell of it was changed.
LEMMA BehindBefore ==
    ASSUME NEW cs \in Sheets, NEW ds \in Sheets, NEW ps, Differs(cs, ds, ps),
           NEW q \in Cells, q \notin ps, Upstream(ds, q) \cap ps = {}
    PROVE  Upstream(cs, q) = Upstream(ds, q)
<1> DEFINE C == Upstream(ds, q)
           B == Upstream(cs, q)
<1>1. \A x \in Cells : x \notin ps => Reading(cs)[x] = Reading(ds)[x]
  BY DEF Differs, All, Reading, HasFormula, Reads
<1>2. /\ Reading(ds) \in [Cells -> SUBSET All] /\ C \in SUBSET All /\ Reading(ds)[q] \subseteq C
      /\ (\A x \in C \cap Cells : Reading(ds)[x] \subseteq C) /\ C = Least(Reading(ds), Reading(ds)[q])
  BY UpstreamIs
<1>3. /\ Reading(cs) \in [Cells -> SUBSET All] /\ B \in SUBSET All /\ Reading(cs)[q] \subseteq B
      /\ (\A x \in B \cap Cells : Reading(cs)[x] \subseteq B) /\ B = Least(Reading(cs), Reading(cs)[q])
  BY UpstreamIs
<1> HIDE DEF B, C
<1>4. C \cap ps = {} /\ Reading(cs)[q] = Reading(ds)[q]
  BY <1>1 DEF C
<1>5. B \subseteq C
  <2>1. Reading(cs)[q] \subseteq C /\ Closed(Reading(cs), C) /\ Reading(cs)[q] \in SUBSET All
    BY <1>1, <1>2, <1>3, <1>4 DEF Closed
  <2> QED  BY <1>2, <1>3, <2>1, LeastIs
<1>6. C \subseteq B
  <2>1. Reading(ds)[q] \subseteq B /\ Closed(Reading(ds), B) /\ Reading(ds)[q] \in SUBSET All
    BY <1>1, <1>2, <1>3, <1>4, <1>5 DEF Closed
  <2> QED  BY <1>2, <1>3, <2>1, LeastIs
<1> QED  BY <1>5, <1>6 DEF B, C

\* A formula that is plain after cells were changed, and that none of them is behind, was
\* so before.
LEMMA PlainBefore ==
    ASSUME NEW cs \in Sheets, NEW ds \in Sheets, NEW ps, Differs(cs, ds, ps),
           NEW q \in Cells, Plain(ds, q), q \notin ps, Upstream(ds, q) \cap ps = {}
    PROVE  Plain(cs, q) /\ Reading(cs)[q] \cap ps = {}
<1>1. Upstream(cs, q) = Upstream(ds, q)
  BY BehindBefore
<1>2. cs[q] = ds[q]
  <2>1. q \in All /\ ds[q].f # None
    BY DEF Plain, HasFormula, All
  <2> QED  BY <2>1 DEF Differs
<1>3. Plain(cs, q)
  BY <1>1, <1>2 DEF Plain, HasFormula
<1>4. Reading(cs)[q] \subseteq Upstream(ds, q)
  BY <1>1, UpstreamIs
<1> QED  BY <1>3, <1>4

\* After an edit and the calculation for the cells it changed, every plain formula shows
\* its value.
LEMMA EditShows ==
    ASSUME NEW cs \in Sheets, Current(cs), NEW st, NEW T, Good(st, T, FALSE, FALSE),
           NEW dependants, Graph(Reading(st.cells), dependants), Complete(st.cells, dependants),
           NEW refs \in Seq(Cells), NEW ps \in SUBSET Elements(refs), Differs(cs, st.cells, ps),
           Circular(Calculate(st, dependants, refs).cells) = {}
    PROVE  Current(Calculate(st, dependants, refs).cells)
<1> DEFINE t == Calculate(st, dependants, refs)
<1>1. st.cells \in Sheets /\ dependants \in Listing
  BY DEF Good, States, Graph
<1>2. Alike(st.cells, t.cells)
  BY <1>1, CalculateGood
<1> HIDE DEF t
<1>3. Circular(st.cells) = {}
  BY <1>1, <1>2, ReadingIs DEF t
<1>4. ASSUME NEW q \in Cells, Plain(st.cells, q)
      PROVE  \/ ShowsIt(st.cells, q)
             \/ q \in Elements(refs) \/ Upstream(st.cells, q) \cap Elements(refs) # {}
  <2> SUFFICES ASSUME q \notin Elements(refs), Upstream(st.cells, q) \cap Elements(refs) = {}
               PROVE  ShowsIt(st.cells, q)
    OBVIOUS
  <2>1. q \notin ps /\ Upstream(st.cells, q) \cap ps = {}
    OBVIOUS
  <2>2. Plain(cs, q) /\ Reading(cs)[q] \cap ps = {}
    BY <1>1, <1>4, <2>1, PlainBefore
  <2>3. ShowsIt(cs, q)
    BY <2>2 DEF Current
  <2> QED  BY <1>1, <2>1, <2>2, <2>3, ShowsStill
<1>5. \A q \in Cells : Plain(t.cells, q) => ShowsIt(t.cells, q)
  BY <1>1, <1>3, <1>4, CalculateShows DEF t
<1> QED  BY <1>5 DEF Current, t

LEMMA VacatedDiffers ==
    ASSUME NEW st, st.cells \in Sheets, Whole(st.cells), NEW p \in Cells
    PROVE  Differs(st.cells, Vacated(st, p).cells, {p})
<1> DEFINE ds == WithoutGhosts(st.cells, p)
           es == [ds EXCEPT ![p] = Empty]
<1>1. Differs(st.cells, ds, {})
  BY WithoutGhostsDiffers
<1>2. Vacated(st, p).cells = es
  BY DEF Vacated
<1> HIDE DEF ds
<1>3. \A x \in All : x # p => es[x] = ds[x]
  OBVIOUS
<1> HIDE DEF es
<1>4. Differs(ds, es, {p})
  BY <1>3 DEF Differs
<1>5. Differs(st.cells, es, {} \cup {p})
  BY <1>1, <1>4, DiffersFurther
<1>6. {} \cup {p} = {p}
  OBVIOUS
<1> QED  BY <1>2, <1>5, <1>6

LEMMA DependantsAllComplete ==
    ASSUME NEW cs \in Sheets, NEW order \in Orders
    PROVE  Complete(cs, Dependants(cs, order))
<1> DEFINE D == Dependants(cs, order)
           forgotten == {}
           E == [p \in Cells |-> IF p \in forgotten THEN <<>> ELSE Dependants(cs, order)[p]]
<1>1. E = D
  <2>1. D = [p \in Cells |-> D[p]]
    BY DEF Dependants
  <2> HIDE DEF D
  <2> QED  BY <2>1 DEF D
<1>2. E = [p \in Cells |-> IF p \in forgotten THEN <<>> ELSE Dependants(cs, order)[p]]
      /\ forgotten \in SUBSET SpillCells
  OBVIOUS
<1> HIDE DEF E, forgotten
<1>3. Complete(cs, E)
  BY <1>2, DependantsComplete
<1> QED  BY <1>1, <1>3

LEMMA WaitingSpills ==
    ASSUME NEW bs \in Notes, NEW p
    PROVE  ToSet(Waiting(bs, p)) \subseteq SpillCells
<1>1. CASE p \notin DOMAIN bs
  <2>1. ToSet(<<>>) = {}
    BY DEF ToSet
  <2> QED  BY <1>1, <2>1 DEF Waiting
<1>2. CASE p \in DOMAIN bs
  <2>1. Waiting(bs, p) = <<bs[p]>> /\ bs[p] \in SpillCells
    BY <1>2, NotesAre DEF Waiting
  <2>2. ToSet(<<bs[p]>>) = {bs[p]}
    BY DEF ToSet
  <2> QED  BY <2>1, <2>2
<1> QED  BY <1>1, <1>2

-----------------------------------------------------------------------------
(* The edits.                                                               *)

LEMMA CalculateRight ==
    ASSUME NEW st, NEW T, NEW h \in BOOLEAN, NEW n \in BOOLEAN, Good(st, T, h, n),
           NEW dependants, Graph(Reading(st.cells), dependants), NEW refs \in Seq(Cells),
           h \/ n => Circular(Calculate(st, dependants, refs).cells) = {}
    PROVE  LET t == Calculate(st, dependants, refs)
           IN  Good(t, T, h, n) /\ Alike(st.cells, t.cells)
<1> DEFINE t == Calculate(st, dependants, refs)
<1>1. st.cells \in Sheets /\ dependants \in Listing
  BY DEF Good, States, Graph
<1>2. Alike(st.cells, t.cells)
  <2>1. Good(st, T, FALSE, FALSE)
    BY DEF Good
  <2> QED  BY <1>1, <2>1, CalculateGood
<1> HIDE DEF t
<1>3. h \/ n => Circular(st.cells) = {}
  BY <1>1, <1>2, ReadingIs DEF t
<1>4. h \/ n => \E reading : Graph(reading, dependants) /\ Uncircled(reading)
  BY <1>1, <1>3, ReadingIs
<1> QED  BY <1>1, <1>4, CalculateGood DEF t

\* What setData makes ready for the calculation it ends with.
Ready(st, t, T, h, n, p, ready, dependants, refs) ==
    /\ t = Calculate(ready, dependants, refs)
    /\ Good(ready, T, h, n) /\ Graph(Reading(ready.cells), dependants)
    /\ refs \in Seq(Cells) /\ p \in Elements(refs)
    /\ Differs(st.cells, ready.cells, {p})
    /\ Complete(ready.cells, dependants)

LEMMA SetReady ==
    ASSUME NEW st, NEW T, NEW h \in BOOLEAN, NEW n \in BOOLEAN, Good(st, T, h, n),
           NEW m \in DOMAIN Inputs, NEW order \in Orders
    PROVE  \E ready, dependants, refs :
              Ready(st, Set(st, Inputs[m][1], Inputs[m][2], order),
                    [T EXCEPT ![Inputs[m][1]] = Inputs[m][2]], h, n, Inputs[m][1],
                    ready, dependants, refs)
<1> DEFINE p == Inputs[m][1]
           x == Inputs[m][2]
           U == [T EXCEPT ![p] = x]
           c == IF x \in Formulas THEN Content(Blank, x) ELSE Content(x, None)
           left == Vacated(st, p)
           filled == [left EXCEPT !.cells[p] = c]
           ready == [filled EXCEPT !.blockers = Consumed(@, p)]
           retry == Waiting(filled.blockers, p)
           listed == Dependants(filled.cells, order)
           D == [q \in Cells |-> IF q \in ToSet(retry) THEN <<>> ELSE listed[q]]
           t == Set(st, p, x, order)
<1>1. p \in Cells /\ x \in Formulas \cup {Number, Blank} /\ (x \in Formulas => x.over[1] = p)
  BY InputsAssumption DEF Formulas
<1>2. t = Calculate(ready, D, <<p>> \o retry)
  BY DEF Set
<1> HIDE DEF p, x, c
<1>3. /\ Good(left, [T EXCEPT ![p] = Blank], h, n)
      /\ h => Unhaunted(left.cells, p)
      /\ n => \A q \in DOMAIN left.blockers : left.blockers[q] # p
  BY <1>1, VacatedGood
<1>4. left = [cells |-> left.cells, blockers |-> left.blockers] /\ left.blockers \in Notes
      /\ T \in Typings
  BY <1>3 DEF Good, States
<1> HIDE DEF left
<1>5. filled = [cells |-> [left.cells EXCEPT ![p] = c], blockers |-> left.blockers]
  BY <1>4
<1> HIDE DEF filled
<1>6. Good(filled, U, h, n)
  <2> DEFINE V == [T EXCEPT ![p] = Blank]
  <2>1. [V EXCEPT ![p] = x] = U
    BY <1>1, <1>4 DEF Typings
  <2> HIDE DEF V, U
  <2>2. IF x \in Formulas THEN c = Content(Blank, x) /\ x.over[1] = p ELSE c = Content(x, None)
    BY <1>1 DEF c
  <2>3. Good(left, V, h, n)
    BY <1>3 DEF V
  <2>4. Good([cells |-> [left.cells EXCEPT ![p] = c], blockers |-> left.blockers],
             [V EXCEPT ![p] = x], h, n)
    <3>1. /\ h => Unhaunted(left.cells, p)
          /\ n => \A q \in DOMAIN left.blockers : left.blockers[q] # p
      BY <1>3
    <3>2. p \in Cells /\ x \in Formulas \cup {Number, Blank}
      BY <1>1
    <3> QED  BY <2>2, <2>3, <3>1, <3>2, PutGood
  <2> QED  BY <1>5, <2>1, <2>4
<1>7. filled.blockers = left.blockers
  BY <1>5
<1>8. ready = [cells |-> filled.cells, blockers |-> Consumed(filled.blockers, p)]
  BY <1>5
<1> HIDE DEF ready, U
<1>9. Good(ready, U, h, n)
  <2>1. /\ Consumed(filled.blockers, p) \in Notes
        /\ \A q \in DOMAIN Consumed(filled.blockers, p) :
              q \in DOMAIN filled.blockers
              /\ Consumed(filled.blockers, p)[q] = filled.blockers[q]
    BY <1>4, <1>7, WithoutBlockersIs
  <2> DEFINE es == Consumed(filled.blockers, p)
  <2> HIDE DEF es
  <2>2. Good([cells |-> filled.cells, blockers |-> es], U, h, n)
    BY <1>6, <2>1, FewerBlockers DEF es
  <2> QED  BY <1>8, <2>2 DEF es
<1>10. ready.cells = filled.cells /\ ready.cells \in Sheets
  BY <1>8, <1>9 DEF Good, States
<1>11. Graph(Reading(ready.cells), D)
  BY <1>10, DependantsAre
<1>12. <<p>> \o retry \in Seq(Cells)
  <2>1. retry \in Seq(Cells)
    BY <1>4, <1>7, WithoutBlockersIs
  <2> HIDE DEF retry
  <2> QED  BY <1>1, <2>1
<1>13. p \in Elements(<<p>> \o retry)
  <2>1. retry \in Seq(Cells)
    BY <1>4, <1>7, WithoutBlockersIs
  <2> HIDE DEF retry
  <2>2. (<<p>> \o retry)[1] = p /\ 1 \in DOMAIN (<<p>> \o retry)
    BY <1>1, <2>1
  <2> QED  BY <2>2 DEF Elements
<1>14. Complete(ready.cells, D)
  <2>1. ToSet(retry) \subseteq SpillCells
    BY <1>4, <1>7, WaitingSpills
  <2>2. D = [q \in Cells |-> IF q \in ToSet(retry) THEN <<>> ELSE Dependants(ready.cells, order)[q]]
    BY <1>10
  <2> HIDE DEF retry, D
  <2> QED  BY <1>10, <2>1, <2>2, DependantsComplete
<1>15. Differs(st.cells, ready.cells, {p})
  <2>1. Differs(st.cells, left.cells, {p})
    BY <1>1, VacatedDiffers DEF left, Good, States
  <2>2. \A y \in All : y # p => filled.cells[y] = left.cells[y]
    BY <1>5
  <2>3. Differs(left.cells, filled.cells, {p})
    BY <2>2 DEF Differs
  <2>4. Differs(st.cells, filled.cells, {p} \cup {p})
    BY <2>1, <2>3, DiffersFurther
  <2> QED  BY <1>10, <2>4
<1>16. Ready(st, t, U, h, n, p, ready, D, <<p>> \o retry)
  <2> HIDE DEF retry, D, t
  <2> QED  BY <1>2, <1>9, <1>11, <1>12, <1>13, <1>14, <1>15 DEF Ready
<1> HIDE DEF retry, D
<1> QED  BY <1>16 DEF U, p, x, t

\* setData.
LEMMA SetGood ==
    ASSUME NEW st, NEW T, NEW h \in BOOLEAN, NEW n \in BOOLEAN, Good(st, T, h, n),
           NEW m \in DOMAIN Inputs, NEW order \in Orders,
           h \/ n => Circular(Set(st, Inputs[m][1], Inputs[m][2], order).cells) = {}
    PROVE  Good(Set(st, Inputs[m][1], Inputs[m][2], order),
                [T EXCEPT ![Inputs[m][1]] = Inputs[m][2]], h, n)
<1> DEFINE t == Set(st, Inputs[m][1], Inputs[m][2], order)
           U == [T EXCEPT ![Inputs[m][1]] = Inputs[m][2]]
<1>1. PICK ready, dependants, refs :
         Ready(st, t, U, h, n, Inputs[m][1], ready, dependants, refs)
  BY SetReady
<1>2. h \/ n => Circular(t.cells) = {}
  OBVIOUS
<1> HIDE DEF t, U
<1> QED  BY <1>1, <1>2, CalculateRight DEF Ready, t, U

LEMMA SetShows ==
    ASSUME NEW st, NEW T, Good(st, T, FALSE, FALSE), Current(st.cells),
           NEW m \in DOMAIN Inputs, NEW order \in Orders,
           Circular(Set(st, Inputs[m][1], Inputs[m][2], order).cells) = {}
    PROVE  Current(Set(st, Inputs[m][1], Inputs[m][2], order).cells)
<1> DEFINE t == Set(st, Inputs[m][1], Inputs[m][2], order)
           U == [T EXCEPT ![Inputs[m][1]] = Inputs[m][2]]
           p == Inputs[m][1]
<1>1. PICK ready, dependants, refs : Ready(st, t, U, FALSE, FALSE, p, ready, dependants, refs)
  BY SetReady
<1>2. Circular(t.cells) = {} /\ st.cells \in Sheets
  BY DEF Good, States
<1> HIDE DEF t, U, p
<1>3. {p} \in SUBSET Elements(refs)
  BY <1>1 DEF Ready
<1> QED  BY <1>1, <1>2, <1>3, EditShows DEF Ready, t

\* removeData.
Removed(T, list, k) == [q \in Cells |-> IF \E i \in 1 .. k : list[i] = q THEN Blank ELSE T[q]]

LEMMA EmptiedGood ==
    ASSUME NEW st, NEW T, NEW h \in BOOLEAN, NEW n \in BOOLEAN, Good(st, T, h, n),
           NEW list \in Seq(Cells)
    PROVE  LET t == Emptied(st, list)
           IN  /\ Good(t.st, Removed(T, list, Len(list)), h, n) /\ t.retry \in Seq(Cells)
               /\ Differs(st.cells, t.st.cells, Elements(list))
<1> DEFINE N == Len(list)
           Next1(x, p) == [st |-> [Vacated(x.st, p) EXCEPT !.blockers = Consumed(@, p)],
                           retry |-> x.retry \o Waiting(Vacated(x.st, p).blockers, p)]
           start == [st |-> st, retry |-> <<>>]
           Goes(g) == g = [k \in 0 .. N |-> IF k = 0 THEN start ELSE Next1(g[k - 1], list[k])]
           taken == CHOOSE g : Goes(g)
           X == [st : States, retry : Seq(Cells)]
           op == [k \in 1 .. N |-> [x \in X |-> Next1(x, list[k])]]
           Far(x) == Differs(st.cells, x.st.cells, Elements(list))
           S == [k \in 0 .. N |-> {x \in X : Good(x.st, Removed(T, list, k), h, n) /\ Far(x)}]
<1>1. N \in Nat /\ \A k \in 1 .. N : list[k] \in Cells
  OBVIOUS
<1>2. start \in S[0]
  <2>1. Removed(T, list, 0) = T
    BY DEF Good, Typings, Removed
  <2>2. st \in States /\ start \in X
    BY DEF Good
  <2>3. Far(start)
    BY DEF Differs
  <2> HIDE DEF X, Far
  <2> QED  BY <1>1, <2>1, <2>2, <2>3
<1>3. ASSUME NEW k \in 1 .. N, NEW x \in X, Good(x.st, Removed(T, list, k - 1), h, n), Far(x)
      PROVE  /\ Next1(x, list[k]) \in X /\ Good(Next1(x, list[k]).st, Removed(T, list, k), h, n)
             /\ Far(Next1(x, list[k]))
  <2> DEFINE p == list[k]
             left == Vacated(x.st, p)
             U == Removed(T, list, k - 1)
             es == Consumed(left.blockers, p)
             r == x.retry \o Waiting(left.blockers, p)
  <2>1. p \in Cells /\ x.retry \in Seq(Cells)
    BY <1>1
  <2>2. [U EXCEPT ![p] = Blank] = Removed(T, list, k)
    <3>1. \A i \in 1 .. k : i = k \/ i \in 1 .. k - 1
      BY <1>1
    <3>2. \A i \in 1 .. k - 1 : i \in 1 .. k
      BY <1>1
    <3>3. k \in 1 .. k
      BY <1>1
    <3>4. \A q \in Cells : (\E i \in 1 .. k : list[i] = q) <=> (q = p \/ \E i \in 1 .. k - 1 : list[i] = q)
      BY <3>1, <3>2, <3>3
    <3> DEFINE Is(q) == \E i \in 1 .. k : list[i] = q
               Was(q) == \E i \in 1 .. k - 1 : list[i] = q
    <3>5. Removed(T, list, k) = [q \in Cells |-> IF Is(q) THEN Blank ELSE T[q]]
      BY DEF Removed
    <3>6. U = [q \in Cells |-> IF Was(q) THEN Blank ELSE T[q]]
      BY DEF Removed
    <3>7. \A q \in Cells : Is(q) <=> (q = p \/ Was(q))
      BY <3>4
    <3> HIDE DEF Is, Was, U, p
    <3> QED  BY <3>5, <3>6, <3>7
  <2> HIDE DEF p, U
  <2>3. Good(left, Removed(T, list, k), h, n)
    <3>1. Good(left, [U EXCEPT ![p] = Blank], h, n)
      BY <1>3, <2>1, VacatedGood DEF U
    <3> QED  BY <2>2, <3>1
  <2>4. left = [cells |-> left.cells, blockers |-> left.blockers] /\ left.blockers \in Notes
    BY <2>3 DEF Good, States
  <2> HIDE DEF left
  <2>5. [left EXCEPT !.blockers = Consumed(@, p)] = [cells |-> left.cells, blockers |-> es]
    BY <2>4
  <2>6. es \in Notes /\ r \in Seq(Cells)
        /\ \A q \in DOMAIN es : q \in DOMAIN left.blockers /\ es[q] = left.blockers[q]
    <3>1. Waiting(left.blockers, p) \in Seq(Cells)
      BY <2>4, WithoutBlockersIs
    <3>2. es \in Notes
          /\ \A q \in DOMAIN es : q \in DOMAIN left.blockers /\ es[q] = left.blockers[q]
      BY <2>4, WithoutBlockersIs
    <3>3. r \in Seq(Cells)
      BY <2>1, <3>1
    <3> QED  BY <3>2, <3>3
  <2> HIDE DEF es, r
  <2>7. Good([cells |-> left.cells, blockers |-> es], Removed(T, list, k), h, n)
    BY <2>3, <2>6, FewerBlockers
  <2>8. Next1(x, list[k]) = [st |-> [cells |-> left.cells, blockers |-> es], retry |-> r]
    BY <2>5 DEF left, p, r
  <2>9. [cells |-> left.cells, blockers |-> es] \in States
    BY <2>7 DEF Good
  <2>10. Differs(st.cells, left.cells, Elements(list))
    <3>1. Differs(x.st.cells, left.cells, {p})
      BY <1>3, <2>1, VacatedDiffers DEF Good, States, left
    <3>2. p \in Elements(list)
      BY <1>1 DEF p, Elements
    <3>3. Differs(st.cells, left.cells, Elements(list) \cup {p})
      BY <1>3, <3>1, DiffersFurther
    <3>4. Elements(list) \cup {p} = Elements(list)
      BY <3>2
    <3> QED  BY <3>3, <3>4
  <2> QED  BY <2>6, <2>7, <2>8, <2>9, <2>10
<1> HIDE DEF Next1, X, start, Far
<1>4. \A k \in 1 .. N : \A x \in S[k - 1] : op[k][x] = Next1(x, list[k]) /\ op[k][x] \in S[k]
  <2> SUFFICES ASSUME NEW k \in 1 .. N, NEW x \in S[k - 1]
               PROVE  op[k][x] = Next1(x, list[k]) /\ op[k][x] \in S[k]
    OBVIOUS
  <2>1. k \in 0 .. N /\ k - 1 \in 0 .. N
    BY <1>1
  <2>2. x \in X /\ Good(x.st, Removed(T, list, k - 1), h, n) /\ Far(x)
    BY <2>1
  <2>3. op[k][x] = Next1(x, list[k])
    BY <2>2
  <2>4. /\ Next1(x, list[k]) \in X /\ Good(Next1(x, list[k]).st, Removed(T, list, k), h, n)
        /\ Far(Next1(x, list[k]))
    BY <1>3, <2>2
  <2> HIDE DEF op
  <2> QED  BY <2>1, <2>3, <2>4
<1> HIDE DEF op, S
<1>5. PICK g : Loop(g, N, start, op)
  <2>1. \A k \in 1 .. N : \A x \in S[k - 1] : op[k][x] \in S[k]
    BY <1>4
  <2> HIDE DEF N
  <2> QED  BY <1>1, <1>2, <2>1, LoopRuns
<1>6. /\ g = [k \in 0 .. N |-> IF k = 0 THEN start ELSE op[k][g[k - 1]]]
      /\ g[0] = start /\ \A k \in 1 .. N : g[k] = op[k][g[k - 1]]
  <2> HIDE DEF N
  <2> QED  BY <1>1, <1>5 DEF Loop
<1>7. \A k \in 0 .. N : g[k] \in S[k]
  <2>1. g[0] \in S[0] /\ \A k \in 1 .. N : g[k - 1] \in S[k - 1] => g[k] \in S[k]
    BY <1>2, <1>4, <1>6
  <2> HIDE DEF N
  <2> QED  BY <1>1, <2>1, LoopStays
<1>8. Goes(g)
  <2>1. \A k \in 1 .. N : op[k][g[k - 1]] = Next1(g[k - 1], list[k])
    <3>1. \A k \in 1 .. N : k - 1 \in 0 .. N
      BY <1>1
    <3> QED  BY <1>4, <1>7, <3>1
  <2> QED  BY <1>1, <1>6, <2>1
<1>9. Goes(taken)
  <2> HIDE DEF Goes
  <2> QED  BY <1>8
<1> HIDE DEF taken
<1>10. \A k \in 0 .. N : taken[k] \in S[k]
  <2>1. taken[0] = start /\ \A k \in 1 .. N : taken[k] = Next1(taken[k - 1], list[k])
    BY <1>1, <1>9
  <2>2. taken[0] \in S[0] /\ \A k \in 1 .. N : taken[k - 1] \in S[k - 1] => taken[k] \in S[k]
    BY <1>2, <1>4, <2>1
  <2> HIDE DEF N
  <2> QED  BY <1>1, <2>2, LoopStays
<1>11. taken[N] \in S[N]
  <2> HIDE DEF N
  <2> QED  BY <1>1, <1>10
<1>12. /\ Good(taken[N].st, Removed(T, list, N), h, n) /\ taken[N].retry \in Seq(Cells)
       /\ Differs(st.cells, taken[N].st.cells, Elements(list))
  BY <1>1, <1>11 DEF S, X, Far
<1>13. Emptied(st, list) = taken[N]
  BY DEF Emptied, taken, Next1, start
<1> QED  BY <1>12, <1>13

-----------------------------------------------------------------------------
(* The invariant.                                                           *)

\* Ghosts are right until somebody makes a circular reference, and blockers as long as
\* no collaborator edits the sheet, too.
SheetIsClean ==
    /\ circular \in BOOLEAN /\ unlike \in BOOLEAN
    /\ Good([cells |-> cells, blockers |-> blockers], typed, ~circular, ~circular /\ ~unlike)
Flags == {None, TRUE, FALSE}
SyncIsTyped ==
    /\ frame \in Flags /\ running \in Flags /\ pending \in BOOLEAN
    /\ cache = None \/ cache \subseteq Cells
    /\ loaded \in 0 .. arrived /\ arrived \in 0 .. MaxRemote
CleanInv == SheetIsClean /\ SyncIsTyped

LEMMA BecomeGood ==
    ASSUME SheetIsClean, unlike' \in BOOLEAN, unlike => unlike',
           NEW st, NEW changed, NEW x, Become(st, changed, x),
           NEW T, T = [q \in Cells |-> IF q \in changed THEN x ELSE typed[q]],
           \A h \in BOOLEAN, n \in BOOLEAN :
              (h \/ n => Circular(st.cells) = {}) /\ (h => ~circular)
                 /\ (n => ~circular /\ ~unlike /\ ~unlike')
                 => Good(st, T, h, n)
    PROVE  SheetIsClean'
<1>1. /\ cells' = st.cells /\ blockers' = st.blockers /\ typed' = T
      /\ circular' = (circular \/ Circular(st.cells) # {})
  BY DEF Become
<1>2. circular' \in BOOLEAN
  BY <1>1 DEF SheetIsClean
<1>3. Good(st, T, ~circular', ~circular' /\ ~unlike')
  <2> DEFINE h == ~circular'
             n == ~circular' /\ ~unlike'
  <2>1. h \in BOOLEAN /\ n \in BOOLEAN
    OBVIOUS
  <2>2. (h \/ n => Circular(st.cells) = {}) /\ (h => ~circular)
        /\ (n => ~circular /\ ~unlike /\ ~unlike')
    BY <1>1
  <2> HIDE DEF h, n
  <2>3. Good(st, T, h, n)
    BY <2>1, <2>2
  <2> QED  BY <2>3 DEF h, n
<1>4. st = [cells |-> st.cells, blockers |-> st.blockers]
  BY <1>3 DEF Good, States
<1>5. Good([cells |-> cells', blockers |-> blockers'], typed', ~circular', ~circular' /\ ~unlike')
  BY <1>1, <1>3, <1>4
<1> QED  BY <1>2, <1>5 DEF SheetIsClean

\* What the sheet is worth to an edit.
LEMMA BeforeEdit ==
    ASSUME SheetIsClean, NEW h \in BOOLEAN, NEW n \in BOOLEAN,
           h => ~circular, n => ~circular /\ ~unlike
    PROVE  Good([cells |-> cells, blockers |-> blockers], typed, h, n)
BY DEF SheetIsClean, Good

LEMMA SetDataGood ==
    ASSUME SheetIsClean, UNCHANGED unlike, NEW m \in DOMAIN Inputs, NEW order \in Orders,
           SetData(Inputs[m][1], Inputs[m][2], order)
    PROVE  SheetIsClean'
<1> DEFINE p == Inputs[m][1]
           x == Inputs[m][2]
           st == [cells |-> cells, blockers |-> blockers]
           t == Set(st, p, x, order)
           T == [q \in Cells |-> IF q \in {p} THEN x ELSE typed[q]]
<1>1. CASE cells[p].ghostOf # None
  <2>1. UNCHANGED <<cells, blockers, typed, circular, unlike>>
    BY <1>1 DEF SetData
  <2> QED  BY <2>1 DEF SheetIsClean
<1>2. CASE cells[p].ghostOf = None
  <2>1. Become(t, {p}, x)
    BY <1>2 DEF SetData
  <2>2. [typed EXCEPT ![p] = x] = T
    BY DEF SheetIsClean, Good, Typings
  <2>3. ASSUME NEW h \in BOOLEAN, NEW n \in BOOLEAN, h \/ n => Circular(t.cells) = {},
               h => ~circular, n => ~circular /\ ~unlike
        PROVE  Good(t, T, h, n)
    <3>1. Good(st, typed, h, n)
      BY <2>3, BeforeEdit
    <3> HIDE DEF st, T
    <3>2. Good(t, [typed EXCEPT ![p] = x], h, n)
      BY <2>3, <3>1, SetGood
    <3> QED  BY <2>2, <3>2
  <2>4. unlike' \in BOOLEAN /\ (unlike => unlike')
    BY DEF SheetIsClean
  <2> HIDE DEF t
  <2>5. \A h \in BOOLEAN, n \in BOOLEAN :
           (h \/ n => Circular(t.cells) = {}) /\ (h => ~circular)
              /\ (n => ~circular /\ ~unlike /\ ~unlike') => Good(t, T, h, n)
    BY <2>3
  <2> HIDE DEF T
  <2> QED  BY <2>1, <2>4, <2>5, BecomeGood DEF T
<1> QED  BY <1>1, <1>2

LEMMA RemoveDataGood ==
    ASSUME SheetIsClean, UNCHANGED unlike, NEW selection \in Selections, NEW order \in Orders,
           RemoveData(selection, order)
    PROVE  SheetIsClean'
<1> DEFINE removed == Omitting(selection, {p \in Cells : ~InTheWay(cells, p)})
           st == [cells |-> cells, blockers |-> blockers]
           after == Emptied(st, removed)
           D == Dependants(after.st.cells, order)
           t == Calculate(after.st, D, removed \o after.retry)
           T == [q \in Cells |-> IF q \in ToSet(removed) THEN Blank ELSE typed[q]]
<1>1. CASE removed = <<>>
  <2>1. UNCHANGED <<cells, blockers, typed, circular, unlike>>
    BY <1>1 DEF RemoveData
  <2> QED  BY <2>1 DEF SheetIsClean
<1>2. CASE removed # <<>>
  <2>1. Become(t, ToSet(removed), Blank)
    BY <1>2 DEF RemoveData
  <2>2. removed \in Seq(Cells)
    <3>1. selection \in Seq(Cells)
      BY SheetAssumption
    <3> QED  BY <3>1, OmittingProperties
  <2> HIDE DEF removed
  <2>3. Removed(typed, removed, Len(removed)) = T
    <3>1. DOMAIN removed = 1 .. Len(removed)
      BY <2>2
    <3>2. \A q \in Cells : q \in ToSet(removed) <=> \E i \in 1 .. Len(removed) : removed[i] = q
      BY <3>1 DEF ToSet
    <3> QED  BY <3>2 DEF Removed
  <2> HIDE DEF st, T
  <2>4. ASSUME NEW h \in BOOLEAN, NEW n \in BOOLEAN, h \/ n => Circular(t.cells) = {},
               h => ~circular, n => ~circular /\ ~unlike
        PROVE  Good(t, T, h, n)
    <3>1. Good(st, typed, h, n)
      BY <2>4, BeforeEdit DEF st
    <3>2. Good(after.st, T, h, n) /\ after.retry \in Seq(Cells)
      BY <2>2, <2>3, <3>1, EmptiedGood
    <3> DEFINE u == after.st
               refs == removed \o after.retry
    <3>3. refs \in Seq(Cells)
      <4> HIDE DEF after
      <4> QED  BY <2>2, <3>2
    <3>4. u.cells \in Sheets
      BY <3>2 DEF Good, States
    <3>5. Graph(Reading(u.cells), D)
      <4> HIDE DEF after
      <4> QED  BY <3>4, DependantsAll
    <3>6. h \/ n => Circular(Calculate(u, D, refs).cells) = {}
      BY <2>4
    <3> HIDE DEF u, refs, D
    <3>7. Good(Calculate(u, D, refs), T, h, n)
      BY <3>2, <3>3, <3>5, <3>6, CalculateRight DEF u
    <3> QED  BY <3>7 DEF u, refs
  <2>5. unlike' \in BOOLEAN /\ (unlike => unlike')
    BY DEF SheetIsClean
  <2> HIDE DEF t
  <2>6. \A h \in BOOLEAN, n \in BOOLEAN :
           (h \/ n => Circular(t.cells) = {}) /\ (h => ~circular)
              /\ (n => ~circular /\ ~unlike /\ ~unlike') => Good(t, T, h, n)
    BY <2>4
  <2> QED  BY <2>1, <2>5, <2>6, BecomeGood DEF T
<1> QED  BY <1>1, <1>2

LEMMA RecalculateGood ==
    ASSUME SheetIsClean, SyncIsTyped, UNCHANGED unlike, NEW order \in Orders, Recalculate(order)
    PROVE  SheetIsClean' /\ cache' \subseteq Cells
<1> DEFINE roots == IF cache # None THEN cache ELSE {p \in Cells : ReadsOutside(cells, p)}
           st == [cells |-> cells, blockers |-> blockers]
           D == Dependants(cells, order)
           refs == Omitting(order, Cells \ roots)
           t == Calculate(st, D, refs)
           T == [q \in Cells |-> IF q \in {} THEN Blank ELSE typed[q]]
<1>1. Become(t, {}, Blank) /\ cache' = roots
  BY DEF Recalculate
<1>2. roots \subseteq Cells
  BY DEF SyncIsTyped
<1> HIDE DEF roots
<1>3. refs \in Seq(Cells)
  <2>1. order \in Seq(Cells)
    BY SheetAssumption
  <2> QED  BY <2>1, OmittingProperties
<1>4. T = typed
  BY DEF SheetIsClean, Good, Typings
<1>5. cells \in Sheets
  BY DEF SheetIsClean, Good, States
<1>6. Graph(Reading(cells), D)
  BY <1>5, DependantsAll
<1> HIDE DEF refs, D
<1>7. ASSUME NEW h \in BOOLEAN, NEW n \in BOOLEAN, h \/ n => Circular(t.cells) = {},
             h => ~circular, n => ~circular /\ ~unlike
      PROVE  Good(t, T, h, n)
  <2>1. Good(st, typed, h, n)
    BY <1>7, BeforeEdit
  <2>2. st.cells = cells
    OBVIOUS
  <2> HIDE DEF st
  <2>3. Good(t, typed, h, n)
    BY <1>3, <1>6, <1>7, <2>1, <2>2, CalculateRight
  <2> QED  BY <1>4, <2>3
<1>8. unlike' \in BOOLEAN /\ (unlike => unlike')
  BY DEF SheetIsClean
<1> HIDE DEF t
<1>9. \A h \in BOOLEAN, n \in BOOLEAN :
         (h \/ n => Circular(t.cells) = {}) /\ (h => ~circular)
            /\ (n => ~circular /\ ~unlike /\ ~unlike') => Good(t, T, h, n)
  BY <1>7
<1> HIDE DEF T
<1>10. SheetIsClean'
  BY <1>1, <1>8, <1>9, BecomeGood DEF T
<1> QED  BY <1>1, <1>2, <1>10

LEMMA RemoteEditGood ==
    ASSUME SheetIsClean, unlike' = TRUE, NEW m \in DOMAIN Inputs, NEW order \in Orders,
           Become([Set([cells |-> cells, blockers |-> <<>>], Inputs[m][1], Inputs[m][2], order)
                      EXCEPT !.blockers = blockers], {Inputs[m][1]}, Inputs[m][2])
    PROVE  SheetIsClean'
<1> DEFINE p == Inputs[m][1]
           x == Inputs[m][2]
           st == [cells |-> cells, blockers |-> <<>>]
           after == Set(st, p, x, order)
           t == [after EXCEPT !.blockers = blockers]
           T == [q \in Cells |-> IF q \in {p} THEN x ELSE typed[q]]
<1>1. Become(t, {p}, x)
  OBVIOUS
<1>2. [typed EXCEPT ![p] = x] = T
  BY DEF SheetIsClean, Good, Typings
<1>3. blockers \in Notes /\ cells \in Sheets
  BY DEF SheetIsClean, Good, States
<1>4. st \in States
  <2>1. <<>> \in [{} -> SpillCells]
    OBVIOUS
  <2>2. <<>> \in Notes
    BY <2>1 DEF Notes
  <2> QED  BY <1>3, <2>2 DEF States
<1>5. ASSUME NEW h \in BOOLEAN, h => ~circular PROVE Good(st, typed, h, FALSE)
  BY <1>4, <1>5 DEF SheetIsClean, Good
<1> HIDE DEF st, T
<1>6. Good(st, typed, FALSE, FALSE)
  BY <1>5
<1>7. Good(after, T, FALSE, FALSE)
  <2>1. Good(after, [typed EXCEPT ![p] = x], FALSE, FALSE)
    BY <1>6, SetGood
  <2> QED  BY <1>2, <2>1
<1>8. after = [cells |-> after.cells, blockers |-> after.blockers]
  BY <1>7 DEF Good, States
<1>9. ASSUME NEW h \in BOOLEAN, NEW n \in BOOLEAN, h \/ n => Circular(t.cells) = {},
             h => ~circular, ~n
      PROVE  Good(t, T, h, n)
  <2>1. Good(st, typed, h, FALSE)
    BY <1>5, <1>9
  <2>2. t = [cells |-> after.cells, blockers |-> blockers]
    <3> HIDE DEF after
    <3> QED  BY <1>8
  <2>3. h \/ FALSE => Circular(after.cells) = {}
    BY <1>9, <2>2
  <2>4. Good(after, [typed EXCEPT ![p] = x], h, FALSE)
    BY <2>1, <2>3, SetGood
  <2> HIDE DEF t, after
  <2>5. Good(after, T, h, FALSE)
    BY <1>2, <2>4
  <2>6. t.cells = after.cells /\ t.blockers = blockers
    BY <2>2
  <2>7. t \in States
    BY <1>3, <2>2, <2>5 DEF Good, States
  <2> QED  BY <1>9, <2>5, <2>6, <2>7 DEF Good
<1>10. unlike' \in BOOLEAN /\ (unlike => unlike')
  BY DEF SheetIsClean
<1> HIDE DEF t
<1>11. \A h \in BOOLEAN, n \in BOOLEAN :
          (h \/ n => Circular(t.cells) = {}) /\ (h => ~circular)
             /\ (n => ~circular /\ ~unlike /\ ~unlike') => Good(t, T, h, n)
  BY <1>9
<1> QED  BY <1>1, <1>10, <1>11, BecomeGood DEF T

LEMMA CleanInit == Init => CleanInv
<1> SUFFICES ASSUME Init PROVE CleanInv
  OBVIOUS
<1> DEFINE st == [cells |-> cells, blockers |-> blockers]
<1>1. /\ cells = [p \in All |-> Empty] /\ blockers = <<>> /\ typed = [p \in Cells |-> Blank]
      /\ circular = FALSE /\ unlike = FALSE
  BY DEF Init, All
<1>2. \A p \in Cells : cells[p] = Empty /\ typed[p] = Blank
  BY <1>1 DEF All
<1>3. cells \in Sheets /\ typed \in Typings
  BY <1>1, EmptyIs DEF Sheets, Typings
<1>4. blockers \in Notes /\ DOMAIN blockers = {}
  <2>1. <<>> \in [{} -> SpillCells] /\ DOMAIN <<>> = {}
    OBVIOUS
  <2> QED  BY <1>1, <2>1 DEF Notes
<1>5. Whole(cells) /\ Haunted(cells) /\ Noted(cells, blockers)
  BY <1>2, <1>4, EmptyIs DEF Whole, Haunted, Noted
<1>6. Holds(cells, typed)
  BY <1>2, NamesApart DEF Holds
<1>7. st \in States /\ st.cells = cells /\ st.blockers = blockers
  BY <1>3, <1>4 DEF States
<1> HIDE DEF st
<1>8. Good(st, typed, ~circular, ~circular /\ ~unlike)
  BY <1>3, <1>5, <1>6, <1>7 DEF Good
<1>9. SheetIsClean
  BY <1>1, <1>8 DEF SheetIsClean, st
<1>10. SyncIsTyped
  <2>1. None \in Flags /\ TRUE \in Flags
    BY DEF Flags
  <2>2. /\ frame = None /\ pending = FALSE /\ cache = None /\ arrived = 0 /\ loaded = 0
        /\ running = TRUE
    BY DEF Init
  <2>3. frame \in Flags /\ running \in Flags
    BY <2>1, <2>2, Zenon
  <2>4. loaded \in 0 .. arrived /\ arrived \in 0 .. MaxRemote
    <3>1. arrived = 0 /\ loaded = 0
      BY <2>2
    <3> QED  BY <3>1, BoundsAssumption
  <2>5. pending \in BOOLEAN /\ cache = None
    BY <2>2
  <2> QED  BY <2>3, <2>4, <2>5, Zenon DEF SyncIsTyped
<1> QED  BY <1>9, <1>10 DEF CleanInv

\* Nothing but the other worksheet changes.
LEMMA OutsideGood ==
    ASSUME SheetIsClean, RemoteOutside
    PROVE  SheetIsClean'
<1>1. PICK p \in Outside, v \in {Blank, Number} : cells' = [cells EXCEPT ![p].v = v]
  BY DEF RemoteOutside
<1>2. UNCHANGED <<blockers, typed, circular>> /\ unlike' = unlike
  BY DEF RemoteOutside, Remote, SheetIsClean
<1> DEFINE st == [cells |-> cells, blockers |-> blockers]
           t == [cells |-> cells', blockers |-> blockers]
           h == ~circular
           n == ~circular /\ ~unlike
<1>3. /\ cells \in Sheets /\ blockers \in Notes /\ typed \in Typings
      /\ Whole(cells) /\ Holds(cells, typed)
      /\ h => Haunted(cells)
      /\ n => Noted(cells, blockers)
  BY DEF SheetIsClean, Good, States
<1>4. p \in All /\ \A q \in Cells : q # p /\ q \in All
  BY CellsAssumption DEF All
<1>5. [cells[p] EXCEPT !.v = v] \in CellType
  BY <1>3, <1>4 DEF Sheets, CellType, Values
<1>6. cells' \in Sheets /\ \A q \in Cells : cells'[q] = cells[q]
  <2>1. cells' = [cells EXCEPT ![p] = [cells[p] EXCEPT !.v = v]]
    BY <1>1
  <2> DEFINE c == [cells[p] EXCEPT !.v = v]
  <2> HIDE DEF c
  <2>2. cells' = [cells EXCEPT ![p] = c] /\ c \in CellType
    BY <1>5, <2>1 DEF c
  <2> QED  BY <1>3, <1>4, <2>2 DEF Sheets
<1>7. Whole(cells') /\ Holds(cells', typed)
  BY <1>3, <1>6 DEF Whole, Holds
<1>8. h => Haunted(cells')
  BY <1>3, <1>6 DEF Haunted, HasFormula
<1>9. n => Noted(cells', blockers)
  BY <1>3, <1>6, NotesAre DEF Noted
<1>10. t \in States /\ t.cells = cells' /\ t.blockers = blockers
  BY <1>3, <1>6 DEF States
<1> HIDE DEF t
<1>11. Good(t, typed, h, n)
  BY <1>3, <1>7, <1>8, <1>9, <1>10 DEF Good
<1>12. Good([cells |-> cells', blockers |-> blockers'], typed', ~circular', ~circular' /\ ~unlike')
  BY <1>2, <1>11 DEF t
<1> QED  BY <1>2, <1>12 DEF SheetIsClean

LEMMA RemoteTyped ==
    ASSUME SyncIsTyped, NEW kind, Remote(kind)
    PROVE  SyncIsTyped'
<1>1. frame' \in Flags
  <2>1. CASE frame = None
    <3>1. frame' = (kind # "style")
      BY <2>1 DEF Remote, Schedule
    <3>2. (kind # "style") \in BOOLEAN
      BY Zenon
    <3>3. frame' \in BOOLEAN
      BY <3>1, <3>2, Zenon
    <3>4. \A b \in BOOLEAN : b \in Flags
      BY Zenon DEF Flags
    <3> QED  BY <3>3, <3>4, Zenon
  <2>2. CASE frame # None
    <3>1. frame' = frame
      BY <2>2 DEF Remote, Schedule
    <3> QED  BY <3>1 DEF SyncIsTyped
  <2> QED  BY <2>1, <2>2
<1>2. arrived' \in 0 .. MaxRemote /\ loaded' \in 0 .. arrived'
  BY BoundsAssumption DEF Remote, SyncIsTyped
<1> QED  BY <1>1, <1>2 DEF Remote, SyncIsTyped

LEMMA CleanNext == CleanInv /\ [Next]_vars => CleanInv'
<1> SUFFICES ASSUME SheetIsClean, SyncIsTyped, [Next]_vars
             PROVE  SheetIsClean' /\ SyncIsTyped'
  BY DEF CleanInv
<1>1. CASE Edit
  <2>1. unlike' = unlike /\ UNCHANGED <<sync, arrived, loaded>> /\ cache' = None
    BY <1>1 DEF Edit
  <2>2. CASE \E order \in Orders, m \in DOMAIN Inputs : SetData(Inputs[m][1], Inputs[m][2], order)
    <3>1. PICK order \in Orders, m \in DOMAIN Inputs : SetData(Inputs[m][1], Inputs[m][2], order)
      BY <2>2
    <3> QED  BY <2>1, <3>1, SetDataGood DEF SyncIsTyped, sync
  <2>3. CASE \E order \in Orders, selection \in Selections : RemoveData(selection, order)
    <3>1. PICK order \in Orders, selection \in Selections : RemoveData(selection, order)
      BY <2>3
    <3> QED  BY <2>1, <3>1, RemoveDataGood DEF SyncIsTyped, sync
  <2> QED  BY <1>1, <2>2, <2>3 DEF Edit
<1>2. CASE RemoteStyle
  <2>1. SyncIsTyped'
    BY <1>2, RemoteTyped DEF RemoteStyle
  <2>2. UNCHANGED <<cells, blockers, typed, circular>> /\ unlike' = TRUE
    BY <1>2 DEF RemoteStyle, Remote, sheet
  <2>3. SheetIsClean'
    <3>1. Good([cells |-> cells, blockers |-> blockers], typed, ~circular, FALSE)
      BY DEF SheetIsClean, Good
    <3>2. Good([cells |-> cells', blockers |-> blockers'], typed', ~circular', ~circular' /\ ~unlike')
      BY <2>2, <3>1 DEF Good
    <3> QED  BY <2>2, <3>2 DEF SheetIsClean
  <2> QED  BY <2>1, <2>3
<1>3. CASE RemoteOutside
  BY <1>3, OutsideGood, RemoteTyped DEF RemoteOutside
<1>4. CASE RemoteEdit
  <2>1. SyncIsTyped'
    BY <1>4, RemoteTyped DEF RemoteEdit
  <2>2. unlike' = TRUE
    BY <1>4 DEF RemoteEdit, Remote, SheetIsClean
  <2>3. PICK m \in DOMAIN Inputs, order \in Orders :
           Become([Set([cells |-> cells, blockers |-> <<>>], Inputs[m][1], Inputs[m][2], order)
                      EXCEPT !.blockers = blockers], {Inputs[m][1]}, Inputs[m][2])
    BY <1>4 DEF RemoteEdit
  <2> QED  BY <2>1, <2>2, <2>3, RemoteEditGood
<1>5. CASE Frame
  <2>1. SyncIsTyped'
    <3>1. None \in Flags
      BY DEF Flags
    <3>2. frame' = None /\ running' \in Flags
      <4>1. CASE running = None
        BY <1>5, <4>1 DEF Frame, SyncIsTyped
      <4>2. CASE running # None
        BY <1>5, <4>2 DEF Frame, SyncIsTyped
      <4> QED  BY <1>5, <4>1, <4>2 DEF Frame
    <3>3. /\ pending' \in BOOLEAN /\ cache' = cache /\ arrived' = arrived
          /\ loaded' \in {loaded, arrived}
      <4>1. CASE running = None
        BY <1>5, <4>1 DEF Frame, SyncIsTyped
      <4>2. CASE running # None
        BY <1>5, <4>2 DEF Frame, SyncIsTyped
      <4> QED  BY <4>1, <4>2
    <3> QED  BY <3>1, <3>2, <3>3 DEF SyncIsTyped
  <2>2. UNCHANGED <<cells, blockers, typed, circular, unlike>>
    BY <1>5 DEF Frame, sheet
  <2> QED  BY <2>1, <2>2 DEF SheetIsClean
<1>6. CASE RunEnds
  <2>1. /\ frame' = frame /\ running' \in Flags /\ pending' \in BOOLEAN
        /\ loaded' \in 0 .. arrived' /\ arrived' = arrived /\ unlike' = unlike
    <3>1. None \in Flags
      BY DEF Flags
    <3>2. /\ frame' = frame /\ running' \in {running, None} /\ pending' = FALSE
          /\ loaded' \in {loaded, arrived} /\ arrived' = arrived /\ unlike' = unlike
      BY <1>6 DEF RunEnds, Settled
    <3>3. running' \in Flags
      BY <3>1, <3>2 DEF SyncIsTyped
    <3>4. loaded' \in 0 .. arrived'
      BY <3>2 DEF SyncIsTyped
    <3> QED  BY <3>2, <3>3, <3>4
  <2>2. CASE \E order \in Orders : Recalculate(order)
    <3>1. SheetIsClean' /\ cache' \subseteq Cells
      BY <2>1, <2>2, RecalculateGood
    <3> QED  BY <2>1, <3>1 DEF SyncIsTyped
  <2>3. CASE UNCHANGED <<sheet, cache>>
    BY <2>1, <2>3 DEF SyncIsTyped, SheetIsClean, sheet
  <2> QED  BY <1>6, <2>2, <2>3 DEF RunEnds
<1>7. CASE UNCHANGED vars
  BY <1>7 DEF vars, sheet, sync, SheetIsClean, SyncIsTyped
<1> QED  BY <1>1, <1>2, <1>3, <1>4, <1>5, <1>6, <1>7 DEF Next

LEMMA CleanIsClean == CleanInv => SpillsAreClean
<1> SUFFICES ASSUME CleanInv PROVE SpillsAreClean
  OBVIOUS
<1>1. /\ cells \in Sheets /\ blockers \in Notes /\ typed \in Typings
      /\ Holds(cells, typed)
      /\ ~circular => Haunted(cells)
      /\ ~circular /\ ~unlike => Noted(cells, blockers)
  BY DEF CleanInv, SheetIsClean, Good, States
<1>2. TypeOK
  <2>1. {frame, running} \subseteq {None, TRUE, FALSE}
    BY DEF CleanInv, SyncIsTyped, Flags
  <2>2. DOMAIN blockers \subseteq Cells
    BY <1>1, NotesAre
  <2> QED  BY <1>1, <2>1, <2>2 DEF TypeOK, CleanInv, SyncIsTyped, Sheets, All, Typings, Noted
<1>3. GhostsHaveTheirFormula
  BY <1>1 DEF GhostsHaveTheirFormula, Haunted
<1>4. TypedIsKept
  BY <1>1 DEF TypedIsKept, Holds
<1> QED  BY <1>2, <1>3, <1>4 DEF SpillsAreClean

\* Spills come and go without a trace (calculator.ts, spillGrid, clearSpillGhosts and the
\* blockers of sheet.ts): as long as there has been no circular reference a ghost has its
\* formula, unblocked and writing over it, and a blocker is noted for an anchor that is
\* blocked; and what users typed is always still there.
THEOREM SpillsStayClean == Spec => []SpillsAreClean
<1>1. Init => CleanInv
  BY CleanInit
<1>2. CleanInv /\ [Next]_vars => CleanInv'
  BY CleanNext
<1>3. CleanInv => SpillsAreClean
  BY CleanIsClean
<1> QED  BY <1>1, <1>2, <1>3, PTL DEF Spec
-----------------------------------------------------------------------------
(* Formulas show what they evaluate to.                                     *)

Shown == ~circular => Current(cells)

LEMMA BecomeShows ==
    ASSUME SheetIsClean, Shown, ~circular',
           NEW st, NEW changed, NEW x, Become(st, changed, x)
    PROVE  /\ cells' = st.cells /\ Circular(st.cells) = {}
           /\ Good([cells |-> cells, blockers |-> blockers], typed, FALSE, FALSE)
           /\ cells \in Sheets /\ Current(cells)
<1>1. cells' = st.cells /\ ~circular /\ Circular(st.cells) = {}
  BY DEF Become
<1>2. Good([cells |-> cells, blockers |-> blockers], typed, FALSE, FALSE)
  BY <1>1, BeforeEdit
<1> QED  BY <1>1, <1>2 DEF Shown, Good, States

LEMMA SetDataShows ==
    ASSUME SheetIsClean, Shown, ~circular',
           NEW m \in DOMAIN Inputs, NEW order \in Orders, SetData(Inputs[m][1], Inputs[m][2], order)
    PROVE  Current(cells')
<1> DEFINE p == Inputs[m][1]
           st == [cells |-> cells, blockers |-> blockers]
           t == Set(st, p, Inputs[m][2], order)
<1>1. CASE cells[p].ghostOf # None
  <2>1. UNCHANGED <<cells, circular>>
    BY <1>1 DEF SetData
  <2>2. Current(cells)
    BY <2>1 DEF Shown
  <2>3. cells' = cells
    BY <2>1
  <2> QED  BY <2>2, <2>3
<1>2. CASE cells[p].ghostOf = None
  <2>1. Become(t, {p}, Inputs[m][2])
    BY <1>2 DEF SetData
  <2>2. st.cells = cells
    OBVIOUS
  <2> DEFINE u == t
  <2> HIDE DEF st, u
  <2>3. Become(u, {p}, Inputs[m][2])
    BY <2>1 DEF u
  <2>4. /\ cells' = u.cells /\ Circular(u.cells) = {}
        /\ Good(st, typed, FALSE, FALSE) /\ Current(st.cells)
    BY <2>2, <2>3, BecomeShows DEF st
  <2>5. Circular(t.cells) = {}
    BY <2>4 DEF u
  <2>6. Current(t.cells)
    BY <2>4, <2>5, SetShows
  <2> QED  BY <2>4, <2>6 DEF u
<1> QED  BY <1>1, <1>2

LEMMA RemoveDataShows ==
    ASSUME SheetIsClean, Shown, ~circular',
           NEW selection \in Selections, NEW order \in Orders, RemoveData(selection, order)
    PROVE  Current(cells')
<1> DEFINE removed == Omitting(selection, {p \in Cells : ~InTheWay(cells, p)})
           st == [cells |-> cells, blockers |-> blockers]
           after == Emptied(st, removed)
           D == Dependants(after.st.cells, order)
           refs == removed \o after.retry
           t == Calculate(after.st, D, refs)
           T == Removed(typed, removed, Len(removed))
<1>1. CASE removed = <<>>
  <2>1. UNCHANGED <<cells, circular>>
    BY <1>1 DEF RemoveData
  <2>2. Current(cells)
    BY <2>1 DEF Shown
  <2>3. cells' = cells
    BY <2>1
  <2> QED  BY <2>2, <2>3
<1>2. CASE removed # <<>>
  <2>1. Become(t, ToSet(removed), Blank)
    BY <1>2 DEF RemoveData
  <2>2. removed \in Seq(Cells)
    <3>1. selection \in Seq(Cells)
      BY SheetAssumption
    <3> QED  BY <3>1, OmittingProperties
  <2> HIDE DEF removed
  <2>3. /\ cells' = t.cells /\ Circular(t.cells) = {}
        /\ Good(st, typed, FALSE, FALSE) /\ cells \in Sheets /\ Current(cells)
    <3> HIDE DEF t
    <3> QED  BY <2>1, BecomeShows
  <2>4. st.cells = cells
    OBVIOUS
  <2> HIDE DEF st, T
  <2>5. /\ Good(after.st, T, FALSE, FALSE) /\ after.retry \in Seq(Cells)
        /\ Differs(cells, after.st.cells, Elements(removed))
    BY <2>2, <2>3, <2>4, EmptiedGood DEF T
  <2> DEFINE u == after.st
             r == after.retry
  <2>6. u.cells \in Sheets
    BY <2>5 DEF Good, States
  <2>7. Graph(Reading(u.cells), D) /\ Complete(u.cells, D)
    <3> HIDE DEF after
    <3> QED  BY <2>6, DependantsAll, DependantsAllComplete
  <2>8. refs \in Seq(Cells) /\ Elements(removed) \in SUBSET Elements(refs)
    <3>1. r \in Seq(Cells) /\ refs = removed \o r
      BY <2>5
    <3> HIDE DEF r, refs
    <3>2. refs \in Seq(Cells) /\ \A k \in 1 .. Len(removed) : refs[k] = removed[k]
          /\ k \in DOMAIN refs
      BY <2>2, <3>1
    <3>3. DOMAIN removed = 1 .. Len(removed)
      BY <2>2
    <3> QED  BY <3>2, <3>3 DEF Elements
  <2>9. Good(u, T, FALSE, FALSE) /\ Differs(cells, u.cells, Elements(removed))
        /\ Circular(Calculate(u, D, refs).cells) = {} /\ cells' = Calculate(u, D, refs).cells
    BY <2>3, <2>5
  <2> HIDE DEF u, D, refs
  <2> QED  BY <2>3, <2>7, <2>8, <2>9, EditShows
<1> QED  BY <1>1, <1>2

LEMMA RecalculateShows ==
    ASSUME SheetIsClean, Shown, ~circular',
           NEW order \in Orders, Recalculate(order)
    PROVE  Current(cells')
<1> DEFINE roots == IF cache # None THEN cache ELSE {p \in Cells : ReadsOutside(cells, p)}
           st == [cells |-> cells, blockers |-> blockers]
           D == Dependants(cells, order)
           refs == Omitting(order, Cells \ roots)
           t == Calculate(st, D, refs)
           ps == {}
<1>1. Become(t, {}, Blank)
  BY DEF Recalculate
<1> HIDE DEF roots
<1>2. refs \in Seq(Cells)
  <2>1. order \in Seq(Cells)
    BY SheetAssumption
  <2> QED  BY <2>1, OmittingProperties
<1>3. st.cells = cells
  OBVIOUS
<1>4. /\ cells' = t.cells /\ Circular(t.cells) = {}
      /\ Good(st, typed, FALSE, FALSE) /\ cells \in Sheets /\ Current(cells)
  <2> HIDE DEF t
  <2> QED  BY <1>1, BecomeShows
<1>5. Graph(Reading(cells), D) /\ Complete(cells, D)
  BY <1>4, DependantsAll, DependantsAllComplete
<1>6. Differs(cells, cells, ps) /\ ps \in SUBSET Elements(refs)
  BY DEF Differs
<1> HIDE DEF st, D, refs, ps
<1> QED  BY <1>2, <1>3, <1>4, <1>5, <1>6, EditShows

\* Nothing plain reads the other worksheet.
LEMMA OutsideShows ==
    ASSUME SheetIsClean, Shown, RemoteOutside, ~circular'
    PROVE  Current(cells')
<1>1. PICK p \in Outside, v \in {Blank, Number} : cells' = [cells EXCEPT ![p].v = v]
  BY DEF RemoteOutside
<1>2. circular' = circular
  BY DEF RemoteOutside
<1>3. Current(cells) /\ cells \in Sheets
  BY <1>2 DEF Shown, SheetIsClean, Good, States
<1>4. SheetIsClean'
  BY OutsideGood
<1>5. cells' \in Sheets
  BY <1>4 DEF SheetIsClean, Good, States
<1>6. \A x \in All : x # p => cells'[x] = cells[x]
  BY <1>1, <1>3 DEF Sheets
<1>7. Differs(cells, cells', {p})
  BY <1>6 DEF Differs
<1> SUFFICES ASSUME NEW q \in Cells, Plain(cells', q) PROVE ShowsIt(cells', q)
  BY DEF Current
<1>8. q \notin {p} /\ Upstream(cells', q) \cap {p} = {}
  BY <1>1, CellsAssumption DEF Plain
<1>9. Plain(cells, q) /\ Reading(cells)[q] \cap {p} = {}
  <2> DEFINE ds == cells'
  <2>1. ds \in Sheets /\ Differs(cells, ds, {p}) /\ Plain(ds, q) /\ Upstream(ds, q) \cap {p} = {}
    BY <1>5, <1>7, <1>8
  <2> HIDE DEF ds
  <2> QED  BY <1>3, <1>8, <2>1, PlainBefore
<1>10. ShowsIt(cells, q)
  BY <1>3, <1>9 DEF Current
<1> DEFINE ds == cells'
<1>11. ds \in Sheets /\ Differs(cells, ds, {p})
  BY <1>5, <1>7
<1> HIDE DEF ds
<1>12. ShowsIt(ds, q)
  BY <1>3, <1>8, <1>9, <1>10, <1>11, ShowsStill
<1> QED  BY <1>12 DEF ds

\* A collaborator's edit.
LEMMA RemoteEditShows ==
    ASSUME SheetIsClean, Shown, ~circular', RemoteEdit
    PROVE  Current(cells')
<1>1. PICK m \in DOMAIN Inputs, order \in Orders :
         Become([Set([cells |-> cells, blockers |-> <<>>], Inputs[m][1], Inputs[m][2], order)
                    EXCEPT !.blockers = blockers], {Inputs[m][1]}, Inputs[m][2])
  BY DEF RemoteEdit
<1> DEFINE st == [cells |-> cells, blockers |-> <<>>]
           after == Set(st, Inputs[m][1], Inputs[m][2], order)
           t == [after EXCEPT !.blockers = blockers]
<1>2. /\ cells' = t.cells /\ Circular(t.cells) = {}
      /\ Good([cells |-> cells, blockers |-> blockers], typed, FALSE, FALSE) /\ Current(cells)
  <2>1. Become(t, {Inputs[m][1]}, Inputs[m][2])
    BY <1>1
  <2> HIDE DEF t
  <2> QED  BY <2>1, BecomeShows
<1>3. Good(st, typed, FALSE, FALSE)
  <2>1. <<>> \in Notes
    <3>1. <<>> \in [{} -> SpillCells]
      OBVIOUS
    <3> QED  BY <3>1 DEF Notes
  <2> QED  BY <1>2, <2>1 DEF Good, States
<1>4. st.cells = cells
  OBVIOUS
<1> HIDE DEF st
<1>5. Good(after, [typed EXCEPT ![Inputs[m][1]] = Inputs[m][2]], FALSE, FALSE)
  BY <1>3, SetGood
<1>6. after = [cells |-> after.cells, blockers |-> after.blockers]
  BY <1>5 DEF Good, States
<1>7. t.cells = after.cells
  <2> HIDE DEF after
  <2> QED  BY <1>6
<1>8. Current(after.cells)
  <2>1. Circular(after.cells) = {}
    BY <1>2, <1>7
  <2> QED  BY <1>2, <1>3, <1>4, <2>1, SetShows
<1> HIDE DEF t, after
<1> QED  BY <1>2, <1>7, <1>8

LEMMA ShownNext ==
    ASSUME CleanInv, Shown, [Next]_vars
    PROVE  Shown'
<1> SUFFICES ASSUME ~circular' PROVE Current(cells')
  BY DEF Shown
<1>1. SheetIsClean
  BY DEF CleanInv
<1>2. CASE Edit
  <2>1. CASE \E order \in Orders, m \in DOMAIN Inputs : SetData(Inputs[m][1], Inputs[m][2], order)
    BY <1>1, <2>1, SetDataShows
  <2>2. CASE \E order \in Orders, selection \in Selections : RemoveData(selection, order)
    BY <1>1, <2>2, RemoveDataShows
  <2> QED  BY <1>2, <2>1, <2>2 DEF Edit
<1>3. CASE RemoteEdit
  BY <1>1, <1>3, RemoteEditShows
<1>4. CASE RemoteOutside
  BY <1>1, <1>4, OutsideShows
<1>5. CASE \E order \in Orders : Recalculate(order)
  BY <1>1, <1>5, RecalculateShows
<1>6. CASE UNCHANGED <<cells, circular>>
  <2>1. Current(cells)
    BY <1>6 DEF Shown
  <2>2. cells' = cells
    BY <1>6
  <2> QED  BY <2>1, <2>2
<1>7. CASE RemoteStyle \/ Frame \/ UNCHANGED sheet
  <2>1. UNCHANGED <<cells, circular>>
    BY <1>7 DEF RemoteStyle, Frame, sheet
  <2> QED  BY <1>6, <2>1
<1>8. UNCHANGED vars \/ UNCHANGED <<sheet, cache>> => UNCHANGED sheet
  BY DEF vars
<1> QED  BY <1>2, <1>3, <1>4, <1>5, <1>7, <1>8 DEF Next, RunEnds

\* As long as nobody has made a circular reference, every formula that reads no spill and no
\* other worksheet, at any distance, shows what it evaluates to (calculator.ts,
\* topologicalSort and calculate; setData, removeData and recalculateCrossSheetFormulas of
\* sheet.ts, which say for which cells).
THEOREM FormulasStayCurrent == Spec => []FormulasAreCurrent
<1> DEFINE Inv == CleanInv /\ Shown
<1>1. Init => Inv
  <2> SUFFICES ASSUME Init PROVE Current(cells)
    BY CleanInit DEF Shown
  <2>1. \A q \in Cells : cells[q].f = None
    BY EmptyIs DEF Init
  <2> QED  BY <2>1 DEF Current, Plain, HasFormula
<1>2. Inv /\ [Next]_vars => Inv'
  BY CleanNext, ShownNext
<1>3. Inv => FormulasAreCurrent
  BY DEF Shown, Current, Plain, ShowsIt, FormulasAreCurrent
<1> QED  BY <1>1, <1>2, <1>3, PTL DEF Spec
-----------------------------------------------------------------------------
(* Circles.                                                                 *)

\* A cell of a circle that no spill is behind.
Round(cs, x) == x \in Circular(cs) /\ Upstream(cs, x) \cap SpillCells = {}
Marked(cs) == \A x \in Cells : Round(cs, x) => cs[x].v = Error

\* It has a formula, and reads a cell of its circle.
LEMMA RoundIs ==
    ASSUME NEW cs \in Sheets, Whole(cs), NEW x \in Cells, Round(cs, x)
    PROVE  /\ HasFormula(cs, x) /\ cs[x].f \in Formulas /\ ~Spills(cs[x].f)
           /\ Reading(cs)[x] = ToSet(cs[x].f.reads) /\ x \notin SpillCells
           /\ \E y \in Reading(cs)[x] \cap Cells : Round(cs, y) /\ y \notin SpillCells
<1> DEFINE reading == Reading(cs)
           U == Upstream(cs, x)
           C == reading[x] \cup UNION {Upstream(cs, y) : y \in reading[x] \cap Cells}
<1>1. /\ reading \in [Cells -> SUBSET All] /\ U \in SUBSET All /\ reading[x] \subseteq U
      /\ \A y \in U \cap Cells : Upstream(cs, y) \subseteq U
      /\ U = Least(reading, reading[x])
  BY UpstreamIs
<1>2. x \in U /\ U \cap SpillCells = {}
  BY DEF Round, Circular
<1>3. \A y \in Cells : /\ Upstream(cs, y) \in SUBSET All /\ reading[y] \subseteq Upstream(cs, y)
                       /\ \A z \in Upstream(cs, y) \cap Cells :
                             Upstream(cs, z) \subseteq Upstream(cs, y)
                             /\ reading[z] \subseteq Upstream(cs, y)
  BY UpstreamIs
<1> HIDE DEF reading, U
<1>4. x \in C
  <2>1. reading[x] \subseteq C /\ C \in SUBSET All /\ reading[x] \in SUBSET All
    BY <1>1, <1>3
  <2>2. Closed(reading, C)
    <3> SUFFICES ASSUME NEW z \in C \cap Cells, NEW w \in reading[z] PROVE w \in C
      BY DEF Closed
    <3>1. CASE z \in reading[x]
      BY <1>3, <3>1
    <3>2. CASE z \notin reading[x]
      BY <1>3, <3>2
    <3> QED  BY <3>1, <3>2
  <2> HIDE DEF C
  <2>3. U \subseteq C
    BY <1>1, <2>1, <2>2, LeastIs
  <2> QED  BY <1>2, <2>3
<1>5. PICK y \in reading[x] \cap Cells : y \in Upstream(cs, y)
  <2>1. CASE x \in reading[x]
    BY <1>2, <2>1 DEF U
  <2>2. CASE x \notin reading[x]
    <3>1. PICK y \in reading[x] \cap Cells : x \in Upstream(cs, y)
      BY <1>4, <2>2
    <3> QED  BY <1>3, <3>1
  <2> QED  BY <2>1, <2>2
<1>6. Round(cs, y) /\ y \notin SpillCells
  BY <1>1, <1>2, <1>5 DEF Round, Circular
<1>7. HasFormula(cs, x)
  BY <1>5 DEF reading, Reading
<1>8. cs[x].f \in Formulas /\ reading[x] = ToSet(cs[x].f.reads)
  <2>1. cs[x].f \in Formulas
    BY <1>7 DEF HasFormula, Sheets, CellType, All
  <2> QED  BY <1>7, <2>1 DEF reading, Reading, Reads
<1>9. ~Spills(cs[x].f)
  BY <1>2, <1>7, <1>8, SpillCellsAre DEF Whole, HasFormula
<1> QED  BY <1>2, <1>5, <1>6, <1>7, <1>8, <1>9 DEF reading

LEMMA RoundAlike ==
    ASSUME NEW cs \in Sheets, NEW ds, Alike(cs, ds), NEW x \in Cells
    PROVE  (Round(ds, x) <=> Round(cs, x)) /\ Reading(ds) = Reading(cs)
BY ReadingIs DEF Round, Upstream

\* One formula of the order.
LEMMA CalculatedMarks ==
    ASSUME NEW s, NEW T, Good(s, T, FALSE, FALSE), NEW ref \in Cells, NEW cycled,
           NEW x \in Cells, Round(s.cells, x),
           IF ref = x THEN x \in cycled \/ \E y \in Reading(s.cells)[x] : s.cells[y].v = Error
           ELSE s.cells[x].v = Error
    PROVE  Calculated(s, ref, cycled).cells[x].v = Error
<1> DEFINE cs == s.cells
           ds == Calculated(s, ref, cycled).cells
<1>1. s \in States /\ cs \in Sheets /\ Whole(cs)
  BY DEF Good, States
<1>2. Takes(cs, ds, ref, cycled)
  BY <1>1, CalculatedTakes
<1>3. /\ HasFormula(cs, x) /\ cs[x].f \in Formulas /\ ~Spills(cs[x].f)
      /\ Reading(cs)[x] = ToSet(cs[x].f.reads) /\ x \in All /\ cs[x].f # None
  BY <1>1, RoundIs DEF HasFormula, All
<1> HIDE DEF ds
<1>4. CASE ref # x
  BY <1>2, <1>3, <1>4 DEF Takes, Differs, ds
<1>5. CASE ref = x /\ x \in cycled
  BY <1>2, <1>3, <1>5 DEF Takes, ds
<1>6. CASE ref = x /\ x \notin cycled
  <2>1. PICK y \in ToSet(cs[x].f.reads) : cs[y].v = Error
    BY <1>3, <1>6
  <2>2. Evaluate(cs, cs[x].f)[1] = Error
    BY <1>3, <2>1, EvaluateError
  <2> QED  BY <1>2, <1>3, <1>6, <2>2 DEF Takes, ds
<1> QED  BY <1>4, <1>5, <1>6

\* After a calculation every cell of a circle shows an error that did so before or depends
\* on a cell the calculation was for.
LEMMA CalculateMarks ==
    ASSUME NEW st, NEW T, Good(st, T, FALSE, FALSE), NEW dependants,
           Graph(Reading(st.cells), dependants), Complete(st.cells, dependants),
           NEW refs \in Seq(Cells),
           \A x \in Cells : Round(st.cells, x) =>
              \/ st.cells[x].v = Error
              \/ x \in Elements(refs) \/ Upstream(st.cells, x) \cap Elements(refs) # {}
    PROVE  Marked(Calculate(st, dependants, refs).cells)
<1> DEFINE search == TopologicalSort(dependants, refs)
           sorted == search.sorted
           cycled == search.cycled
           N == Len(sorted)
           cs == st.cells
           Later(k, x) == \E i \in 1 .. N : i > k /\ sorted[i] = x
           Marks(k, s) == \A x \in Cells : Round(cs, x) => s.cells[x].v = Error \/ Later(k, x)
<1>1. cs \in Sheets /\ Whole(cs) /\ dependants \in Listing
  BY DEF Good, States, Graph
<1>2. search \in Searches /\ Ordered(dependants, search)
  BY <1>1, Sorts
<1>3. N \in Nat /\ DOMAIN sorted = 1 .. N /\ \A k \in 1 .. N : sorted[k] \in Cells
  <2>1. sorted \in Seq(Cells)
    BY <1>2 DEF Searches
  <2> HIDE DEF sorted
  <2> QED  BY <2>1
<1>4. PICK upTo : Calculates(st, dependants, refs, T, FALSE, FALSE, upTo)
  BY <1>1, CalculationRuns
<1>5. /\ upTo[0] = st
      /\ \A k \in 1 .. N : upTo[k] = Calculated(upTo[k - 1], sorted[k], cycled)
      /\ \A k \in 0 .. N : Good(upTo[k], T, FALSE, FALSE) /\ Alike(cs, upTo[k].cells)
      /\ Calculate(st, dependants, refs) = upTo[N]
  BY <1>4 DEF Calculates
<1>6. ASSUME NEW x \in Cells, Round(cs, x), cs[x].v # Error
      PROVE  \E i \in 1 .. N : i > 0 /\ sorted[i] = x
  <2>1. x \in Elements(sorted)
    BY <1>1, <1>6, SortedBehind DEF Round
  <2> HIDE DEF sorted, N
  <2> QED  BY <1>3, <2>1 DEF Elements
<1>7. ASSUME NEW j \in 1 .. N, NEW x \in Cells, sorted[j] \in Reading(cs)[x],
             sorted[j] \notin SpillCells, x \notin cycled
      PROVE  \E i \in 1 .. N : i > j /\ sorted[i] = x
  <2>1. PICK k \in DOMAIN dependants[sorted[j]] : dependants[sorted[j]][k] = x
    BY <1>3, <1>7 DEF Complete
  <2> QED  BY <1>2, <1>7, <2>1 DEF Ordered
<1> HIDE DEF search, sorted, cycled, N
<1>8. Marks(0, upTo[0])
  BY <1>5, <1>6
<1>9. ASSUME NEW k \in 1 .. N, Marks(k - 1, upTo[k - 1])
      PROVE  Marks(k, upTo[k])
  <2> SUFFICES ASSUME NEW x \in Cells, Round(cs, x), ~Later(k, x)
               PROVE  upTo[k].cells[x].v = Error
    OBVIOUS
  <2> DEFINE s == upTo[k - 1]
             ref == sorted[k]
  <2>1. Good(s, T, FALSE, FALSE) /\ Alike(cs, s.cells) /\ upTo[k] = Calculated(s, ref, cycled)
        /\ ref \in Cells
    <3>1. k - 1 \in 0 .. N
      BY <1>3
    <3> QED  BY <1>3, <1>5, <3>1
  <2>2. Round(s.cells, x) /\ Reading(s.cells) = Reading(cs)
    BY <1>1, <2>1, RoundAlike
  <2>3. \A z \in Cells : Round(cs, z) => s.cells[z].v = Error \/ Later(k - 1, z)
    BY <1>9
  <2>4. \A i \in 1 .. N : i > k - 1 => i = k \/ i > k
    BY <1>3
  <2> HIDE DEF s
  <2>5. IF ref = x THEN x \in cycled \/ \E y \in Reading(s.cells)[x] : s.cells[y].v = Error
        ELSE s.cells[x].v = Error
    <3>1. CASE ref # x
      BY <2>3, <2>4, <3>1
    <3>2. CASE x \notin cycled
      <4>1. PICK y \in Reading(cs)[x] \cap Cells : Round(cs, y) /\ y \notin SpillCells
        BY <1>1, RoundIs
      <4>2. ~Later(k - 1, y)
        <5> SUFFICES ASSUME NEW j \in 1 .. N, j > k - 1, sorted[j] = y PROVE FALSE
          OBVIOUS
        <5>1. PICK i \in 1 .. N : i > j /\ sorted[i] = x
          BY <1>7, <3>2, <4>1
        <5>2. i > k
          BY <2>4, <5>1, <1>3
        <5> QED  BY <5>1, <5>2
      <4>3. s.cells[y].v = Error
        BY <2>3, <4>1, <4>2
      <4>4. y \in Reading(s.cells)[x]
        BY <2>2, <4>1
      <4> HIDE DEF ref
      <4> QED  BY <2>3, <2>4, <3>1, <4>3, <4>4
    <3> HIDE DEF ref
    <3> QED  BY <3>1, <3>2
  <2> HIDE DEF ref
  <2>6. Calculated(s, ref, cycled).cells[x].v = Error
    BY <2>1, <2>2, <2>5, CalculatedMarks
  <2> QED  BY <2>1, <2>6
<1>10. Marks(N, upTo[N])
  <2> DEFINE S == [k \in 0 .. N |-> {s \in States : Marks(k, s)}]
  <2>1. \A k \in 0 .. N : upTo[k] \in States
    BY <1>5 DEF Good
  <2> HIDE DEF Marks
  <2>2. upTo[0] \in S[0]
    BY <1>3, <1>8, <2>1
  <2>3. \A k \in 1 .. N : upTo[k - 1] \in S[k - 1] => upTo[k] \in S[k]
    <3> SUFFICES ASSUME NEW k \in 1 .. N, upTo[k - 1] \in S[k - 1] PROVE upTo[k] \in S[k]
      OBVIOUS
    <3>1. k - 1 \in 0 .. N /\ k \in 0 .. N
      BY <1>3
    <3>2. Marks(k - 1, upTo[k - 1])
      BY <3>1
    <3> QED  BY <1>9, <2>1, <3>1, <3>2
  <2> HIDE DEF S
  <2>4. \A k \in 0 .. N : upTo[k] \in S[k]
    BY <1>3, <2>2, <2>3, LoopStays
  <2>5. upTo[N] \in S[N]
    BY <1>3, <2>4
  <2> QED  BY <1>3, <2>5 DEF S
<1>11. Alike(cs, upTo[N].cells)
  <2>1. N \in 0 .. N
    BY <1>3
  <2> HIDE DEF cs
  <2> QED  BY <1>5, <2>1
<1> SUFFICES ASSUME NEW x \in Cells, Round(upTo[N].cells, x) PROVE upTo[N].cells[x].v = Error
  BY <1>5 DEF Marked
<1>12. Round(cs, x)
  BY <1>1, <1>11, RoundAlike
<1>13. ~Later(N, x)
  BY <1>3
<1> QED  BY <1>10, <1>12, <1>13

\* After an edit and the calculation for the cells it changed.
LEMMA EditMarks ==
    ASSUME NEW cs \in Sheets, Marked(cs), NEW st, NEW T, Good(st, T, FALSE, FALSE),
           NEW dependants, Graph(Reading(st.cells), dependants), Complete(st.cells, dependants),
           NEW refs \in Seq(Cells), NEW ps \in SUBSET Elements(refs), Differs(cs, st.cells, ps)
    PROVE  Marked(Calculate(st, dependants, refs).cells)
<1> DEFINE ds == st.cells
<1>1. ds \in Sheets /\ Whole(ds)
  BY DEF Good, States
<1>2. ASSUME NEW x \in Cells, Round(ds, x), x \notin Elements(refs),
             Upstream(ds, x) \cap Elements(refs) = {}
      PROVE  ds[x].v = Error
  <2>1. x \notin ps /\ Upstream(ds, x) \cap ps = {}
    BY <1>2
  <2>2. HasFormula(ds, x)
    BY <1>1, <1>2, RoundIs
  <2>3. Upstream(cs, x) = Upstream(ds, x)
    BY <1>1, <2>1, BehindBefore
  <2>4. Round(cs, x)
    BY <1>2, <2>3 DEF Round, Circular
  <2>5. ds[x] = cs[x]
    BY <2>1, <2>2 DEF Differs, HasFormula, All
  <2> QED  BY <2>4, <2>5 DEF Marked
<1> QED  BY <1>2, CalculateMarks

LEMMA SetMarks ==
    ASSUME NEW st, NEW T, Good(st, T, FALSE, FALSE), Marked(st.cells),
           NEW m \in DOMAIN Inputs, NEW order \in Orders
    PROVE  Marked(Set(st, Inputs[m][1], Inputs[m][2], order).cells)
<1> DEFINE t == Set(st, Inputs[m][1], Inputs[m][2], order)
           U == [T EXCEPT ![Inputs[m][1]] = Inputs[m][2]]
           p == Inputs[m][1]
<1>1. PICK ready, dependants, refs : Ready(st, t, U, FALSE, FALSE, p, ready, dependants, refs)
  BY SetReady
<1>2. st.cells \in Sheets
  BY DEF Good, States
<1> HIDE DEF t, U, p
<1>3. {p} \in SUBSET Elements(refs)
  BY <1>1 DEF Ready
<1> QED  BY <1>1, <1>2, <1>3, EditMarks DEF Ready, t

LEMMA SetDataMarks ==
    ASSUME SheetIsClean, Marked(cells),
           NEW m \in DOMAIN Inputs, NEW order \in Orders, SetData(Inputs[m][1], Inputs[m][2], order)
    PROVE  Marked(cells')
<1> DEFINE p == Inputs[m][1]
           st == [cells |-> cells, blockers |-> blockers]
           t == Set(st, p, Inputs[m][2], order)
<1>1. CASE cells[p].ghostOf # None
  BY <1>1 DEF SetData
<1>2. CASE cells[p].ghostOf = None
  <2>1. Become(t, {p}, Inputs[m][2])
    BY <1>2 DEF SetData
  <2>2. Good(st, typed, FALSE, FALSE) /\ Marked(st.cells)
    BY BeforeEdit
  <2> HIDE DEF st
  <2>3. Marked(t.cells)
    BY <2>2, SetMarks
  <2> QED  BY <2>1, <2>3 DEF Become
<1> QED  BY <1>1, <1>2

LEMMA RemoveDataMarks ==
    ASSUME SheetIsClean, Marked(cells),
           NEW selection \in Selections, NEW order \in Orders, RemoveData(selection, order)
    PROVE  Marked(cells')
<1> DEFINE removed == Omitting(selection, {p \in Cells : ~InTheWay(cells, p)})
           st == [cells |-> cells, blockers |-> blockers]
           after == Emptied(st, removed)
           D == Dependants(after.st.cells, order)
           refs == removed \o after.retry
           t == Calculate(after.st, D, refs)
           T == Removed(typed, removed, Len(removed))
<1>1. CASE removed = <<>>
  BY <1>1 DEF RemoveData
<1>2. CASE removed # <<>>
  <2>1. cells' = t.cells
    BY <1>2 DEF RemoveData, Become
  <2>2. removed \in Seq(Cells)
    <3>1. selection \in Seq(Cells)
      BY SheetAssumption
    <3> QED  BY <3>1, OmittingProperties
  <2> HIDE DEF removed
  <2>3. Good(st, typed, FALSE, FALSE) /\ st.cells = cells
    BY BeforeEdit
  <2> HIDE DEF st, T
  <2>4. cells \in Sheets
    BY <2>3 DEF Good, States
  <2>5. /\ Good(after.st, T, FALSE, FALSE) /\ after.retry \in Seq(Cells)
        /\ Differs(cells, after.st.cells, Elements(removed))
    BY <2>2, <2>3, EmptiedGood DEF T
  <2> DEFINE u == after.st
             r == after.retry
  <2>6. u.cells \in Sheets
    BY <2>5 DEF Good, States
  <2>7. Graph(Reading(u.cells), D) /\ Complete(u.cells, D)
    <3> HIDE DEF after
    <3> QED  BY <2>6, DependantsAll, DependantsAllComplete
  <2>8. refs \in Seq(Cells) /\ Elements(removed) \in SUBSET Elements(refs)
    <3>1. r \in Seq(Cells) /\ refs = removed \o r
      BY <2>5
    <3> HIDE DEF r, refs
    <3>2. refs \in Seq(Cells) /\ \A k \in 1 .. Len(removed) : refs[k] = removed[k]
          /\ k \in DOMAIN refs
      BY <2>2, <3>1
    <3>3. DOMAIN removed = 1 .. Len(removed)
      BY <2>2
    <3> QED  BY <3>2, <3>3 DEF Elements
  <2>9. Good(u, T, FALSE, FALSE) /\ Differs(cells, u.cells, Elements(removed))
        /\ cells' = Calculate(u, D, refs).cells
    BY <2>1, <2>5
  <2> HIDE DEF u, D, refs
  <2> QED  BY <2>4, <2>7, <2>8, <2>9, EditMarks
<1> QED  BY <1>1, <1>2

LEMMA RecalculateMarks ==
    ASSUME SheetIsClean, Marked(cells), NEW order \in Orders, Recalculate(order)
    PROVE  Marked(cells')
<1> DEFINE roots == IF cache # None THEN cache ELSE {p \in Cells : ReadsOutside(cells, p)}
           st == [cells |-> cells, blockers |-> blockers]
           D == Dependants(cells, order)
           refs == Omitting(order, Cells \ roots)
           ps == {}
<1>1. cells' = Calculate(st, D, refs).cells
  BY DEF Recalculate, Become
<1> HIDE DEF roots
<1>2. refs \in Seq(Cells)
  <2>1. order \in Seq(Cells)
    BY SheetAssumption
  <2> QED  BY <2>1, OmittingProperties
<1>3. Good(st, typed, FALSE, FALSE) /\ st.cells = cells
  BY BeforeEdit
<1>4. cells \in Sheets
  BY <1>3 DEF Good, States
<1>5. Graph(Reading(cells), D) /\ Complete(cells, D)
  BY <1>4, DependantsAll, DependantsAllComplete
<1>6. Differs(cells, cells, ps) /\ ps \in SUBSET Elements(refs)
  BY DEF Differs
<1> HIDE DEF st, D, refs, ps
<1> QED  BY <1>1, <1>2, <1>3, <1>4, <1>5, <1>6, EditMarks

\* A change of the other worksheet leaves the formulas alone.
LEMMA OutsideMarks ==
    ASSUME SheetIsClean, Marked(cells), RemoteOutside
    PROVE  Marked(cells')
<1>1. PICK p \in Outside, v \in {Blank, Number} : cells' = [cells EXCEPT ![p].v = v]
  BY DEF RemoteOutside
<1>2. cells \in Sheets
  BY DEF SheetIsClean, Good, States
<1> DEFINE ds == cells'
<1>3. \A x \in Cells : ds[x] = cells[x]
  BY <1>1, <1>2, CellsAssumption DEF Sheets, All
<1> HIDE DEF ds
<1>4. \A x \in Cells : Round(ds, x) => Round(cells, x)
  BY <1>2, <1>3, RoundAlike DEF Alike
<1> QED  BY <1>3, <1>4 DEF Marked, ds

LEMMA RemoteEditMarks ==
    ASSUME SheetIsClean, Marked(cells), RemoteEdit
    PROVE  Marked(cells')
<1>1. PICK m \in DOMAIN Inputs, order \in Orders :
         Become([Set([cells |-> cells, blockers |-> <<>>], Inputs[m][1], Inputs[m][2], order)
                    EXCEPT !.blockers = blockers], {Inputs[m][1]}, Inputs[m][2])
  BY DEF RemoteEdit
<1> DEFINE st == [cells |-> cells, blockers |-> <<>>]
           after == Set(st, Inputs[m][1], Inputs[m][2], order)
           t == [after EXCEPT !.blockers = blockers]
<1>2. cells' = t.cells
  BY <1>1 DEF Become
<1>3. Good(st, typed, FALSE, FALSE) /\ st.cells = cells
  <2>1. <<>> \in Notes
    <3>1. <<>> \in [{} -> SpillCells]
      OBVIOUS
    <3> QED  BY <3>1 DEF Notes
  <2> QED  BY <2>1 DEF SheetIsClean, Good, States
<1> HIDE DEF st
<1>4. Good(after, [typed EXCEPT ![Inputs[m][1]] = Inputs[m][2]], FALSE, FALSE)
  BY <1>3, SetGood
<1>5. after = [cells |-> after.cells, blockers |-> after.blockers]
  BY <1>4 DEF Good, States
<1>6. t.cells = after.cells
  <2> HIDE DEF after
  <2> QED  BY <1>5
<1>7. Marked(after.cells)
  BY <1>3, SetMarks
<1> HIDE DEF t, after
<1> QED  BY <1>2, <1>6, <1>7

LEMMA MarkedNext ==
    ASSUME CleanInv, Marked(cells), [Next]_vars
    PROVE  Marked(cells')
<1>1. SheetIsClean
  BY DEF CleanInv
<1>2. CASE Edit
  <2>1. CASE \E order \in Orders, m \in DOMAIN Inputs : SetData(Inputs[m][1], Inputs[m][2], order)
    BY <1>1, <2>1, SetDataMarks
  <2>2. CASE \E order \in Orders, selection \in Selections : RemoveData(selection, order)
    BY <1>1, <2>2, RemoveDataMarks
  <2> QED  BY <1>2, <2>1, <2>2 DEF Edit
<1>3. CASE RemoteEdit
  BY <1>1, <1>3, RemoteEditMarks
<1>4. CASE RemoteOutside
  BY <1>1, <1>4, OutsideMarks
<1>5. CASE \E order \in Orders : Recalculate(order)
  BY <1>1, <1>5, RecalculateMarks
<1>6. CASE RemoteStyle \/ Frame \/ UNCHANGED sheet
  <2>1. cells' = cells
    BY <1>6 DEF RemoteStyle, Frame, sheet
  <2> QED  BY <2>1
<1>7. UNCHANGED vars \/ UNCHANGED <<sheet, cache>> => UNCHANGED sheet
  BY DEF vars
<1> QED  BY <1>2, <1>3, <1>4, <1>5, <1>6, <1>7 DEF Next, RunEnds

\* Formulas show what they evaluate to as long as nobody has made a circular reference, and
\* the cells of a circle an error, whatever was typed, removed and changed by others
\* (calculator.ts, topologicalSort and calculate).
THEOREM SheetShowsWhatIsRight == Spec => []ShownIsRight
<1> DEFINE Inv == CleanInv /\ Marked(cells)
<1>1. Init => Inv
  <2> SUFFICES ASSUME Init PROVE Marked(cells)
    BY CleanInit
  <2>1. cells \in Sheets /\ Whole(cells) /\ \A q \in Cells : cells[q].f = None
    <3>1. CleanInv
      BY CleanInit
    <3> QED  BY <3>1, EmptyIs DEF Init, CleanInv, SheetIsClean, Good, States
  <2> QED  BY <2>1, RoundIs DEF Marked, HasFormula
<1>2. Inv /\ [Next]_vars => Inv'
  BY CleanNext, MarkedNext
<1>3. Inv => CirclesShowErrors
  BY DEF Marked, Round, CirclesShowErrors, Circular
<1>4. Spec => []CirclesShowErrors
  BY <1>1, <1>2, <1>3, PTL DEF Spec
<1> QED  BY <1>4, FormulasStayCurrent, PTL DEF ShownIsRight
=============================================================================
